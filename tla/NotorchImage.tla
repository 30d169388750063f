------------------------------ MODULE NotorchImage ------------------------------
(* The image operations of notorch (notorch.c): convolution as one product of matrices
   over unfolded columns, group norm, upsampling and attention. Nothing is computed: a
   value is known by the places of the arrays it is made of, which are flat and numbered
   row by row. Only group norm, which may write where it reads, takes more than a step. *)
EXTENDS Integers, Sequences, FiniteSets

CONSTANTS
  Geometries,  \* convolutions: channels c and out, sizes h, w, kh, kw, stride, pad
  Norms,       \* group norms: channels c, elements of each, groups
  Attentions   \* attentions: queries t, keys s, width d

ASSUME ImageLimits ==
  /\ \A g \in Geometries : {g.c, g.out, g.h, g.w, g.kh, g.kw, g.stride} \subseteq Nat \ {0} /\ g.pad \in Nat
  /\ \A n \in Norms : {n.c, n.spatial} \subseteq Nat /\ n.groups \in Int
  /\ \A a \in Attentions : {a.t, a.s, a.d} \subseteq Int

VARIABLE image    \* the call in progress: its operation, arguments and result

NoImage == [op |-> "none"]
Below(n) == 0..(n - 1)
Padding == -1

-----------------------------------------------------------------------------
(* The products: per element of C, what is multiplied and summed. *)
nt_blas_mm(m, k, n)  == [e \in Below(m * n) |-> {<<(e \div n) * k + p, p * n + (e % n)>> : p \in Below(k)}]
nt_blas_mmT(m, k, n) == [e \in Below(m * n) |-> {<<(e \div n) * k + p, (e % n) * k + p>> : p \in Below(k)}]

(* C divides towards zero. *)
Quotient(a, b) == IF a < 0 THEN -((-a) \div b) ELSE a \div b
OutSide(size, kernel, g) == Quotient(size + 2 * g.pad - kernel, g.stride) + 1
Hout(g) == OutSide(g.h, g.kh, g)
Wout(g) == OutSide(g.w, g.kw, g)

(* A slip: the taps of a kernel are numbered column by column. *)
nt_im2colTurned(g) ==
  {LET ih == oh * g.stride - g.pad + kh
       iw == ow * g.stride - g.pad + kw
   IN  << ((c * g.kw + kw) * g.kh + kh) * (Hout(g) * Wout(g)) + oh * Wout(g) + ow,
          IF ih \in Below(g.h) /\ iw \in Below(g.w) THEN (c * g.h + ih) * g.w + iw ELSE Padding >> :
     c \in Below(g.c), kh \in Below(g.kh), kw \in Below(g.kw), oh \in Below(Hout(g)), ow \in Below(Wout(g))}

(* What is written to the columns: <<place, element of the image or zero>>. *)
nt_im2col(g) ==
  {LET ih == oh * g.stride - g.pad + kh
       iw == ow * g.stride - g.pad + kw
   IN  << ((c * g.kh + kh) * g.kw + kw) * (Hout(g) * Wout(g)) + oh * Wout(g) + ow,
          IF ih \in Below(g.h) /\ iw \in Below(g.w) THEN (c * g.h + ih) * g.w + iw ELSE Padding >> :
     c \in Below(g.c), kh \in Below(g.kh), kw \in Below(g.kw), oh \in Below(Hout(g)), ow \in Below(Wout(g))}

(* Per element of the output: the products <<weight, element>> and the bias added. *)
nt_conv2d(g) ==
  LET K == g.c * g.kh * g.kw
      N == Hout(g) * Wout(g)
      written == nt_im2col(g)
      col  == [place \in Below(K * N) |-> {w[2] : w \in {v \in written : v[1] = place}}]
      gemm == nt_blas_mm(g.out, K, N)
  IN  [e \in Below(g.out * N) |->
         [taps |-> UNION {{<<m[1], x>> : x \in col[m[2]] \ {Padding}} : m \in gemm[e]}, bias |-> e \div N]]

Convolve ==
  /\ image.op = "none"
  /\ \E g \in Geometries :
       \/ Hout(g) > 0 /\ Wout(g) > 0 /\ image' = [op |-> "conv", of |-> g, out |-> nt_conv2d(g)]
       \/ image' = [op |-> "refused", of |-> g]   \* bad geometry, or no memory

(* Per element of the output the element of the image, scale times as wide and high. *)
nt_upsample_nearest(g, scale) ==
  LET Ho == g.h * scale
      Wo == g.w * scale
  IN  [e \in Below(g.c * Ho * Wo) |->
         LET oh == (e \div Wo) % Ho
         IN  (e \div (Ho * Wo)) * g.h * g.w + (oh \div scale) * g.w + (e % Wo) \div scale]

Upsample == /\ image.op = "none"
            /\ \E g \in Geometries : image' = [op |-> "upsample", of |-> g, out |-> nt_upsample_nearest(g, g.stride)]

(* Per element of the output the score and the value of each key; a score, once scaled and
   exponentiated in its row, is known by the pairs it was summed of. *)
nt_attention(a) ==
  LET scores == nt_blas_mmT(a.t, a.d, a.s)
      product == nt_blas_mm(a.t, a.s, a.d)
  IN  [e \in Below(a.t * a.d) |-> {<<scores[m[1]], m[2]>> : m \in product[e]}]

Attend == /\ image.op = "none"
          /\ \E a \in Attentions :
               \/ a.t > 0 /\ a.s > 0 /\ a.d > 0 /\ image' = [op |-> "attention", of |-> a, out |-> nt_attention(a)]
               \/ image' = [op |-> "refused", of |-> a]

-----------------------------------------------------------------------------
(* nt_group_norm. out[e] is <<what its statistics are of, what it was itself read as>>;
   an element read where it was written is Overwritten. *)
Overwritten == -2
NotYet == <<>>

NormBegins ==
  /\ image.op = "none"
  /\ \E n \in Norms, same \in BOOLEAN :
       image' = IF n.groups <= 0 THEN [op |-> "refused", of |-> n]
                ELSE IF n.c % n.groups # 0 \/ (n.c \div n.groups) * n.spatial <= 0 THEN [op |-> "refused", of |-> n]
                ELSE [op |-> "norm", of |-> n, same |-> same, group |-> 0, c |-> 0, stats |-> {},
                      out |-> [e \in Below(n.c * n.spatial) |-> NotYet]]

ReadAs(e) == IF image.same /\ image.out[e] # NotYet THEN Overwritten ELSE e
GroupSize == image.of.c \div image.of.groups

(* Sum and squares of the group, before anything of it is written. *)
GroupStatistics ==
  /\ image.op = "norm" /\ image.group < image.of.groups /\ image.c = image.group * GroupSize
  /\ image.stats = {}
  /\ LET first == image.group * GroupSize * image.of.spatial
     IN  image' = [image EXCEPT !.stats = {ReadAs(e) : e \in first..(first + GroupSize * image.of.spatial - 1)}]

ChannelWritten ==
  /\ image.op = "norm" /\ image.stats # {}
  /\ LET at == image.c * image.of.spatial
         last == image.c + 1 = (image.group + 1) * GroupSize
     IN  image' = [image EXCEPT
           !.out = [e \in DOMAIN @ |-> IF e \in at..(at + image.of.spatial - 1) THEN <<image.stats, ReadAs(e)>> ELSE @[e]],
           !.c = @ + 1, !.group = IF last THEN @ + 1 ELSE @, !.stats = IF last THEN {} ELSE @]

NormDone == image.op = "norm" /\ image.group = image.of.groups

ImageReturned == /\ image.op \in {"conv", "upsample", "attention", "refused"} \/ NormDone
                 /\ image' = NoImage

-----------------------------------------------------------------------------
ImageInit == image = NoImage
ImageNext == Convolve \/ Upsample \/ Attend \/ NormBegins \/ GroupStatistics \/ ChannelWritten \/ ImageReturned

ImageSpec == ImageInit /\ [][ImageNext]_image

-----------------------------------------------------------------------------
(* The rows and columns of the image under the kernel laid at y, x. *)
Covered(g, y, x) == {p \in Below(g.h) \X Below(g.w) : /\ p[1] + g.pad - y * g.stride \in Below(g.kh)
                                                     /\ p[2] + g.pad - x * g.stride \in Below(g.kw)}

(* Each element of the output is the kernel laid over the image where that element is: the
   elements it covers, each by its own weight, and nothing for what it covers of the padding. *)
ConvolvedWhole(g, out) ==
  /\ DOMAIN out = Below(g.out * Hout(g) * Wout(g))
  /\ Cardinality(nt_im2col(g)) = g.c * g.kh * g.kw * Hout(g) * Wout(g)
  /\ \A co \in Below(g.out), y \in Below(Hout(g)), x \in Below(Wout(g)) :
       out[(co * Hout(g) + y) * Wout(g) + x] =
         [bias |-> co,
          taps |-> {<<((co * g.c + c) * g.kh + p[1] + g.pad - y * g.stride) * g.kw + p[2] + g.pad - x * g.stride,
                      (c * g.h + p[1]) * g.w + p[2]>> : c \in Below(g.c), p \in Covered(g, y, x)}]

(* Each element of the image is a square of the output. *)
UpsampledWhole(g, scale, out) ==
  /\ DOMAIN out = Below(g.c * g.h * scale * g.w * scale)
  /\ \A c \in Below(g.c), y \in Below(g.h), x \in Below(g.w), i, j \in Below(scale) :
       out[(c * g.h * scale + y * scale + i) * g.w * scale + x * scale + j] = (c * g.h + y) * g.w + x

(* Each query is scored with every key, and weighs that key's value. *)
AttendedWhole(a, out) ==
  \A t \in Below(a.t), j \in Below(a.d) :
    out[t * a.d + j] = {<<{<<t * a.d + p, s * a.d + p>> : p \in Below(a.d)}, s * a.d + j>> : s \in Below(a.s)}

(* Each element is scaled, as it was given, by statistics of its whole group as it was given,
   though the output may be the input. *)
NormedWhole ==
  /\ \A e \in DOMAIN image.out : image.out[e] # NotYet =>
       LET size == GroupSize * image.of.spatial
       IN  image.out[e] = <<{f \in DOMAIN image.out : f \div size = e \div size}, e>>
  /\ NormDone => \A e \in DOMAIN image.out : image.out[e] # NotYet

(* What the image operations compute is what they are named for, with every shape. *)
ImagesAreWhole ==
  CASE image.op = "conv"      -> ConvolvedWhole(image.of, image.out)
    [] image.op = "upsample"  -> UpsampledWhole(image.of, image.of.stride, image.out)
    [] image.op = "attention" -> AttendedWhole(image.of, image.out)
    [] image.op = "norm"      -> NormedWhole
    [] OTHER -> TRUE
=============================================================================
