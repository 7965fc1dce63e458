------------------------------- MODULE Ecdsa -------------------------------
(***************************************************************************)
(* The elliptic curve of ecdsa.c and its callers: public keys, signatures, *)
(* the deterministic generator of prandom.c and the derivation of bip32.c. *)
(* Numbers are integers below 2^Bits; the functions of bignum256.c do on   *)
(* them what BigNum shows.  The field that those functions work in is a    *)
(* global variable, set by setFieldToP() and setFieldToN().                *)
(***************************************************************************)
EXTENDS Integers, Sequences, SequencesExt

CONSTANTS
    Bits,           \* bits in a number: 256
    P,              \* secp256k1_p
    N,              \* secp256k1_n, the order of G
    Gx, Gy,         \* the base point G
    Keys,           \* private keys, below N and not 0
    Hashes          \* message digests and hash outputs, below 2^Bits

VARIABLES
    field,      \* n of bignum256.c
    acc, bits,  \* pointMultiply(): its accumulator and the bits of k to come
    job,        \* what the program is computing, or NoJob
    result      \* what it returned, or NoResult

vars == <<field, acc, bits, job, result>>

Number == 0..2^Bits - 1
-----------------------------------------------------------------------------
(* bignum256.c in the field f. *)
bigModulo(f, a) == IF a < f THEN a ELSE a - f

bigAdd(f, a, b) ==
    LET sum == a + b
    IN  IF sum >= f THEN (sum - f) % 2^Bits ELSE sum

bigSubtract(f, a, b) == IF a < b THEN (a - b + f) % 2^Bits ELSE a - b

bigMultiply(f, a, b) == (a * b) % f

bigInvert(f, a) ==
    IF a % f = 0 THEN 0 ELSE CHOOSE x \in 1..f - 1 : (x * a) % f = 1

(* A point in Jacobian coordinates.  The coordinates of the point at       *)
(* infinity mean nothing.                                                  *)
affineToJacobian(p) == [x |-> p.x, y |-> p.y, z |-> 1, infinity |-> p.infinity]

jacobianToAffine(f, p) ==
    LET s == bigMultiply(f, p.z, p.z)
        t == bigMultiply(f, s, p.z)
    IN  [x |-> bigMultiply(f, p.x, bigInvert(f, s)),
         y |-> bigMultiply(f, p.y, bigInvert(f, t)),
         infinity |-> p.infinity]

pointDouble(f, p) ==
    LET Mul(a, b) == bigMultiply(f, a, b)
        Twice(a) == bigAdd(f, a, a)
        y2 == Mul(p.y, p.y)
        t == Twice(Twice(Mul(y2, p.x)))
        x2 == Mul(p.x, p.x)
        u == bigAdd(f, Twice(x2), x2)
        x == bigSubtract(f, bigSubtract(f, Mul(u, u), t), t)
    IN  [x |-> x,
         y |-> bigSubtract(f, Mul(bigSubtract(f, t, x), u), Twice(Twice(Twice(Mul(y2, y2))))),
         z |-> Twice(Mul(p.z, p.y)),
         infinity |-> p.infinity \/ p.y = 0]

(* The formula of pointAdd() for points that differ, with s and t the      *)
(* coordinates of p2 scaled to the z of p1.                                *)
AddDifferent(f, p1, s, t) ==
    LET Mul(a, b) == bigMultiply(f, a, b)
        ds == bigSubtract(f, s, p1.x)
        dt == bigSubtract(f, t, p1.y)
        v == Mul(ds, ds)
        u == Mul(v, p1.x)
        sv == Mul(ds, v)
        x == bigSubtract(f, bigSubtract(f, bigSubtract(f, Mul(dt, dt), sv), u), u)
    IN  [x |-> x,
         y |-> bigSubtract(f, Mul(bigSubtract(f, u, x), dt), Mul(sv, p1.y)),
         z |-> Mul(p1.z, ds),
         infinity |-> p1.infinity \/ (p1.x = s /\ p1.y # t)]

(* pointAdd().  When one of the points is O the remaining writes go to     *)
(* junk, which nobody reads.                                               *)
pointAdd(f, p1, p2) ==
    LET z2 == bigMultiply(f, p1.z, p1.z)
        s == bigMultiply(f, z2, p2.x)
        t == bigMultiply(f, bigMultiply(f, z2, p1.z), p2.y)
    IN  IF p1.infinity THEN affineToJacobian(p2)
        ELSE IF p2.infinity THEN p1
        ELSE IF p1.x = s /\ p1.y = t THEN pointDouble(f, p1)
        ELSE AddDifferent(f, p1, s, t)

Zero == [x |-> 0, y |-> 0, z |-> 0, infinity |-> TRUE]

G == [x |-> Gx, y |-> Gy, infinity |-> FALSE]

BitsOf(k) == [i \in 1..Bits |-> (k \div 2^(Bits - i)) % 2]

NoJob == [fn |-> "none"]

NoResult == [fn |-> "none"]

Init ==
    /\ field = P
    /\ acc = Zero /\ bits = <<>>
    /\ job = NoJob /\ result = NoResult

(* pointMultiply() of G up to its loop. *)
pointMultiply(k) ==
    /\ field' = P
    /\ acc' = Zero
    /\ bits' = BitsOf(k)

(* One round of that loop. *)
DoubleAndAdd ==
    /\ bits # <<>>
    /\ acc' = pointAdd(field, pointDouble(field, acc),
                       IF Head(bits) = 1 THEN G ELSE [G EXCEPT !.infinity = TRUE])
    /\ bits' = Tail(bits)
    /\ UNCHANGED <<field, job, result>>

(* A public key from a scalar: getAddressAndPublicKey() of wallet.c. *)
getPublicKey(k) ==
    /\ job = NoJob
    /\ job' = [fn |-> "getPublicKey", k |-> k]
    /\ pointMultiply(k)
    /\ UNCHANGED result

(* Mutation: the parity of y is not written. *)
SerialiseX(point, do_compress) ==
    IF point.infinity THEN <<0>>
    ELSE IF do_compress THEN <<2>> \o BitsOf(point.x)
    ELSE <<4>> \o BitsOf(point.x) \o BitsOf(point.y)

(* The bytes that name a point; numbers have their greatest digit first.   *)
ecdsaSerialise(point, do_compress) ==
    IF point.infinity THEN <<0>>
    ELSE IF do_compress THEN <<IF point.y % 2 = 1 THEN 3 ELSE 2>> \o BitsOf(point.x)
    ELSE <<4>> \o BitsOf(point.x) \o BitsOf(point.y)

(* The address is made from the serialised point, unless that is O. *)
PublicKeyDone ==
    /\ job.fn = "getPublicKey" /\ bits = <<>> /\ result = NoResult
    /\ LET point == jacobianToAffine(field, acc)
           serialised == ecdsaSerialise(point, TRUE)
       IN  result' = [fn |-> "getPublicKey", error |-> Len(serialised) < 2,
                      point |-> point, serialised |-> serialised]
    /\ UNCHANGED <<field, acc, bits, job>>

(* ecdsaSign() up to its loop; k = 0 stands for no k yet. *)
ecdsaSign(hash, private_key) ==
    /\ job = NoJob
    /\ job' = [fn |-> "ecdsaSign", hash |-> hash, key |-> private_key, k |-> 0]
    /\ UNCHANGED <<field, acc, bits, result>>

(* The loop takes the next output of the generator and tries again when it *)
(* is not a scalar.                                                        *)
ChooseK(k) ==
    /\ job.fn = "ecdsaSign" /\ job.k = 0
    /\ IF k = 0 \/ k >= N
       THEN UNCHANGED <<field, acc, bits, job>>
       ELSE pointMultiply(k) /\ job' = [job EXCEPT !.k = k]
    /\ UNCHANGED result

(* r and s of one round of ecdsaSign(), from the point k G and in field f. *)
Signature(f, big_r, k, hash, private_key) ==
    LET r == bigModulo(f, big_r.x)
        e == bigAdd(f, bigMultiply(f, r, private_key), bigModulo(f, hash))
    IN  [r |-> r, s |-> bigMultiply(f, e, bigInvert(f, k))]

(* Mutation: the field that pointMultiply() has set is used. *)
StaysInP == P

(* setFieldToN() of ecdsaSign(), after pointMultiply() has set the field   *)
(* to P.                                                                   *)
FieldOfSignature == N

(* Mutation: s is negated when it is below n / 2. *)
CanonicaliseUp(s) == IF s < N \div 2 THEN N - s ELSE s

(* bigShiftRightNoModulo() of n, a comparison and a subtraction. *)
Canonicalise(s) == IF s > N \div 2 THEN N - s ELSE s

(* The rest of a round of ecdsaSign(): an r or s of zero leads to another. *)
SignRound ==
    /\ job.fn = "ecdsaSign" /\ job.k # 0 /\ bits = <<>> /\ result = NoResult
    /\ field' = FieldOfSignature
    /\ LET big_r == jacobianToAffine(field, acc)
           sig == Signature(field', big_r, job.k, job.hash, job.key)
       IN  IF sig.r = 0 \/ sig.s = 0
           THEN job' = [job EXCEPT !.k = 0] /\ UNCHANGED result
           ELSE /\ result' = [fn |-> "ecdsaSign", r |-> sig.r, s |-> Canonicalise(sig.s)]
                /\ UNCHANGED job
    /\ UNCHANGED <<acc, bits>>

(* Mutation: the field is not set again after the public key. *)
FieldOfParentKey(cached) == IF cached THEN N ELSE P

(* The field of the product in generateDeterministic256(): setFieldToN()   *)
(* is called again after the public key of the parent, which is computed   *)
(* in P unless it is cached.                                               *)
FieldOfProduct(cached) == N

generateDeterministic256(seed, i_l, cached) ==
    LET k_par == bigModulo(N, seed)
    IN  /\ job = NoJob
        /\ job' = [fn |-> "generateDeterministic256", seed |-> seed, i_l |-> i_l]
        /\ IF k_par = 0
           THEN /\ field' = N
                /\ result' = [fn |-> "generateDeterministic256", error |-> TRUE, key |-> 0]
           ELSE /\ field' = FieldOfProduct(cached)
                /\ result' = [fn |-> "generateDeterministic256", error |-> FALSE,
                              key |-> bigMultiply(field', bigModulo(field', i_l), k_par)]
        /\ UNCHANGED <<acc, bits>>

(* One step of bip32DerivePrivate() along the path.  A step that is not    *)
(* hardened computes the public key first, in P.                           *)
bip32DerivePrivate(key, i_l, hardened) ==
    /\ job = NoJob
    /\ job' = [fn |-> "bip32DerivePrivate", key |-> key, i_l |-> i_l]
    /\ IF i_l >= N
       THEN /\ result' = [fn |-> "bip32DerivePrivate", error |-> TRUE, key |-> 0]
            /\ field' = IF hardened THEN field ELSE P
       ELSE /\ field' = N
            /\ LET child == bigAdd(field', i_l, key)
               IN  result' = [fn |-> "bip32DerivePrivate", error |-> child = 0, key |-> child]
    /\ UNCHANGED <<acc, bits>>

Return ==
    /\ result # NoResult
    /\ job' = NoJob /\ result' = NoResult
    /\ acc' = Zero
    /\ UNCHANGED <<field, bits>>

Next ==
    \/ \E k \in Number : getPublicKey(k) \/ ChooseK(k)
    \/ DoubleAndAdd
    \/ PublicKeyDone
    \/ SignRound
    \/ \E hash \in Hashes, key \in Keys : ecdsaSign(hash, key)
    \/ \E seed \in Hashes, i_l \in Hashes, cached \in BOOLEAN :
          generateDeterministic256(seed, i_l, cached)
    \/ \E key \in Keys, i_l \in Hashes, hardened \in BOOLEAN :
          bip32DerivePrivate(key, i_l, hardened)
    \/ Return

Spec == Init /\ [][Next]_vars
-----------------------------------------------------------------------------
(* The group of the curve y^2 = x^3 + b by chords and tangents. *)
O == [x |-> 0, y |-> 0, infinity |-> TRUE]

Slope(p, q) ==
    IF p = q THEN (3 * p.x * p.x * bigInvert(P, 2 * p.y)) % P
    ELSE ((q.y - p.y) * bigInvert(P, (q.x - p.x) % P)) % P

Sum(p, q) ==
    IF p.infinity THEN q
    ELSE IF q.infinity THEN p
    ELSE IF p.x = q.x /\ (p.y + q.y) % P = 0 THEN O
    ELSE LET l == Slope(p, q)
             x == (l * l - p.x - q.x) % P
         IN  [x |-> x, y |-> (l * (p.x - x) - p.y) % P, infinity |-> FALSE]

(* The multiples of G: 0 G, 1 G, ..., (N - 1) G. *)
Multiples[i \in 0..N - 1] ==
    IF i = 0 THEN O
    ELSE IF i % 2 = 1 THEN Sum(Multiples[i - 1], G)
    ELSE LET half == Multiples[i \div 2] IN Sum(half, half)

Multiple(k) == Multiples[k % N]

(* A signature that ecdsaSign() returns satisfies the verification         *)
(* equation for the public key of the private key, whatever was computed   *)
(* before and however many rounds were needed: the point                   *)
(* (hash G + r Q) / s has r as its x-coordinate modulo n.  Of s and n - s  *)
(* it is the smaller, the form that other Bitcoin nodes relay.             *)
SignatureVerifies ==
    result.fn = "ecdsaSign" =>
        LET w == bigInvert(N, result.s)
            point == Multiple((job.hash * w) + ((result.r * w) % N) * job.key)
        IN  /\ result.r \in 1..N - 1 /\ result.s \in 1..N - 1
            /\ ~point.infinity /\ point.x % N = result.r
            /\ result.s <= N - result.s

NumberOf(digits) == FoldLeft(LAMBDA n, b : 2 * n + b, 0, digits)

(* The points of the curve that serialised bytes may name. *)
Named(serialised) ==
    LET x == NumberOf(SubSeq(serialised, 2, Bits + 1))
        root(y) == (y * y - x * x * x - (Gy * Gy - Gx * Gx * Gx)) % P = 0
        tail == SubSeq(serialised, Bits + 2, Len(serialised))
    IN  CASE serialised = <<0>> -> {O}
          [] serialised[1] \in {2, 3} ->
                {[x |-> x, y |-> y, infinity |-> FALSE] :
                    y \in {y \in 0..P - 1 : root(y) /\ y % 2 = serialised[1] % 2}}
          [] serialised[1] = 4 -> {[x |-> x, y |-> NumberOf(tail), infinity |-> FALSE]}

(* The keys of generateDeterministic256() and bip32DerivePrivate() are the *)
(* product and the sum modulo the order of G, in whichever field earlier   *)
(* calls left bignum256.c and whether or not the public key of the parent  *)
(* had to be computed on the way.  bip32DerivePrivate() reports no key     *)
(* that is 0.  generateDeterministic256() has no such check: it reports 0  *)
(* for a hash that is 0 modulo the order, and it is the public key that is *)
(* then refused.  Any other key has a public key, the multiple of G, whose *)
(* serialised form names this point alone.                                 *)
DerivedKeys ==
    /\ result.fn = "getPublicKey" =>
          LET q == Multiple(job.k)
          IN  /\ result.error <=> q.infinity
              /\ Named(result.serialised) = {q}
              /\ Named(ecdsaSerialise(result.point, FALSE)) = {q}
    /\ result.fn = "generateDeterministic256" =>
          IF result.error THEN job.seed % N = 0
          ELSE /\ result.key = ((job.seed % N) * job.i_l) % N
               /\ result.key = 0 => job.i_l % N = 0
    /\ result.fn = "bip32DerivePrivate" /\ ~result.error =>
          result.key = (job.key + job.i_l) % N /\ result.key # 0
=============================================================================
