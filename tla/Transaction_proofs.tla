------------------------- MODULE Transaction_proofs -------------------------
(***************************************************************************)
(* parseTransaction() shows the user what it hashes and reads exactly the  *)
(* announced data, for any number of inputs and outputs, any amounts and   *)
(* any limits.                                                             *)
(***************************************************************************)
EXTENDS Transaction, SequenceTheorems, WellFoundedInduction, TLAPS

(* A finite sequence, of elements of any kind. *)
IsSeq(s) == Len(s) \in Nat /\ s = [n \in 1 .. Len(s) |-> s[n]]

Amounts(h) == Values(h, "amount")

(* What the parser has read of the fields that the properties are about. *)
ReadFields == {"amount", "output_script", "ref_num", "ref_hash"}
AmountsRead == Values(sig_hash, "amount")
ScriptsRead == Values(sig_hash, "output_script")
NumsRead == Values(sig_hash, "ref_num")
RefsRead == Values(sig_hash, "ref_hash")

(* The hashes in txs are of units, with amounts. *)
Genuine(txs) ==
    \A h \in txs : IsSeq(h) /\ \A n \in 1 .. Len(Amounts(h)) : Amounts(h)[n] \in Nat

(* The first m references of c: the number of an output and the hash of    *)
(* the transaction of txs that has it; and the amounts of those outputs.   *)
Refs(c, m, txs) ==
    \A k \in 1 .. m :
        /\ c[2 * k] \in txs
        /\ c[2 * k - 1] \in Nat
        /\ c[2 * k - 1] < Len(Amounts(c[2 * k]))
Worth(c, m) == [k \in 1 .. m |-> Amounts(c[2 * k])[c[2 * k - 1] + 1]]

(* The first references of c are those that nums and refs give, in turn. *)
Paired(c, nums, refs) ==
    \A k \in 1 .. Len(nums) : c[2 * k - 1] = nums[k] /\ c[2 * k] = refs[k]

InputFields == {"ref_hash", "ref_num", "input_script", "sequence"}
OutputFields == {"amount", "output_script"}
Body == {"version", "num_inputs", "num_outputs", "locktime", "hashtype"} \cup InputFields \cup OutputFields
Running == Body \cup {"begin", "is_ref", "output_num"}

Typed ==
    /\ TypeOK
    /\ pc \in Running \cup {"idle", "rest", "done"}
    /\ output_num_select \in Nat /\ num_inputs \in Nat /\ num_outputs \in Nat /\ i \in Nat
    /\ IsSeq(sig_hash) /\ IsSeq(transaction_hash)
    /\ IsSeq(ref_compare) /\ IsSeq(ref_compare_hash) /\ IsSeq(list)
    /\ Genuine(known)
    /\ pc = "done" => transaction_data_index = transaction_length
    /\ pc \in Running => result = "NO_ERROR" /\ transaction_fee = 0

(* The two hashes agree on the fields, and the fields are read in turn. *)
FieldsInv ==
    /\ \A f \in ReadFields : Values(transaction_hash, f) = Values(sig_hash, f)
    /\ \A n \in 1 .. Len(AmountsRead) : AmountsRead[n] \in Nat
    /\ pc \in {"is_ref", "output_num", "version", "num_inputs"} => NumsRead = <<>> /\ RefsRead = <<>>
    /\ pc \in {"is_ref", "output_num", "version", "num_inputs", "num_outputs"} \cup InputFields =>
        AmountsRead = <<>> /\ ScriptsRead = <<>>
    /\ pc = "ref_num" => Len(RefsRead) = Len(NumsRead) + 1
    /\ pc \in Body \ {"ref_num"} => Len(RefsRead) = Len(NumsRead)
    /\ pc = "amount" => Len(AmountsRead) = i /\ Len(ScriptsRead) = i
    /\ pc = "output_script" => /\ Len(AmountsRead) = i + 1 /\ Len(ScriptsRead) = i
                               /\ Len(sig_hash) > 0 /\ sig_hash[Len(sig_hash)].v = AmountsRead[i + 1]
    /\ pc \in {"locktime", "hashtype"} => Len(AmountsRead) = num_outputs /\ Len(ScriptsRead) = num_outputs

(* Between two transactions. *)
BetweenInv ==
    /\ list = <<>>
    /\ \E m \in 0 .. Len(ref_compare) :
        /\ Len(ref_compare) = 2 * m
        /\ Refs(ref_compare, m, known)
        /\ transaction_fee_amount = Total(Worth(ref_compare, m))

(* In an input transaction. *)
Selected == IF output_num_select < Len(AmountsRead) THEN AmountsRead[output_num_select + 1] ELSE 0
InputInv ==
    /\ list = <<>>
    /\ pc # "hashtype"
    /\ pc \in OutputFields \cup {"locktime"} => output_num_select < num_outputs
    /\ \E m \in 0 .. Len(ref_compare) :
        /\ Len(ref_compare) = 2 * m + 1
        /\ ref_compare[2 * m + 1] = output_num_select
        /\ Refs(ref_compare, m, known)
        /\ transaction_fee_amount = Total(Worth(ref_compare, m)) + Selected

(* In the spending transaction. *)
Shown ==
    /\ Len(list) = Len(ScriptsRead)
    /\ \A n \in 1 .. Len(ScriptsRead) : list[n] = [amount |-> AmountsRead[n], address |-> ScriptsRead[n]]
Collected ==
    \E m \in 0 .. Len(ref_compare_hash) :
        /\ Len(ref_compare_hash) = 2 * m
        /\ Refs(ref_compare_hash, m, known)
        /\ Total(Worth(ref_compare_hash, m)) = transaction_fee_amount + Total(AmountsRead)
SpendInv ==
    /\ Shown
    /\ Paired(ref_compare, NumsRead, RefsRead)
    /\ pc = "ref_num" => /\ Len(ref_compare) = 2 * Len(NumsRead) + 1
                         /\ ref_compare[2 * Len(NumsRead) + 1] = RefsRead[Len(NumsRead) + 1]
    /\ pc # "ref_num" => Len(ref_compare) = 2 * Len(NumsRead)
    /\ pc \in OutputFields \cup {"num_outputs", "locktime", "hashtype"} => ref_compare = ref_compare_hash
    /\ Collected

(* The transaction was accepted. *)
AcceptedInv ==
    /\ \A n \in 1 .. Len(RefsRead) : RefsRead[n] \in known /\ NumsRead[n] < Len(Outputs(RefsRead[n]))
    /\ list = Outputs(transaction_hash)
    /\ Total(Spent(transaction_hash)) = transaction_fee + Total(Values(transaction_hash, "amount"))

(* What holds when the field pc is read next, or when nothing is. *)
Phases ==
    /\ pc \in {"begin", "is_ref", "output_num"} => BetweenInv
    /\ pc = "output_num" => is_ref
    /\ pc \in Body /\ is_ref => InputInv
    /\ pc \in Body /\ ~is_ref => SpendInv
    /\ pc \in {"rest", "done"} /\ result = "NO_ERROR" => AcceptedInv

IInv == Typed /\ FieldsInv /\ Phases

-----------------------------------------------------------------------------
(* Sequences. *)

LEMMA IsSeqOf ==
  ASSUME NEW s, IsSeq(s)
  PROVE  s \in Seq({s[n] : n \in 1 .. Len(s)})
<1>1. [n \in 1 .. Len(s) |-> s[n]] \in Seq({s[n] : n \in 1 .. Len(s)})
  BY DEF IsSeq
<1>. QED BY Zenon, <1>1 DEF IsSeq

LEMMA SeqIs ==
  ASSUME NEW T, NEW s \in Seq(T)
  PROVE  IsSeq(s)
BY DEF IsSeq

LEMMA EmptyIs == IsSeq(<<>>) /\ Len(<<>>) = 0
BY Zenon, SeqIs, EmptySeq

LEMMA AppendIs ==
  ASSUME NEW s, IsSeq(s), NEW x
  PROVE  /\ IsSeq(Append(s, x))
         /\ Len(Append(s, x)) = Len(s) + 1
         /\ \A n \in 1 .. Len(s) : Append(s, x)[n] = s[n]
         /\ Append(s, x)[Len(s) + 1] = x
<1>. DEFINE T == {s[n] : n \in 1 .. Len(s)} \cup {x}
<1>1. s \in Seq({s[n] : n \in 1 .. Len(s)})
  BY Zenon, IsSeqOf
<1>2. s \in Seq(T) /\ x \in T
  BY <1>1
<1>. HIDE DEF T
<1>3. Append(s, x) \in Seq(T)
  BY <1>2
<1>4. IsSeq(Append(s, x))
  BY Zenon, <1>3, SeqIs
<1>. QED BY <1>2, <1>4

-----------------------------------------------------------------------------
(* Values() and Total() of a sequence that grows. *)
\* The induction principle, for a set of numbers.
LEMMA SetInduction ==
  ASSUME NEW T, 0 \in T, \A n \in Nat : n \in T => n + 1 \in T
  PROVE  Nat \subseteq T
<1>. DEFINE M == Nat \ T
            R == {p \in Nat \X Nat : p[1] < p[2]}
<1>1. IsWellFoundedOn(R, Nat)
  BY Zenon, NatLessThanWellFounded DEF OpToRel
<1>2. SUFFICES ASSUME M # {} PROVE FALSE
  BY Zenon
<1>3. PICK x \in M : \A y \in M : ~(<<y, x>> \in R)
  <2>. HIDE DEF R
  <2>. QED BY Zenon, <1>1, <1>2, WFMin
<1>4. x \in Nat /\ x # 0 /\ x - 1 \in Nat
  OBVIOUS
<1>5. x - 1 \notin T
  BY <1>4
<1>6. <<x - 1, x>> \in R
  BY <1>4
<1>. QED BY Zenon, <1>3, <1>4, <1>5, <1>6

ValuesStep(s, h, field, n) == IF h[n].field = field THEN Append(s, h[n].v) ELSE s
ValuesRun(g, h, field, k) ==
    g = [n \in 0 .. k |-> IF n = 0 THEN <<>> ELSE ValuesStep(g[n - 1], h, field, n)]
TotalRun(g, s, k) == g = [n \in 0 .. k |-> IF n = 0 THEN 0 ELSE g[n - 1] + s[n]]

\* The values of one field, unit by unit.
LEMMA ValuesExist ==
  ASSUME NEW h, NEW field, NEW k \in Nat
  PROVE  \E g : ValuesRun(g, h, field, k)
<1>. DEFINE T == {m \in Nat : \E g : ValuesRun(g, h, field, m)}
<1>1. 0 \in T
  <2>1. \A n \in 0 .. 0 : n = 0
    OBVIOUS
  <2>2. ValuesRun([n \in 0 .. 0 |-> <<>>], h, field, 0)
    BY Zenon, <2>1 DEF ValuesRun
  <2>. QED BY Zenon, <2>2
<1>2. ASSUME NEW m \in Nat, m \in T
      PROVE  m + 1 \in T
  <2>1. PICK f : ValuesRun(f, h, field, m)
    BY Zenon, <1>2
  <2>. DEFINE g == [n \in 0 .. m + 1 |-> IF n <= m THEN f[n] ELSE ValuesStep(f[m], h, field, m + 1)]
  <2>2. \A n \in 0 .. m : f[n] = IF n = 0 THEN <<>> ELSE ValuesStep(f[n - 1], h, field, n)
    BY Zenon, <2>1 DEF ValuesRun
  <2>3. \A n \in 0 .. m : g[n] = f[n]
    OBVIOUS
  <2>4. g[m + 1] = ValuesStep(f[m], h, field, m + 1)
    OBVIOUS
  <2>5. \A n \in 0 .. m + 1 : g[n] = IF n = 0 THEN <<>> ELSE ValuesStep(g[n - 1], h, field, n)
    <3>1. ASSUME NEW n \in 0 .. m + 1
          PROVE  g[n] = IF n = 0 THEN <<>> ELSE ValuesStep(g[n - 1], h, field, n)
      <4>. HIDE DEF g
      <4>1. CASE n = 0
        BY <2>2, <2>3, <4>1
      <4>2. CASE n \in 1 .. m
        <5>1. n \in 0 .. m /\ n - 1 \in 0 .. m /\ n # 0
          BY <4>2
        <5>2. g[n] = f[n] /\ g[n - 1] = f[n - 1]
          BY Zenon, <2>3, <5>1
        <5>3. f[n] = ValuesStep(f[n - 1], h, field, n)
          BY Zenon, <2>2, <5>1
        <5>. QED BY Zenon, <5>1, <5>2, <5>3
      <4>3. CASE n = m + 1
        <5>1. m \in 0 .. m /\ n # 0 /\ n - 1 = m
          BY <4>3
        <5>2. g[m] = f[m]
          BY Zenon, <2>3, <5>1
        <5>. QED BY Zenon, <2>4, <4>3, <5>1, <5>2
      <4>. QED BY <4>1, <4>2, <4>3
    <3>. QED BY Zenon, <3>1
  <2>6. g = [n \in 0 .. m + 1 |-> g[n]]
    BY Zenon
  <2>. HIDE DEF g
  <2>7. ValuesRun(g, h, field, m + 1)
    BY Zenon, <2>5, <2>6 DEF ValuesRun
  <2>. QED BY <2>7
<1>. HIDE DEF T
<1>3. k \in T
  BY Zenon, <1>1, <1>2, SetInduction
<1>. QED BY Zenon, <1>3 DEF T

\* The sums of the first amounts.
LEMMA TotalExist ==
  ASSUME NEW s, NEW k \in Nat
  PROVE  \E g : TotalRun(g, s, k)
<1>. DEFINE T == {m \in Nat : \E g : TotalRun(g, s, m)}
<1>1. 0 \in T
  <2>1. \A n \in 0 .. 0 : n = 0
    OBVIOUS
  <2>2. TotalRun([n \in 0 .. 0 |-> 0], s, 0)
    BY Zenon, <2>1 DEF TotalRun
  <2>. QED BY Zenon, <2>2
<1>2. ASSUME NEW m \in Nat, m \in T
      PROVE  m + 1 \in T
  <2>1. PICK f : TotalRun(f, s, m)
    BY Zenon, <1>2
  <2>. DEFINE g == [n \in 0 .. m + 1 |-> IF n <= m THEN f[n] ELSE f[m] + s[m + 1]]
  <2>2. \A n \in 0 .. m : f[n] = IF n = 0 THEN 0 ELSE f[n - 1] + s[n]
    BY Zenon, <2>1 DEF TotalRun
  <2>3. \A n \in 0 .. m : g[n] = f[n]
    OBVIOUS
  <2>4. g[m + 1] = f[m] + s[m + 1]
    OBVIOUS
  <2>5. \A n \in 0 .. m + 1 : g[n] = IF n = 0 THEN 0 ELSE g[n - 1] + s[n]
    <3>1. ASSUME NEW n \in 0 .. m + 1
          PROVE  g[n] = IF n = 0 THEN 0 ELSE g[n - 1] + s[n]
      <4>. HIDE DEF g
      <4>1. CASE n = 0
        BY <2>2, <2>3, <4>1
      <4>2. CASE n \in 1 .. m
        <5>1. n \in 0 .. m /\ n - 1 \in 0 .. m /\ n # 0
          BY <4>2
        <5>2. g[n] = f[n] /\ g[n - 1] = f[n - 1]
          BY Zenon, <2>3, <5>1
        <5>3. f[n] = f[n - 1] + s[n]
          BY Zenon, <2>2, <5>1
        <5>. QED BY Zenon, <5>1, <5>2, <5>3
      <4>3. CASE n = m + 1
        <5>1. m \in 0 .. m /\ n # 0 /\ n - 1 = m
          BY <4>3
        <5>2. g[m] = f[m]
          BY Zenon, <2>3, <5>1
        <5>. QED BY Zenon, <2>4, <4>3, <5>1, <5>2
      <4>. QED BY <4>1, <4>2, <4>3
    <3>. QED BY Zenon, <3>1
  <2>6. g = [n \in 0 .. m + 1 |-> g[n]]
    BY Zenon
  <2>. HIDE DEF g
  <2>7. TotalRun(g, s, m + 1)
    BY Zenon, <2>5, <2>6 DEF TotalRun
  <2>. QED BY <2>7
<1>. HIDE DEF T
<1>3. k \in T
  BY Zenon, <1>1, <1>2, SetInduction
<1>. QED BY Zenon, <1>3 DEF T

LEMMA ValuesIsRun ==
  ASSUME NEW h, IsSeq(h), NEW field
  PROVE  \E g : ValuesRun(g, h, field, Len(h)) /\ Values(h, field) = g[Len(h)]
<1>. DEFINE values[n \in 0 .. Len(h)] ==
              IF n = 0 THEN <<>>
              ELSE IF h[n].field = field THEN Append(values[n - 1], h[n].v)
              ELSE values[n - 1]
<1>1. Values(h, field) = values[Len(h)]
  BY Zenon DEF Values
<1>2. \E g : ValuesRun(g, h, field, Len(h))
  BY Zenon, ValuesExist DEF IsSeq
<1>3. values = [n \in 0 .. Len(h) |->
                  IF n = 0 THEN <<>>
                  ELSE IF h[n].field = field THEN Append(values[n - 1], h[n].v)
                  ELSE values[n - 1]]
  BY Zenon, <1>2 DEF ValuesRun, ValuesStep
<1>. HIDE DEF values
<1>4. ValuesRun(values, h, field, Len(h))
  BY Zenon, <1>3 DEF ValuesRun, ValuesStep
<1>. QED BY Zenon, <1>1, <1>4

LEMMA TotalIsRun ==
  ASSUME NEW s, IsSeq(s)
  PROVE  \E g : TotalRun(g, s, Len(s)) /\ Total(s) = g[Len(s)]
<1>. DEFINE total[n \in 0 .. Len(s)] == IF n = 0 THEN 0 ELSE total[n - 1] + s[n]
<1>1. Total(s) = total[Len(s)]
  BY Zenon DEF Total
<1>2. \E g : TotalRun(g, s, Len(s))
  BY Zenon, TotalExist DEF IsSeq
<1>3. total = [n \in 0 .. Len(s) |-> IF n = 0 THEN 0 ELSE total[n - 1] + s[n]]
  BY Zenon, <1>2 DEF TotalRun
<1>. HIDE DEF total
<1>4. TotalRun(total, s, Len(s))
  BY Zenon, <1>3 DEF TotalRun
<1>. QED BY Zenon, <1>1, <1>4

\* What the turns have in common does not depend on what comes later.
LEMMA ValuesPrefix ==
  ASSUME NEW h, NEW h2, NEW field, NEW k \in Nat, NEW k2 \in Nat, k <= k2,
         \A n \in 1 .. k : h2[n] = h[n],
         NEW g, ValuesRun(g, h, field, k), NEW g2, ValuesRun(g2, h2, field, k2)
  PROVE  \A n \in 0 .. k : g2[n] = g[n] /\ IsSeq(g[n])
<1>. DEFINE T == {n \in Nat : n <= k => g2[n] = g[n] /\ IsSeq(g[n])}
<1>1. \A n \in 0 .. k : g[n] = IF n = 0 THEN <<>> ELSE ValuesStep(g[n - 1], h, field, n)
  BY Zenon DEF ValuesRun
<1>2. \A n \in 0 .. k2 : g2[n] = IF n = 0 THEN <<>> ELSE ValuesStep(g2[n - 1], h2, field, n)
  BY Zenon DEF ValuesRun
<1>3. 0 \in T
  <2>1. 0 \in 0 .. k /\ 0 \in 0 .. k2
    OBVIOUS
  <2>2. g[0] = <<>> /\ g2[0] = <<>>
    BY Zenon, <1>1, <1>2, <2>1
  <2>. QED BY Zenon, <2>2, EmptyIs
<1>4. ASSUME NEW n \in Nat, n \in T
      PROVE  n + 1 \in T
  <2>1. SUFFICES ASSUME n + 1 <= k PROVE g2[n + 1] = g[n + 1] /\ IsSeq(g[n + 1])
    OBVIOUS
  <2>2. n + 1 \in 0 .. k /\ n + 1 \in 0 .. k2 /\ n + 1 \in 1 .. k /\ n + 1 # 0 /\ (n + 1) - 1 = n
    BY <2>1
  <2>3. g2[n] = g[n] /\ IsSeq(g[n])
    BY <1>4, <2>1
  <2>4. g[n + 1] = ValuesStep(g[n], h, field, n + 1)
    BY Zenon, <1>1, <2>2
  <2>5. g2[n + 1] = ValuesStep(g2[n], h2, field, n + 1)
    BY Zenon, <1>2, <2>2
  <2>6. g2[n + 1] = g[n + 1]
    BY Zenon, <2>2, <2>3, <2>4, <2>5 DEF ValuesStep
  <2>7. IsSeq(g[n + 1])
    <3>1. IsSeq(Append(g[n], h[n + 1].v))
      BY Zenon, <2>3, AppendIs
    <3>. QED BY Zenon, <2>3, <2>4, <3>1 DEF ValuesStep
  <2>. QED BY Zenon, <2>6, <2>7
<1>. HIDE DEF T
<1>5. \A n \in 0 .. k : n \in T
  BY <1>3, <1>4, SetInduction
<1>. QED BY <1>5 DEF T

LEMMA TotalPrefix ==
  ASSUME NEW s, NEW s2, NEW k \in Nat, NEW k2 \in Nat, k <= k2,
         \A n \in 1 .. k : s2[n] = s[n] /\ s[n] \in Nat,
         NEW g, TotalRun(g, s, k), NEW g2, TotalRun(g2, s2, k2)
  PROVE  \A n \in 0 .. k : g2[n] = g[n] /\ g[n] \in Nat
<1>. DEFINE T == {n \in Nat : n <= k => g2[n] = g[n] /\ g[n] \in Nat}
<1>1. \A n \in 0 .. k : g[n] = IF n = 0 THEN 0 ELSE g[n - 1] + s[n]
  BY Zenon DEF TotalRun
<1>2. \A n \in 0 .. k2 : g2[n] = IF n = 0 THEN 0 ELSE g2[n - 1] + s2[n]
  BY Zenon DEF TotalRun
<1>3. 0 \in T
  <2>1. 0 \in 0 .. k /\ 0 \in 0 .. k2
    OBVIOUS
  <2>2. g[0] = 0 /\ g2[0] = 0
    BY Zenon, <1>1, <1>2, <2>1
  <2>. QED BY <2>2
<1>4. ASSUME NEW n \in Nat, n \in T
      PROVE  n + 1 \in T
  <2>1. SUFFICES ASSUME n + 1 <= k PROVE g2[n + 1] = g[n + 1] /\ g[n + 1] \in Nat
    OBVIOUS
  <2>2. n + 1 \in 0 .. k /\ n + 1 \in 0 .. k2 /\ n + 1 \in 1 .. k /\ n + 1 # 0 /\ (n + 1) - 1 = n
    BY <2>1
  <2>3. g2[n] = g[n] /\ g[n] \in Nat
    BY <1>4, <2>1
  <2>4. g[n + 1] = g[n] + s[n + 1]
    BY Zenon, <1>1, <2>2
  <2>5. g2[n + 1] = g2[n] + s2[n + 1]
    BY Zenon, <1>2, <2>2
  <2>. QED BY <2>2, <2>3, <2>4, <2>5
<1>. HIDE DEF T
<1>5. \A n \in 0 .. k : n \in T
  BY <1>3, <1>4, SetInduction
<1>. QED BY <1>5 DEF T

\* Hashing one more unit adds its value to those of its field, and to no other.
LEMMA ValuesAppend ==
  ASSUME NEW h, IsSeq(h), NEW field, NEW u
  PROVE  /\ IsSeq(Values(h, field))
         /\ Values(Append(h, u), field) =
              IF u.field = field THEN Append(Values(h, field), u.v) ELSE Values(h, field)
<1>. DEFINE k == Len(h)
            h2 == Append(h, u)
<1>1. /\ k \in Nat /\ IsSeq(h2) /\ Len(h2) = k + 1 /\ h2[k + 1] = u
      /\ \A n \in 1 .. k : h2[n] = h[n]
  BY AppendIs DEF IsSeq
<1>. HIDE DEF h2
<1>2. PICK g : ValuesRun(g, h, field, k) /\ Values(h, field) = g[k]
  BY Zenon, ValuesIsRun
<1>3. PICK g2 : ValuesRun(g2, h2, field, k + 1) /\ Values(h2, field) = g2[k + 1]
  BY Zenon, <1>1, ValuesIsRun
<1>. HIDE DEF k
<1>4. k + 1 \in Nat /\ k <= k + 1 /\ k \in 0 .. k /\ k + 1 \in 0 .. k + 1 /\ k + 1 # 0 /\ (k + 1) - 1 = k
  BY <1>1
<1>5. g2[k] = g[k] /\ IsSeq(g[k])
  BY Zenon, <1>1, <1>2, <1>3, <1>4, ValuesPrefix
<1>6. g2[k + 1] = ValuesStep(g2[k], h2, field, k + 1)
  BY Zenon, <1>3, <1>4 DEF ValuesRun
<1>7. g2[k + 1] = IF u.field = field THEN Append(g[k], u.v) ELSE g[k]
  BY Zenon, <1>1, <1>5, <1>6 DEF ValuesStep
<1>. QED BY Zenon, <1>2, <1>3, <1>5, <1>7 DEF h2

LEMMA ValuesEmpty ==
  ASSUME NEW field
  PROVE  Values(<<>>, field) = <<>>
<1>1. PICK g : ValuesRun(g, <<>>, field, 0) /\ Values(<<>>, field) = g[0]
  BY Zenon, ValuesIsRun, EmptyIs
<1>2. 0 \in 0 .. 0
  OBVIOUS
<1>. QED BY Zenon, <1>1, <1>2 DEF ValuesRun

\* The sum of amounts with one more.
LEMMA TotalAppend ==
  ASSUME NEW s, IsSeq(s), \A n \in 1 .. Len(s) : s[n] \in Nat, NEW x \in Nat
  PROVE  Total(s) \in Nat /\ Total(Append(s, x)) = Total(s) + x
<1>. DEFINE k == Len(s)
            s2 == Append(s, x)
<1>1. /\ k \in Nat /\ IsSeq(s2) /\ Len(s2) = k + 1 /\ s2[k + 1] = x
      /\ \A n \in 1 .. k : s2[n] = s[n]
  BY AppendIs DEF IsSeq
<1>. HIDE DEF s2
<1>2. PICK g : TotalRun(g, s, k) /\ Total(s) = g[k]
  BY Zenon, TotalIsRun
<1>3. PICK g2 : TotalRun(g2, s2, k + 1) /\ Total(s2) = g2[k + 1]
  BY Zenon, <1>1, TotalIsRun
<1>4. \A n \in 1 .. k : s2[n] = s[n] /\ s[n] \in Nat
  BY Zenon, <1>1
<1>. HIDE DEF k
<1>5. k + 1 \in Nat /\ k <= k + 1 /\ k \in 0 .. k /\ k + 1 \in 0 .. k + 1 /\ k + 1 # 0 /\ (k + 1) - 1 = k
  BY <1>1
<1>6. g2[k] = g[k] /\ g[k] \in Nat
  BY Zenon, <1>1, <1>2, <1>3, <1>4, <1>5, TotalPrefix
<1>7. g2[k + 1] = g2[k] + s2[k + 1]
  BY Zenon, <1>3, <1>5 DEF TotalRun
<1>8. g2[k + 1] = g[k] + x
  BY Zenon, <1>1, <1>6, <1>7
<1>. QED BY Zenon, <1>2, <1>3, <1>6, <1>8 DEF s2

LEMMA TotalEmpty == Total(<<>>) = 0
<1>1. PICK g : TotalRun(g, <<>>, 0) /\ Total(<<>>) = g[0]
  BY Zenon, TotalIsRun, EmptyIs
<1>2. 0 \in 0 .. 0
  OBVIOUS
<1>. QED BY Zenon, <1>1, <1>2 DEF TotalRun

-----------------------------------------------------------------------------
(* References. *)

\* What a list of references holds stays, when more follows it.
LEMMA WorthKept ==
  ASSUME NEW c, NEW d, NEW m \in Nat, \A n \in 1 .. 2 * m : d[n] = c[n],
         NEW txs, NEW more, txs \subseteq more, Refs(c, m, txs)
  PROVE  Refs(d, m, more) /\ Worth(d, m) = Worth(c, m)
<1>1. ASSUME NEW k \in 1 .. m
      PROVE  d[2 * k] = c[2 * k] /\ d[2 * k - 1] = c[2 * k - 1]
  <2>1. 2 * k \in 1 .. 2 * m /\ 2 * k - 1 \in 1 .. 2 * m
    OBVIOUS
  <2>. QED BY Zenon, <2>1
<1>2. Refs(d, m, more)
  BY Zenon, <1>1 DEF Refs
<1>3. Worth(d, m) = Worth(c, m)
  BY Zenon, <1>1 DEF Worth
<1>. QED BY Zenon, <1>2, <1>3

LEMMA AmountsTyped ==
  ASSUME NEW h, IsSeq(h)
  PROVE  IsSeq(Amounts(h)) /\ Len(Amounts(h)) \in Nat
<1>1. IsSeq(Amounts(h))
  BY Zenon, ValuesAppend DEF Amounts
<1>. QED BY Zenon, <1>1 DEF IsSeq

\* The references are to amounts.
LEMMA WorthTyped ==
  ASSUME NEW c, NEW m \in Nat, NEW txs, Genuine(txs), Refs(c, m, txs)
  PROVE  /\ IsSeq(Worth(c, m)) /\ Len(Worth(c, m)) = m
         /\ \A k \in 1 .. m : Worth(c, m)[k] \in Nat
<1>1. IsSeq(Worth(c, m)) /\ Len(Worth(c, m)) = m
  BY DEF IsSeq, Worth
<1>2. ASSUME NEW k \in 1 .. m
      PROVE  Worth(c, m)[k] \in Nat
  <2>1. PICK h, n : h = c[2 * k] /\ n = c[2 * k - 1]
    BY Zenon
  <2>2. h \in txs /\ n \in Nat /\ n < Len(Amounts(h))
    BY Zenon, <2>1 DEF Refs
  <2>3. Len(Amounts(h)) \in Nat /\ \A l \in 1 .. Len(Amounts(h)) : Amounts(h)[l] \in Nat
    BY Zenon, <2>2, AmountsTyped DEF Genuine
  <2>4. Worth(c, m)[k] = Amounts(h)[n + 1]
    BY Zenon, <2>1 DEF Worth
  <2>5. n + 1 \in 1 .. Len(Amounts(h))
    BY ONLY <2>2, <2>3
  <2>. QED BY Zenon, <2>3, <2>4, <2>5
<1>. QED BY Zenon, <1>1, <1>2

\* The amounts of all references add up to a number.
LEMMA WorthTotal ==
  ASSUME NEW c, NEW m \in Nat, NEW txs, Genuine(txs), Refs(c, m, txs)
  PROVE  Total(Worth(c, m)) \in Nat
<1>1. /\ IsSeq(Worth(c, m))
      /\ \A k \in 1 .. Len(Worth(c, m)) : Worth(c, m)[k] \in Nat
  BY Zenon, WorthTyped
<1>. QED BY Zenon, <1>1, TotalAppend

LEMMA NoWorth == ASSUME NEW c, NEW txs PROVE Refs(c, 0, txs) /\ Total(Worth(c, 0)) = 0
<1>1. \A k \in 1 .. 0 : FALSE
  OBVIOUS
<1>2. Worth(c, 0) = <<>>
  BY <1>1 DEF Worth
<1>3. Refs(c, 0, txs)
  BY Zenon, <1>1 DEF Refs
<1>. QED BY Zenon, <1>2, <1>3, TotalEmpty

\* The references c end in a number n, and h is of a transaction with that output.
NextRef(c, m, txs, h, n) ==
  /\ IsSeq(c) /\ m \in Nat /\ Len(c) = 2 * m + 1 /\ Refs(c, m, txs)
  /\ n \in Nat /\ c[2 * m + 1] = n
  /\ Genuine(txs \cup {h}) /\ n < Len(Amounts(h))

\* With that hash at their end they are one reference more, worth that output's amount.
AddsRef(c, m, txs, h, n) ==
  /\ Refs(Append(c, h), m + 1, txs \cup {h})
  /\ Total(Worth(Append(c, h), m + 1)) = Total(Worth(c, m)) + Amounts(h)[n + 1]

\* The hash of a transaction that has the output completes the reference to it.
LEMMA WorthAppend ==
  ASSUME NEW c, NEW m, NEW txs, NEW h, NEW n, NextRef(c, m, txs, h, n)
  PROVE  AddsRef(c, m, txs, h, n)
<1>. /\ IsSeq(c) /\ m \in Nat /\ Len(c) = 2 * m + 1 /\ Refs(c, m, txs)
     /\ n \in Nat /\ c[2 * m + 1] = n
     /\ Genuine(txs \cup {h}) /\ n < Len(Amounts(h))
  BY Zenon DEF NextRef
<1>. DEFINE d == Append(c, h)
            all == txs \cup {h}
            w == Worth(c, m)
<1>1. /\ \A j \in 1 .. Len(c) : d[j] = c[j]
      /\ d[Len(c) + 1] = h
  BY ZenonT(30), AppendIs
<1>2. /\ \A j \in 1 .. 2 * m : d[j] = c[j]
      /\ d[2 * (m + 1)] = h
      /\ d[2 * (m + 1) - 1] = n
  <2>1. 2 * m + 1 \in 1 .. Len(c) /\ Len(c) + 1 = 2 * (m + 1) /\ 2 * (m + 1) - 1 = 2 * m + 1
    OBVIOUS
  <2>2. \A j \in 1 .. 2 * m : j \in 1 .. Len(c)
    OBVIOUS
  <2>. QED BY Zenon, <1>1, <2>1, <2>2
<1>. HIDE DEF d
<1>3. Refs(d, m, all) /\ Worth(d, m) = w
  BY Zenon, <1>2, WorthKept
<1>4. Refs(d, m + 1, all)
  <2>1. ASSUME NEW k \in 1 .. m + 1
        PROVE  d[2 * k] \in all /\ d[2 * k - 1] \in Nat /\ d[2 * k - 1] < Len(Amounts(d[2 * k]))
    <3>1. CASE k \in 1 .. m
      BY Zenon, <1>3, <3>1 DEF Refs
    <3>2. CASE k = m + 1
      BY Zenon, <1>2, <3>2
    <3>. QED BY <3>1, <3>2
  <2>. QED BY Zenon, <2>1 DEF Refs
<1>5. IsSeq(w) /\ Len(w) = m /\ \A k \in 1 .. m : w[k] \in Nat
  <2>1. Genuine(txs)
    BY Zenon DEF Genuine
  <2>. QED BY Zenon, <2>1, WorthTyped
<1>6. Amounts(h)[n + 1] \in Nat
  <2>1. Len(Amounts(h)) \in Nat /\ \A j \in 1 .. Len(Amounts(h)) : Amounts(h)[j] \in Nat
    BY Zenon, AmountsTyped DEF Genuine
  <2>2. n + 1 \in 1 .. Len(Amounts(h))
    BY <2>1
  <2>. QED BY Zenon, <2>1, <2>2
<1>7. Worth(d, m + 1) = Append(w, Amounts(h)[n + 1])
  <2>. DEFINE x == Amounts(h)[n + 1]
              e == Append(w, x)
              v == Worth(d, m + 1)
  <2>1. IsSeq(e) /\ Len(e) = m + 1 /\ (\A k \in 1 .. m : e[k] = w[k]) /\ e[m + 1] = x
    <3>1. /\ IsSeq(e) /\ Len(e) = Len(w) + 1
          /\ \A k \in 1 .. Len(w) : e[k] = w[k]
          /\ e[Len(w) + 1] = x
      BY ZenonT(30), <1>5, AppendIs
    <3>. HIDE DEF e, w, x
    <3>. QED BY Zenon, <1>5, <3>1
  <2>2. ASSUME NEW k \in 1 .. m + 1
        PROVE  v[k] = e[k]
    <3>. HIDE DEF e, w, x
    <3>1. v[k] = Amounts(d[2 * k])[d[2 * k - 1] + 1]
      BY Zenon DEF Worth
    <3>2. CASE k \in 1 .. m
      <4>1. Worth(d, m)[k] = Amounts(d[2 * k])[d[2 * k - 1] + 1]
        BY Zenon, <3>2 DEF Worth
      <4>. QED BY Zenon, <1>3, <2>1, <3>1, <3>2, <4>1
    <3>3. CASE k = m + 1
      BY Zenon, <1>2, <2>1, <3>1, <3>3 DEF x
    <3>. HIDE DEF v
    <3>. QED BY <3>2, <3>3
  <2>3. v = [k \in 1 .. m + 1 |-> v[k]]
    BY Zenon DEF Worth
  <2>4. e = [k \in 1 .. m + 1 |-> e[k]]
    BY Zenon, <2>1 DEF IsSeq
  <2>. HIDE DEF v, e
  <2>5. v = e
    BY Zenon, <2>2, <2>3, <2>4
  <2>. QED BY Zenon, <2>5 DEF v, e
<1>8. Total(Append(w, Amounts(h)[n + 1])) = Total(w) + Amounts(h)[n + 1]
  BY Zenon, <1>5, <1>6, TotalAppend
<1>. QED BY Zenon, <1>4, <1>7, <1>8 DEF d, AddsRef

-----------------------------------------------------------------------------
(* Steps. *)

LEMMA ModSmall ==
  ASSUME NEW a \in Nat, NEW b \in Nat \ {0}, a < b
  PROVE  a % b = a /\ (a + b) % b = a
OBVIOUS

LEMMA ModTyped ==
  ASSUME NEW a \in Int, NEW b \in Nat \ {0}
  PROVE  a % b \in 0 .. b - 1
OBVIOUS

\* What getTransactionBytes() does to the two hashes.
LEMMA TakeValues ==
  ASSUME Typed, NEW field, NEW v, Take(field, v), field \notin Unhashed
  PROVE  /\ IsSeq(sig_hash') /\ IsSeq(transaction_hash')
         /\ Len(sig_hash') = Len(sig_hash) + 1 /\ sig_hash'[Len(sig_hash) + 1].v = v
         /\ \A f : Values(sig_hash', f) =
                     IF f = field THEN Append(Values(sig_hash, f), v) ELSE Values(sig_hash, f)
         /\ \A f : Values(transaction_hash', f) =
                     IF f = field /\ f \notin Suppressed
                     THEN Append(Values(transaction_hash, f), v) ELSE Values(transaction_hash, f)
         /\ \A f : IsSeq(Values(sig_hash, f))
<1>1. IsSeq(sig_hash) /\ IsSeq(transaction_hash)
  BY Zenon DEF Typed
<1>0. PICK s \in Sizes[field] :
        /\ sig_hash' = Hashed(sig_hash, field, v, s)
        /\ transaction_hash' = IF field \in Suppressed THEN transaction_hash
                               ELSE Hashed(transaction_hash, field, v, s)
  BY Zenon DEF Take
<1>. DEFINE u == [field |-> field, v |-> v, size |-> s]
<1>2. u.field = field /\ u.v = v
  BY Zenon
<1>3. sig_hash' = Append(sig_hash, u)
  BY Zenon, <1>0 DEF Hashed
<1>4. transaction_hash' = IF field \in Suppressed THEN transaction_hash ELSE Append(transaction_hash, u)
  BY Zenon, <1>0 DEF Hashed
<1>. HIDE DEF u
<1>5. IsSeq(sig_hash') /\ Len(sig_hash') = Len(sig_hash) + 1 /\ sig_hash'[Len(sig_hash) + 1].v = v
  <2>1. IsSeq(sig_hash') /\ Len(sig_hash') = Len(sig_hash) + 1 /\ sig_hash'[Len(sig_hash) + 1] = u
    BY Zenon, <1>1, <1>3, AppendIs
  <2>. QED BY Zenon, <1>2, <2>1
<1>6. IsSeq(transaction_hash')
  <2>1. IsSeq(Append(transaction_hash, u))
    BY Zenon, <1>1, AppendIs
  <2>. QED BY Zenon, <1>1, <1>4, <2>1
<1>7. ASSUME NEW f
      PROVE  /\ IsSeq(Values(sig_hash, f))
             /\ Values(sig_hash', f) =
                  IF f = field THEN Append(Values(sig_hash, f), v) ELSE Values(sig_hash, f)
  <2>1. /\ IsSeq(Values(sig_hash, f))
        /\ Values(Append(sig_hash, u), f) =
             IF u.field = f THEN Append(Values(sig_hash, f), u.v) ELSE Values(sig_hash, f)
    BY Zenon, <1>1, ValuesAppend
  <2>. QED BY Zenon, <1>2, <1>3, <2>1
<1>8. ASSUME NEW f
      PROVE  Values(transaction_hash', f) =
                  IF f = field /\ f \notin Suppressed
                  THEN Append(Values(transaction_hash, f), v) ELSE Values(transaction_hash, f)
  <2>1. Values(Append(transaction_hash, u), f) =
          IF u.field = f THEN Append(Values(transaction_hash, f), u.v) ELSE Values(transaction_hash, f)
    BY Zenon, <1>1, ValuesAppend
  <2>. QED BY Zenon, <1>2, <1>4, <2>1
<1>. QED BY Zenon, <1>5, <1>6, <1>7, <1>8

LEMMA TakeTyped ==
  ASSUME Typed, NEW field \in Fields, NEW v, Take(field, v)
  PROVE  /\ pc = field
         /\ transaction_length' \in Lengths \cup {0} /\ transaction_length' = transaction_length
         /\ transaction_data_index' \in 0 .. transaction_length'
         /\ IsSeq(sig_hash') /\ IsSeq(transaction_hash')
<1>1. transaction_length \in Nat
  BY SizesAssumption DEF Typed, TypeOK
<1>2. transaction_data_index' \in 0 .. transaction_length'
  <2>1. PICK n \in Sizes[field] : Fits(n) /\ transaction_data_index' = transaction_data_index + n
    BY Zenon DEF Take
  <2>2. n \in Nat /\ transaction_data_index \in Nat /\ transaction_length' = transaction_length
    BY FieldsAssumption DEF Typed, TypeOK, Take
  <2>. QED BY <1>1, <2>1, <2>2 DEF Fits
<1>3. IsSeq(sig_hash') /\ IsSeq(transaction_hash')
  <2>1. CASE field \in Unhashed
    BY Zenon, <2>1 DEF Typed, Take
  <2>2. CASE field \notin Unhashed
    BY Zenon, <2>2, TakeValues
  <2>. QED BY Zenon, <2>1, <2>2
<1>. QED BY Zenon, <1>2, <1>3 DEF Typed, TypeOK, Take

\* The number of a reference goes before the hash that was read already.
LEMMA SwapLast ==
  ASSUME NEW s, IsSeq(s), NEW m \in Nat, Len(s) = m + 1, NEW v, NEW d,
         d = SubSeq(s, 1, Len(s) - 1) \o <<v, s[Len(s)]>>
  PROVE  /\ IsSeq(d) /\ Len(d) = m + 2
         /\ \A n \in 1 .. m : d[n] = s[n]
         /\ d[m + 1] = v /\ d[m + 2] = s[m + 1]
<1>. DEFINE T == {s[n] : n \in 1 .. Len(s)} \cup {v, s[Len(s)]}
            t == <<v, s[Len(s)]>>
<1>1. s \in Seq({s[n] : n \in 1 .. Len(s)})
  BY Zenon, IsSeqOf
<1>2. s \in Seq(T) /\ t \in Seq(T) /\ Len(t) = 2 /\ t[1] = v /\ t[2] = s[Len(s)]
  BY <1>1
<1>. HIDE DEF T, t
<1>3. s[Len(s)] = s[m + 1]
  BY Zenon
<1>4. PICK f : f = SubSeq(s, 1, Len(s) - 1)
  BY Zenon
<1>5. f \in Seq(T) /\ Len(f) = m /\ \A n \in 1 .. m : f[n] = s[n]
  <2>1. f = SubSeq(s, 1, m)
    BY <1>4
  <2>2. 1 \in Int /\ m \in Int /\ \A j \in 1 .. m : s[j] \in T
    BY <1>2
  <2>3. /\ f \in Seq(T) /\ Len(f) = IF 1 <= m THEN m - 1 + 1 ELSE 0
        /\ \A n \in 1 .. m - 1 + 1 : f[n] = s[1 + n - 1]
    BY ONLY <2>1, <2>2, SubSeqProperties
  <2>4. \A n \in 1 .. m : 1 + n - 1 = n
    OBVIOUS
  <2>5. m - 1 + 1 = m /\ (1 <= m \/ m = 0)
    OBVIOUS
  <2>. QED BY ONLY Zenon, <2>3, <2>4, <2>5
<1>6. d = f \o t
  BY Zenon, <1>4 DEF t
<1>7. /\ d \in Seq(T) /\ Len(d) = Len(f) + Len(t)
      /\ \A n \in 1 .. Len(f) + Len(t) : d[n] = IF n <= Len(f) THEN f[n] ELSE t[n - Len(f)]
  <2>1. t \in Seq(T) /\ f \in Seq(T)
    BY Zenon, <1>2, <1>5
  <2>2. /\ f \o t \in Seq(T) /\ Len(f \o t) = Len(f) + Len(t)
        /\ \A n \in 1 .. Len(f) + Len(t) : (f \o t)[n] = IF n <= Len(f) THEN f[n] ELSE t[n - Len(f)]
    BY Zenon, <2>1, ConcatProperties
  <2>. QED BY Zenon, <1>6, <2>2
<1>8. /\ Len(d) = m + 2
      /\ \A n \in 1 .. m : d[n] = f[n]
      /\ d[m + 1] = t[1] /\ d[m + 2] = t[2]
  <2>1. \A n \in 1 .. m + 2 : d[n] = IF n <= m THEN f[n] ELSE t[n - m]
    BY Zenon, <1>2, <1>5, <1>7
  <2>2. (m + 1) - m = 1 /\ (m + 2) - m = 2 /\ m + 1 \in 1 .. m + 2 /\ m + 2 \in 1 .. m + 2
        /\ ~(m + 1 <= m) /\ ~(m + 2 <= m)
    OBVIOUS
  <2>3. d[m + 1] = t[1] /\ d[m + 2] = t[2]
    BY Zenon, <2>1, <2>2
  <2>4. ASSUME NEW n \in 1 .. m PROVE n \in 1 .. m + 2 /\ n <= m
    OBVIOUS
  <2>5. \A n \in 1 .. m : d[n] = f[n]
    BY Zenon, <2>1, <2>4
  <2>. QED BY Zenon, <1>2, <1>5, <1>7, <2>3, <2>5
<1>9. IsSeq(d)
  BY Zenon, <1>7, SeqIs
<1>. QED BY Zenon, <1>2, <1>3, <1>5, <1>7, <1>8, <1>9

\* The values that the parser and the user interface hold are well-typed.
LEMMA TypedNext ==
  ASSUME IInv, Next
  PROVE  Typed'
<1>. USE SizesAssumption DEF Running, Body, InputFields, OutputFields, Fields
<1>. Typed /\ FieldsInv
  BY Zenon DEF IInv
<1>0. CASE parseTransaction
  <2>1. Genuine({})
    BY Zenon DEF Genuine
  <2>2. 0 \in 0 .. AmountLimit - 1 /\ 0 \in 0 .. transaction_length' /\ 0 <= LIST_SIZE
    BY <1>0 DEF parseTransaction
  <2>. QED BY Zenon, <1>0, <2>1, <2>2, EmptyIs DEF parseTransaction, clearOutputsSeen, Typed, TypeOK
<1>1. CASE BeginTransaction
  BY Zenon, <1>1, EmptyIs DEF BeginTransaction, Fail, Goto, counters, references, ui, Typed, TypeOK
<1>2. ASSUME NEW v \in BOOLEAN, ReadIsRef(v)
      PROVE  Typed'
  <2>2. Take("is_ref", v)
    BY Zenon, <1>2 DEF ReadIsRef
  <2>. QED BY Zenon, <1>2, <2>2, TakeTyped, EmptyIs DEF ReadIsRef, Goto, counters, references, ui, Typed, TypeOK
<1>3. ASSUME NEW v \in OutputNumbers, ReadOutputNum(v)
      PROVE  Typed'
  <2>2. IsSeq(ref_compare')
    BY Zenon, <1>3, AppendIs DEF ReadOutputNum, Typed
  <2>. QED BY Zenon, <1>3, <2>2, TakeTyped DEF ReadOutputNum, Goto, counters, ui, Typed, TypeOK
<1>4. ASSUME NEW v \in Markers, ReadVersion(v)
      PROVE  Typed'
  <2>. QED BY Zenon, <1>4, TakeTyped DEF ReadMarker, ReadVersion, Fail, Goto, counters, references, ui, Typed, TypeOK
<1>5. ASSUME NEW v \in Counts(MAX_INPUTS), ReadNumInputs(v)
      PROVE  Typed'
  <2>. QED BY SMTT(30), <1>5, TakeTyped
       DEF ReadNumInputs, Counts, TooLarge, BadCount, Fail, Goto, counters, references, ui, Typed, TypeOK
<1>6. ASSUME NEW v \in RefHashes, ReadRefHash(v)
      PROVE  Typed'
  <2>2. IsSeq(ref_compare')
    <3>1. IsSeq(Append(ref_compare, v))
      BY Zenon, AppendIs DEF Typed
    <3>. QED BY Zenon, <1>6, <3>1 DEF ReadRefHash, Typed
  <2>. QED BY Zenon, <1>6, <2>2, TakeTyped DEF ReadRefHash, Goto, counters, ui, Typed, TypeOK
<1>7. ASSUME NEW v \in RefNums, ReadRefNum(v)
      PROVE  Typed'
  <2>2. IsSeq(ref_compare')
    <3>1. CASE is_ref
      BY Zenon, <1>7, <3>1 DEF ReadRefNum, Typed
    <3>2. CASE ~is_ref
      <4>1. pc = "ref_num"
        BY Zenon, <1>7, TakeTyped DEF ReadRefNum
      <4>2. Len(ref_compare) = 2 * Len(NumsRead) + 1
        BY Zenon, <3>2, <4>1 DEF IInv, Phases, SpendInv
      <4>3. IsSeq(NumsRead) /\ IsSeq(ref_compare)
        BY Zenon, ValuesAppend DEF Typed, NumsRead
      <4>4. 2 * Len(NumsRead) \in Nat
        BY <4>3 DEF IsSeq
      <4>. QED BY Zenon, <1>7, <3>2, <4>2, <4>3, <4>4, SwapLast DEF ReadRefNum
    <3>. QED BY Zenon, <3>1, <3>2
  <2>. QED BY Zenon, <1>7, <2>2, TakeTyped DEF ReadRefNum, Goto, counters, ui, Typed, TypeOK
<1>8. ASSUME NEW v \in Scripts \cup {TooLong}, ReadInputScript(v)
      PROVE  Typed'
  <2>. QED BY Zenon, <1>8, TakeTyped DEF ReadInputScript, Fail, Goto, counters, references, ui, Typed, TypeOK
<1>9. ASSUME NEW v \in {"final", Nonstandard}, ReadSequence(v)
      PROVE  Typed'
  <2>. QED BY <1>9, TakeTyped DEF ReadSequence, Fail, Goto, counters, references, ui, Typed, TypeOK
<1>10. ASSUME NEW v \in Counts(MAX_OUTPUTS), ReadNumOutputs(v)
       PROVE  Typed'
  <2>. QED BY <1>10, TakeTyped
       DEF ReadNumOutputs, Counts, TooLarge, BadCount, Fail, Goto, counters, references, ui, Typed, TypeOK
<1>11. ASSUME NEW v \in 0 .. max_money + 1, ReadAmount(v)
       PROVE  Typed'
  <2>2. transaction_fee_amount \in Nat /\ v \in Nat /\ AmountLimit \in Nat \ {0}
    BY DEF Typed, TypeOK
  <2>3. transaction_fee_amount' \in 0 .. AmountLimit - 1
    <3>1. (transaction_fee_amount + v) % AmountLimit \in 0 .. AmountLimit - 1
      BY <2>2, ModTyped
    <3>2. ASSUME v <= max_money, ~is_ref
          PROVE  (transaction_fee_amount + AmountLimit - v) % AmountLimit \in 0 .. AmountLimit - 1
      BY <2>2, ModTyped
    <3>. QED BY Zenon, <1>11, <3>1, <3>2 DEF ReadAmount, Typed, TypeOK
  <2>. QED BY Zenon, <1>11, <2>3, TakeTyped DEF ReadAmount, Fail, Goto, counters, references, ui, Typed, TypeOK
<1>12. ASSUME NEW v \in OutputScripts, ReadOutputScript(v)
       PROVE  Typed'
  <2>2. IsSeq(list') /\ Len(list') <= LIST_SIZE
    <3>1. CASE UNCHANGED list
      BY Zenon, <3>1 DEF Typed, TypeOK
    <3>2. CASE ~ListFull /\ newOutputSeen(v)
      <4>1. IsSeq(list') /\ Len(list') = Len(list) + 1 /\ Len(list) \in Nat
        <5>1. IsSeq(list) /\ Len(list) \in Nat
          BY Zenon DEF Typed, IsSeq
        <5>. QED BY Zenon, <3>2, <5>1, AppendIs DEF newOutputSeen
      <4>. QED BY <3>2, <4>1 DEF ListFull
    <3>. QED BY Zenon, <1>12, <3>1, <3>2 DEF ReadOutputScript
  <2>. QED BY SMTT(30), <1>12, <2>2, TakeTyped DEF ReadOutputScript, Fail, Goto, counters, references, ui, Typed, TypeOK
<1>13. ASSUME NEW v \in Markers, ReadLocktime(v)
       PROVE  Typed'
  <2>2. UNCHANGED <<is_ref, output_num_select, counters, transaction_fee_amount, ui>>
    BY Zenon, <1>13 DEF ReadLocktime
  <2>3. IsSeq(ref_compare') /\ IsSeq(ref_compare_hash') /\ Genuine(known')
    <3>1. CASE pc' # "begin"
      BY Zenon, <1>13, <3>1 DEF ReadLocktime, references, Typed
    <3>2. CASE pc' = "begin"
      <4>1. /\ ref_compare' = Append(ref_compare, sig_hash')
            /\ known' = known \cup {sig_hash'}
            /\ UNCHANGED ref_compare_hash
        BY Zenon, <1>13, <3>2 DEF ReadLocktime
      <4>2. IsSeq(sig_hash') /\ Amounts(sig_hash') = AmountsRead
        <5>1. "locktime" \notin Unhashed
          BY Zenon DEF Unhashed
        <5>. QED BY Zenon, <1>13, <5>1, TakeValues DEF ReadLocktime, ReadMarker, Amounts, AmountsRead
      <4>3. Genuine(known')
        BY Zenon, <4>1, <4>2 DEF Genuine, Typed, FieldsInv
      <4>. QED BY Zenon, <4>1, <4>3, AppendIs DEF Typed
    <3>. QED BY Zenon, <3>1, <3>2
  <2>. QED BY Zenon, <1>13, <2>2, <2>3, TakeTyped DEF ReadLocktime, ReadMarker, Fail, Goto, counters, ui, Typed, TypeOK
<1>14. ASSUME NEW v \in Markers, ReadHashtype(v)
       PROVE  Typed'
  <2>. QED BY Zenon, <1>14, TakeTyped DEF ReadHashtype, Fail, Goto, counters, references, Typed, TypeOK
<1>15. CASE Truncated
  <2>1. /\ pc' = "rest" /\ result' = "INVALID_FORMAT"
        /\ UNCHANGED <<transaction_length, is_ref, output_num_select, num_inputs, num_outputs, i,
                       sig_hash, transaction_hash, ref_compare, ref_compare_hash, known,
                       transaction_fee_amount, list, transaction_fee>>
    BY Zenon, <1>15 DEF Truncated, Fail, counters, hashes, references, ui
  <2>2. transaction_data_index' \in 0 .. transaction_length'
    <3>1. transaction_data_index \in 0 .. transaction_length /\ transaction_length \in Nat
      BY SizesAssumption DEF Typed, TypeOK
    <3>2. PICK n \in 0 .. transaction_length - transaction_data_index :
            transaction_data_index' = transaction_data_index + n
      BY Zenon, <1>15 DEF Truncated
    <3>. QED BY <2>1, <3>1, <3>2
  <2>3. pc' \notin Running \cup {"amount", "output_script", "ref_hash", "ref_num", "input_script", "sequence", "done"}
    BY <2>1 DEF Running, Body, InputFields
  <2>. QED BY Zenon, <2>1, <2>2, <2>3 DEF Typed, TypeOK
<1>16. CASE ConsumeRest
  <2>1. UNCHANGED <<transaction_length, result, is_ref, output_num_select, num_inputs, num_outputs, i,
                    sig_hash, transaction_hash, ref_compare, ref_compare_hash, known,
                    transaction_fee_amount, list, transaction_fee>>
    BY Zenon, <1>16 DEF ConsumeRest, counters, hashes, references, ui
  <2>2. /\ transaction_data_index' \in 0 .. transaction_length'
        /\ pc' = "done" => transaction_data_index' = transaction_length'
    <3>1. transaction_data_index \in 0 .. transaction_length /\ transaction_length \in Nat
      BY SizesAssumption DEF Typed, TypeOK
    <3>. QED BY <1>16, <2>1, <3>1 DEF ConsumeRest, isEndOfTransactionData
  <2>3. /\ pc' \in {"rest", "done"}
        /\ pc' \notin Running \cup {"amount", "output_script", "ref_hash", "ref_num", "input_script", "sequence"}
    BY <1>16 DEF ConsumeRest, Running, Body, InputFields
  <2>. QED BY Zenon, <2>1, <2>2, <2>3 DEF Typed, TypeOK
<1>. QED
  BY Zenon, <1>0, <1>1, <1>2, <1>3, <1>4, <1>5, <1>6, <1>7, <1>8, <1>9, <1>10, <1>11, <1>12, <1>13, <1>14,
     <1>15, <1>16 DEF Next, Step

\* What a unit adds to the fields that were read.
LEMMA TakeFields ==
  ASSUME Typed, FieldsInv, NEW field, NEW v, Take(field, v)
  PROVE  /\ \A f \in ReadFields : Values(transaction_hash', f) = Values(sig_hash', f)
         /\ AmountsRead' = IF field = "amount" THEN Append(AmountsRead, v) ELSE AmountsRead
         /\ ScriptsRead' = IF field = "output_script" THEN Append(ScriptsRead, v) ELSE ScriptsRead
         /\ NumsRead' = IF field = "ref_num" THEN Append(NumsRead, v) ELSE NumsRead
         /\ RefsRead' = IF field = "ref_hash" THEN Append(RefsRead, v) ELSE RefsRead
<1>1. CASE field \in Unhashed
  <2>1. sig_hash' = sig_hash /\ transaction_hash' = transaction_hash
    BY Zenon, <1>1 DEF Take
  <2>2. field \notin ReadFields
    BY Zenon, <1>1 DEF Unhashed, ReadFields
  <2>. QED BY Zenon, <2>1, <2>2 DEF FieldsInv, AmountsRead, ScriptsRead, NumsRead, RefsRead, ReadFields
<1>2. CASE field \notin Unhashed
  <2>1. /\ \A f : Values(sig_hash', f) =
                    IF f = field THEN Append(Values(sig_hash, f), v) ELSE Values(sig_hash, f)
        /\ \A f : Values(transaction_hash', f) =
                    IF f = field /\ f \notin Suppressed
                    THEN Append(Values(transaction_hash, f), v) ELSE Values(transaction_hash, f)
    BY Zenon, <1>2, TakeValues
  <2>2. \A f \in ReadFields : f \notin Suppressed
    BY Zenon DEF ReadFields, Suppressed
  <2>3. \A f \in ReadFields : Values(transaction_hash', f) = Values(sig_hash', f)
    BY Zenon, <2>1, <2>2 DEF FieldsInv
  <2>. QED BY Zenon, <2>1, <2>3 DEF AmountsRead, ScriptsRead, NumsRead, RefsRead
<1>. QED BY Zenon, <1>1, <1>2

LEMMA ReadTyped ==
  ASSUME Typed
  PROVE  /\ IsSeq(AmountsRead) /\ IsSeq(ScriptsRead) /\ IsSeq(NumsRead) /\ IsSeq(RefsRead)
         /\ Len(AmountsRead) \in Nat /\ Len(ScriptsRead) \in Nat
         /\ Len(NumsRead) \in Nat /\ Len(RefsRead) \in Nat
<1>1. IsSeq(AmountsRead) /\ IsSeq(ScriptsRead) /\ IsSeq(NumsRead) /\ IsSeq(RefsRead)
  BY Zenon, ValuesAppend DEF Typed, AmountsRead, ScriptsRead, NumsRead, RefsRead
<1>. QED BY Zenon, <1>1 DEF IsSeq

\* One more amount, and the rest is as it was.
LEMMA AppendAmount ==
  ASSUME NEW s, IsSeq(s), \A n \in 1 .. Len(s) : s[n] \in Nat, NEW x \in Nat
  PROVE  \A n \in 1 .. Len(Append(s, x)) : Append(s, x)[n] \in Nat
<1>1. PICK t : t = Append(s, x)
  BY Zenon
<1>2. /\ Len(t) = Len(s) + 1 /\ t[Len(s) + 1] = x
      /\ \A n \in 1 .. Len(s) : t[n] = s[n]
  BY Zenon, <1>1, AppendIs
<1>3. Len(s) \in Nat
  BY Zenon DEF IsSeq
<1>4. ASSUME NEW n \in 1 .. Len(t)
      PROVE  t[n] \in Nat
  <2>1. CASE n \in 1 .. Len(s)
    BY Zenon, <1>2, <2>1
  <2>2. CASE n = Len(s) + 1
    BY Zenon, <1>2, <2>2
  <2>. QED BY <1>2, <1>3, <2>1, <2>2
<1>. QED BY Zenon, <1>1, <1>4

\* The fields are read in turn.
LEMMA FieldsNext ==
  ASSUME IInv, Next
  PROVE  FieldsInv'
<1>. USE DEF Body, InputFields, OutputFields
<1>. Typed /\ FieldsInv
  BY SMTT(30) DEF IInv
<1>g. max_money \in Nat
  BY Zenon, SizesAssumption
<1>h. pc = "output_script" => i < num_outputs
  BY Zenon DEF Typed, TypeOK
<1>. DEFINE Agree == \A f \in ReadFields : Values(transaction_hash, f) = Values(sig_hash, f)
            Reads == <<AmountsRead, ScriptsRead, NumsRead, RefsRead>>
<1>a. Len(<<>>) = 0 /\ \A n \in 1 .. Len(<<>>) : FALSE
  BY EmptyIs
<1>b. ASSUME UNCHANGED hashes
      PROVE  Agree' /\ UNCHANGED Reads
  BY Zenon, <1>b DEF FieldsInv, hashes, AmountsRead, ScriptsRead, NumsRead, RefsRead
<1>c. ASSUME sig_hash' = <<>>, transaction_hash' = <<>>
      PROVE  Agree' /\ AmountsRead' = <<>> /\ ScriptsRead' = <<>> /\ NumsRead' = <<>> /\ RefsRead' = <<>>
  BY Zenon, <1>c, ValuesEmpty DEF AmountsRead, ScriptsRead, NumsRead, RefsRead
<1>d. ASSUME NEW field, NEW v, Take(field, v), field \notin ReadFields
      PROVE  Agree' /\ UNCHANGED Reads /\ pc = field
  <2>1. field \notin {"amount", "output_script", "ref_num", "ref_hash"}
    BY Zenon, <1>d DEF ReadFields
  <2>2. pc = field
    BY Zenon, <1>d DEF Take
  <2>. QED BY Zenon, <1>d, <2>1, <2>2, TakeFields
<1>e. /\ Len(AmountsRead) \in Nat /\ Len(ScriptsRead) \in Nat
      /\ Len(NumsRead) \in Nat /\ Len(RefsRead) \in Nat
      /\ num_outputs \in Nat /\ i \in Nat
  BY Zenon, ReadTyped DEF Typed
<1>f. Agree' <=> \A f \in ReadFields : (Values(transaction_hash, f) = Values(sig_hash, f))'
  BY Zenon
<1>. HIDE DEF Agree
<1>0. CASE parseTransaction
  BY Zenon, <1>0, <1>a, <1>c, <1>f DEF parseTransaction, FieldsInv
<1>1. CASE BeginTransaction
  BY Zenon, <1>1, <1>a, <1>c, <1>f DEF BeginTransaction, Fail, Goto, FieldsInv
<1>2. ASSUME NEW v \in BOOLEAN, ReadIsRef(v)
      PROVE  FieldsInv'
  <2>2. Agree' /\ UNCHANGED Reads /\ pc = "is_ref"
    BY Zenon, <1>d, <1>2 DEF ReadIsRef, ReadFields
  <2>. QED BY Zenon, <1>f, <1>2, <2>2 DEF ReadIsRef, Goto, FieldsInv
<1>3. ASSUME NEW v \in OutputNumbers, ReadOutputNum(v)
      PROVE  FieldsInv'
  <2>2. Agree' /\ UNCHANGED Reads /\ pc = "output_num"
    BY Zenon, <1>d, <1>3 DEF ReadOutputNum, ReadFields
  <2>. QED BY Zenon, <1>f, <1>3, <2>2 DEF ReadOutputNum, Goto, FieldsInv
<1>4. ASSUME NEW v \in Markers, ReadVersion(v)
      PROVE  FieldsInv'
  <2>2. Agree' /\ UNCHANGED Reads /\ pc = "version"
    BY Zenon, <1>d, <1>4 DEF ReadVersion, ReadMarker, ReadFields
  <2>. QED BY Zenon, <1>f, <1>4, <2>2 DEF ReadVersion, ReadMarker, Fail, Goto, FieldsInv
<1>5. ASSUME NEW v \in Counts(MAX_INPUTS), ReadNumInputs(v)
      PROVE  FieldsInv'
  <2>2. Agree' /\ UNCHANGED Reads /\ pc = "num_inputs"
    BY Zenon, <1>d, <1>5 DEF ReadNumInputs, ReadFields
  <2>. QED BY Zenon, <1>a, <1>f, <1>5, <2>2 DEF ReadNumInputs, Fail, Goto, FieldsInv
<1>6. ASSUME NEW v \in RefHashes, ReadRefHash(v)
      PROVE  FieldsInv'
  <2>2. /\ pc = "ref_hash" /\ Agree'
        /\ AmountsRead' = AmountsRead /\ ScriptsRead' = ScriptsRead /\ NumsRead' = NumsRead
        /\ RefsRead' = Append(RefsRead, v)
    BY Zenon, <1>6, TakeFields DEF ReadRefHash, Take, Agree
  <2>3. Len(RefsRead') = Len(RefsRead) + 1
    BY Zenon, <2>2, ReadTyped, AppendIs
  <2>. QED BY Zenon, <1>e, <1>f, <1>6, <2>2, <2>3 DEF ReadRefHash, Goto, FieldsInv
<1>7. ASSUME NEW v \in RefNums, ReadRefNum(v)
      PROVE  FieldsInv'
  <2>2. /\ pc = "ref_num" /\ Agree'
        /\ AmountsRead' = AmountsRead /\ ScriptsRead' = ScriptsRead /\ RefsRead' = RefsRead
        /\ NumsRead' = Append(NumsRead, v)
    BY Zenon, <1>7, TakeFields DEF ReadRefNum, Take, Agree
  <2>3. Len(NumsRead') = Len(NumsRead) + 1
    BY Zenon, <2>2, ReadTyped, AppendIs
  <2>. QED BY Zenon, <1>e, <1>f, <1>7, <2>2, <2>3 DEF ReadRefNum, Goto, FieldsInv
<1>8. ASSUME NEW v \in Scripts \cup {TooLong}, ReadInputScript(v)
      PROVE  FieldsInv'
  <2>2. Agree' /\ UNCHANGED Reads /\ pc = "input_script"
    BY Zenon, <1>d, <1>8 DEF ReadInputScript, ReadFields
  <2>. QED BY Zenon, <1>f, <1>8, <2>2 DEF ReadInputScript, Fail, Goto, FieldsInv
<1>9. ASSUME NEW v \in {"final", Nonstandard}, ReadSequence(v)
      PROVE  FieldsInv'
  <2>2. Agree' /\ UNCHANGED Reads /\ pc = "sequence"
    BY Zenon, <1>d, <1>9 DEF ReadSequence, ReadFields
  <2>. QED BY Zenon, <1>f, <1>9, <2>2 DEF ReadSequence, Fail, Goto, FieldsInv
<1>10. ASSUME NEW v \in Counts(MAX_OUTPUTS), ReadNumOutputs(v)
       PROVE  FieldsInv'
  <2>2. Agree' /\ UNCHANGED Reads /\ pc = "num_outputs"
    BY Zenon, <1>d, <1>10 DEF ReadNumOutputs, ReadFields
  <2>. QED BY Zenon, <1>a, <1>f, <1>10, <2>2 DEF ReadNumOutputs, Fail, Goto, FieldsInv
<1>11. ASSUME NEW v \in 0 .. max_money + 1, ReadAmount(v)
       PROVE  FieldsInv'
  <2>2. /\ pc = "amount" /\ Agree'
        /\ RefsRead' = RefsRead /\ ScriptsRead' = ScriptsRead /\ NumsRead' = NumsRead
        /\ AmountsRead' = Append(AmountsRead, v)
    BY Zenon, <1>11, TakeFields DEF ReadAmount, Take, Agree
  <2>3. Len(AmountsRead) = i /\ Len(ScriptsRead) = i /\ Len(RefsRead) = Len(NumsRead)
    BY Zenon, <2>2 DEF FieldsInv
  <2>4. Len(AmountsRead') = Len(AmountsRead) + 1 /\ AmountsRead'[Len(AmountsRead) + 1] = v
    BY Zenon, <2>2, ReadTyped, AppendIs
  <2>5. \A n \in 1 .. Len(AmountsRead') : AmountsRead'[n] \in Nat
    <3>1. v \in Nat
      BY <1>g
    <3>. QED BY Zenon, <2>2, <3>1, ReadTyped, AppendAmount DEF FieldsInv
  <2>6. Len(sig_hash') > 0 /\ sig_hash'[Len(sig_hash')].v = v
    <3>1. "amount" \notin Unhashed /\ Len(sig_hash) \in Nat
      BY Zenon DEF Unhashed, Typed, IsSeq
    <3>2. Len(sig_hash') = Len(sig_hash) + 1 /\ sig_hash'[Len(sig_hash) + 1].v = v
      BY Zenon, <1>11, <3>1, TakeValues DEF ReadAmount
    <3>. QED BY <3>1, <3>2
  <2>7. i' = i /\ pc' \in {"rest", "output_script"}
    BY Zenon, <1>11 DEF ReadAmount, counters, Fail, Goto
  <2>. QED BY Zenon, <1>e, <1>f, <2>2, <2>3, <2>4, <2>5, <2>6, <2>7 DEF FieldsInv
<1>12. ASSUME NEW v \in OutputScripts, ReadOutputScript(v)
       PROVE  FieldsInv'
  <2>2. /\ pc = "output_script" /\ Agree'
        /\ RefsRead' = RefsRead /\ AmountsRead' = AmountsRead /\ NumsRead' = NumsRead
        /\ ScriptsRead' = Append(ScriptsRead, v)
    BY Zenon, <1>12, TakeFields DEF ReadOutputScript, Take, Agree
  <2>3. Len(AmountsRead) = i + 1 /\ Len(ScriptsRead) = i /\ Len(RefsRead) = Len(NumsRead)
    BY Zenon, <2>2 DEF FieldsInv
  <2>4. Len(ScriptsRead') = Len(ScriptsRead) + 1
    BY Zenon, <2>2, ReadTyped, AppendIs
  <2>5. i' = i + 1 /\ num_outputs' = num_outputs /\ i < num_outputs
    BY Zenon, <1>h, <1>12, <2>2 DEF ReadOutputScript
  <2>6. pc' = "rest" \/ pc' = IF i' < num_outputs THEN "amount" ELSE "locktime"
    BY Zenon, <1>12 DEF ReadOutputScript, Fail, Goto
  <2>. QED BY <1>e, <1>f, <2>2, <2>3, <2>4, <2>5, <2>6 DEF FieldsInv
<1>13. ASSUME NEW v \in Markers, ReadLocktime(v)
       PROVE  FieldsInv'
  <2>2. Agree' /\ UNCHANGED Reads /\ pc = "locktime" /\ num_outputs' = num_outputs
    BY Zenon, <1>d, <1>13 DEF ReadMarker, ReadFields, ReadLocktime, counters
  <2>. QED BY Zenon, <1>f, <1>13, <2>2 DEF ReadLocktime, ReadMarker, Fail, Goto, FieldsInv
<1>14. ASSUME NEW v \in Markers, ReadHashtype(v)
       PROVE  FieldsInv'
  <2>2. Agree' /\ UNCHANGED Reads /\ pc = "hashtype"
    BY Zenon, <1>d, <1>14 DEF ReadHashtype, ReadFields
  <2>. QED BY Zenon, <1>f, <1>14, <2>2 DEF ReadHashtype, Fail, Goto, FieldsInv
<1>15. CASE Truncated
  <2>1. Agree' /\ UNCHANGED Reads
    BY Zenon, <1>b, <1>15 DEF Truncated
  <2>. QED BY Zenon, <1>f, <1>15, <2>1 DEF Truncated, Fail, FieldsInv
<1>16. CASE ConsumeRest
  <2>1. Agree' /\ UNCHANGED Reads
    BY Zenon, <1>b, <1>16 DEF ConsumeRest
  <2>. QED BY Zenon, <1>f, <1>16, <2>1 DEF ConsumeRest, FieldsInv
<1>. QED
  BY Zenon, <1>0, <1>1, <1>2, <1>3, <1>4, <1>5, <1>6, <1>7, <1>8, <1>9, <1>10, <1>11, <1>12, <1>13, <1>14,
     <1>15, <1>16 DEF Next, Step

-----------------------------------------------------------------------------
(* What holds before each field. *)

LEMMA FailPhases ==
  ASSUME NEW error, error # "NO_ERROR", Fail(error)
  PROVE  Phases'
BY Zenon DEF Fail, Phases, Body, InputFields, OutputFields

\* parseTransaction() starts without references, outputs and fee.
LEMMA StartPhases ==
  ASSUME parseTransaction
  PROVE  Phases'
<1>1. pc' = "begin" /\ list' = <<>> /\ ref_compare' = <<>> /\ transaction_fee_amount' = 0
  BY Zenon DEF parseTransaction, clearOutputsSeen
<1>2. 0 \in 0 .. Len(ref_compare') /\ Len(ref_compare') = 2 * 0
  BY <1>1, EmptyIs
<1>3. BetweenInv'
  BY Zenon, <1>1, <1>2, NoWorth DEF BetweenInv
<1>. QED BY Zenon, <1>1, <1>3 DEF Phases, Body, InputFields, OutputFields

\* The next transaction begins.
LEMMA BeginPhases ==
  ASSUME IInv, BeginTransaction
  PROVE  Phases'
<1>1. CASE pc' = "is_ref"
  <2>1. BetweenInv
    BY Zenon DEF IInv, Phases, BeginTransaction
  <2>2. BetweenInv'
    BY Zenon, <2>1 DEF BetweenInv, BeginTransaction, references, ui
  <2>. QED BY Zenon, <1>1, <2>2 DEF Phases, Body, InputFields, OutputFields
<1>2. CASE Fail("TOO_LARGE")
  BY Zenon, <1>2, FailPhases
<1>. QED BY Zenon, <1>1, <1>2 DEF BeginTransaction, Goto

\* The header of an input transaction, or the start of the spending transaction.
LEMMA IsRefPhases ==
  ASSUME IInv, NEW v \in BOOLEAN, ReadIsRef(v)
  PROVE  Phases'
<1>1. Typed /\ FieldsInv /\ Take("is_ref", v) /\ pc = "is_ref"
  BY Zenon DEF IInv, ReadIsRef, Take
<1>2. BetweenInv
  BY Zenon, <1>1 DEF IInv, Phases
<1>3. CASE v
  <2>1. BetweenInv'
    BY Zenon, <1>2, <1>3 DEF BetweenInv, ReadIsRef, references, ui
  <2>2. pc' = "output_num" /\ is_ref'
    BY Zenon, <1>3 DEF ReadIsRef, Goto
  <2>. QED BY Zenon, <2>1, <2>2 DEF Phases, Body, InputFields, OutputFields
<1>4. CASE ~v
  <2>1. /\ pc' = "version" /\ ~is_ref'
        /\ ref_compare' = <<>> /\ ref_compare_hash' = ref_compare /\ known' = known
        /\ transaction_fee_amount' = transaction_fee_amount /\ list' = list
    BY Zenon, <1>4 DEF ReadIsRef, Goto, ui
  <2>2. AmountsRead' = <<>> /\ ScriptsRead' = <<>> /\ NumsRead' = <<>> /\ RefsRead' = <<>>
    BY <1>1, TakeFields DEF FieldsInv
  <2>3. Shown'
    <3>1. Len(<<>>) = 0 /\ \A n \in 1 .. 0 : FALSE
      BY EmptyIs
    <3>2. Len(list') = 0 /\ Len(ScriptsRead') = 0
      BY Zenon, <1>2, <2>1, <2>2, <3>1 DEF BetweenInv
    <3>. QED BY Zenon, <3>1, <3>2 DEF Shown
  <2>4. Len(ref_compare') = 2 * Len(NumsRead') /\ Paired(ref_compare', NumsRead', RefsRead')
    BY <2>1, <2>2, EmptyIs DEF Paired
  <2>5. Collected'
    <3>1. PICK m \in 0 .. Len(ref_compare) :
            /\ Len(ref_compare) = 2 * m
            /\ Refs(ref_compare, m, known)
            /\ transaction_fee_amount = Total(Worth(ref_compare, m))
      BY Zenon, <1>2 DEF BetweenInv
    <3>2. Total(AmountsRead') = 0 /\ transaction_fee_amount \in Nat
      BY <1>1, <2>2, TotalEmpty, SizesAssumption DEF Typed, TypeOK
    <3>3. transaction_fee_amount' + Total(AmountsRead') = transaction_fee_amount
      BY <2>1, <3>2
    <3>. QED BY Zenon, <2>1, <3>1, <3>3 DEF Collected
  <2>6. SpendInv'
    BY Zenon, <2>1, <2>3, <2>4, <2>5 DEF SpendInv, OutputFields
  <2>. QED BY Zenon, <2>1, <2>6 DEF Phases, Body, InputFields, OutputFields
<1>. QED BY Zenon, <1>3, <1>4

\* The reference to an input transaction begins with the number of the output.
LEMMA OutputNumPhases ==
  ASSUME IInv, NEW v \in OutputNumbers, ReadOutputNum(v)
  PROVE  Phases'
<1>1. Typed /\ FieldsInv /\ Take("output_num", v) /\ pc = "output_num"
  BY Zenon DEF IInv, ReadOutputNum, Take
<1>2. BetweenInv /\ is_ref
  BY Zenon, <1>1 DEF IInv, Phases
<1>3. /\ pc' = "version" /\ is_ref' = is_ref /\ list' = list /\ known' = known
      /\ transaction_fee_amount' = transaction_fee_amount
      /\ output_num_select' = v /\ v \in Nat
      /\ ref_compare' = Append(ref_compare, v)
  BY Zenon, SizesAssumption DEF ReadOutputNum, Goto, ui
<1>4. AmountsRead' = <<>>
  BY <1>1, TakeFields DEF FieldsInv
<1>5. PICK m \in 0 .. Len(ref_compare) :
        /\ Len(ref_compare) = 2 * m
        /\ Refs(ref_compare, m, known)
        /\ transaction_fee_amount = Total(Worth(ref_compare, m))
  BY Zenon, <1>2 DEF BetweenInv
<1>6. /\ Len(ref_compare') = Len(ref_compare) + 1
      /\ \A n \in 1 .. Len(ref_compare) : ref_compare'[n] = ref_compare[n]
      /\ ref_compare'[Len(ref_compare) + 1] = v
  BY Zenon, <1>1, <1>3, AppendIs DEF Typed
<1>7. m \in Nat /\ Len(ref_compare) \in Nat
  BY <1>1 DEF Typed, IsSeq
<1>8. Len(ref_compare') = 2 * m + 1 /\ ref_compare'[2 * m + 1] = v /\ m \in 0 .. Len(ref_compare')
  BY <1>5, <1>6, <1>7
<1>9. Refs(ref_compare', m, known') /\ Worth(ref_compare', m) = Worth(ref_compare, m)
  <2>1. known \subseteq known' /\ \A n \in 1 .. 2 * m : ref_compare'[n] = ref_compare[n]
    BY Zenon, <1>3, <1>5, <1>6
  <2>. QED BY Zenon, <1>5, <1>7, <2>1, WorthKept
<1>10. Selected' = 0
  BY <1>3, <1>4, EmptyIs DEF Selected
<1>11. transaction_fee_amount' = Total(Worth(ref_compare', m)) + Selected'
  <2>1. transaction_fee_amount \in Nat
    BY <1>1, SizesAssumption DEF Typed, TypeOK
  <2>2. Total(Worth(ref_compare', m)) = transaction_fee_amount
    BY Zenon, <1>5, <1>9
  <2>. QED BY <1>3, <1>10, <2>1, <2>2
<1>12. InputInv'
  <2>1. list' = <<>> /\ pc' # "hashtype" /\ pc' \notin OutputFields \cup {"locktime"}
    BY Zenon, <1>2, <1>3 DEF BetweenInv, OutputFields
  <2>. QED BY Zenon, <1>3, <1>8, <1>9, <1>11, <2>1 DEF InputInv
<1>. QED BY Zenon, <1>2, <1>3, <1>12 DEF Phases, Body, InputFields, OutputFields

\* A field that the references, the fee and the outputs do not depend on.
LEMMA SameInput ==
  ASSUME InputInv, UNCHANGED <<list, ref_compare, known, transaction_fee_amount, output_num_select>>,
         AmountsRead' = AmountsRead, pc' # "hashtype",
         pc' \in OutputFields \cup {"locktime"} => output_num_select < num_outputs'
  PROVE  InputInv'
BY Zenon DEF InputInv, Selected

LEMMA SameShown ==
  ASSUME Shown, list' = list, AmountsRead' = AmountsRead, ScriptsRead' = ScriptsRead
  PROVE  Shown'
BY Zenon DEF Shown

LEMMA SameCollected ==
  ASSUME Collected, UNCHANGED <<ref_compare_hash, known, transaction_fee_amount>>,
         AmountsRead' = AmountsRead
  PROVE  Collected'
BY Zenon DEF Collected

LEMMA SameSpend ==
  ASSUME SpendInv, UNCHANGED <<list, references, transaction_fee_amount>>,
         AmountsRead' = AmountsRead, ScriptsRead' = ScriptsRead,
         NumsRead' = NumsRead, RefsRead' = RefsRead,
         pc # "ref_num", pc' # "ref_num",
         pc' \in OutputFields \cup {"num_outputs", "locktime", "hashtype"} =>
            ref_compare = ref_compare_hash
  PROVE  SpendInv'
<1>1. Shown' /\ Collected'
  BY Zenon, SameShown, SameCollected DEF SpendInv, references
<1>. QED BY Zenon, <1>1 DEF SpendInv, references

\* The fields that the properties are not about.
LEMMA QuietPhases ==
  ASSUME IInv, NEW field, NEW v, Take(field, v),
         field \in Body \ {"amount", "output_script", "ref_num", "ref_hash"}, pc' \in Body \ {"ref_num"},
         UNCHANGED <<is_ref, list, references, transaction_fee_amount, output_num_select>>,
         pc' = "hashtype" => ~is_ref,
         is_ref /\ pc' \in OutputFields \cup {"locktime"} => output_num_select < num_outputs',
         ~is_ref /\ pc' \in OutputFields \cup {"num_outputs", "locktime", "hashtype"} =>
            ref_compare = ref_compare_hash
  PROVE  Phases'
<1>1. Typed /\ FieldsInv /\ pc = field
  BY Zenon DEF IInv, Take
<1>2. /\ AmountsRead' = AmountsRead /\ ScriptsRead' = ScriptsRead
      /\ NumsRead' = NumsRead /\ RefsRead' = RefsRead
  <2>1. field \notin {"amount", "output_script", "ref_num", "ref_hash"}
    BY Zenon
  <2>2. field # "amount" /\ field # "output_script" /\ field # "ref_num" /\ field # "ref_hash"
    BY Zenon, <2>1
  <2>. QED BY Zenon, <1>1, <2>2, TakeFields
<1>3. pc' \notin {"begin", "is_ref", "output_num", "rest", "done"}
  BY Zenon DEF Body, InputFields, OutputFields
<1>4. CASE is_ref
  <2>1. InputInv
    BY Zenon, <1>1, <1>4 DEF IInv, Phases
  <2>2. InputInv'
    BY Zenon, <1>2, <1>4, <2>1, SameInput DEF references
  <2>. QED BY Zenon, <1>3, <1>4, <2>2 DEF Phases
<1>5. CASE ~is_ref
  <2>1. SpendInv /\ pc # "ref_num"
    BY Zenon, <1>1, <1>5 DEF IInv, Phases
  <2>2. SpendInv'
    BY Zenon, <1>2, <1>5, <2>1, SameSpend
  <2>. QED BY Zenon, <1>3, <1>5, <2>2 DEF Phases
<1>. QED BY Zenon, <1>4, <1>5

LEMMA VersionPhases ==
  ASSUME IInv, NEW v \in Markers, ReadVersion(v)
  PROVE  Phases'
<1>1. CASE Fail("NON_STANDARD")
  BY Zenon, <1>1, FailPhases
<1>2. CASE Goto("num_inputs")
  <2>1. pc' = "num_inputs" /\ Take("version", v)
    BY Zenon, <1>2 DEF ReadVersion, ReadMarker, Goto
  <2>2. UNCHANGED <<is_ref, list, references, transaction_fee_amount, output_num_select>>
    BY Zenon DEF ReadVersion, ui
  <2>. QED BY Zenon, <2>1, <2>2, QuietPhases DEF Body, InputFields, OutputFields
<1>. QED BY Zenon, <1>1, <1>2 DEF ReadVersion, ReadMarker

LEMMA NumInputsPhases ==
  ASSUME IInv, NEW v, ReadNumInputs(v)
  PROVE  Phases'
<1>1. CASE Fail("INVALID_FORMAT") \/ Fail("TOO_MANY_INPUTS")
  BY Zenon, <1>1, FailPhases
<1>2. CASE Goto("ref_hash")
  <2>1. pc' = "ref_hash" /\ Take("num_inputs", v)
    BY Zenon, <1>2 DEF ReadNumInputs, Goto
  <2>2. UNCHANGED <<is_ref, list, references, transaction_fee_amount, output_num_select>>
    BY Zenon DEF ReadNumInputs, ui
  <2>. QED BY Zenon, <2>1, <2>2, QuietPhases DEF Body, InputFields, OutputFields
<1>. QED BY Zenon, <1>1, <1>2 DEF ReadNumInputs

LEMMA InputScriptPhases ==
  ASSUME IInv, NEW v, ReadInputScript(v)
  PROVE  Phases'
<1>1. CASE Fail("INVALID_FORMAT")
  BY Zenon, <1>1, FailPhases
<1>2. CASE Goto("sequence")
  <2>1. pc' = "sequence" /\ Take("input_script", v)
    BY Zenon, <1>2 DEF ReadInputScript, Goto
  <2>2. UNCHANGED <<is_ref, list, references, transaction_fee_amount, output_num_select>>
    BY Zenon DEF ReadInputScript, ui
  <2>. QED BY Zenon, <2>1, <2>2, QuietPhases DEF Body, InputFields, OutputFields
<1>. QED BY Zenon, <1>1, <1>2 DEF ReadInputScript

\* The references of the spending transaction are compared after the last input.
LEMMA SequencePhases ==
  ASSUME IInv, NEW v, ReadSequence(v)
  PROVE  Phases'
<1>1. CASE Fail("NON_STANDARD") \/ Fail("INVALID_REFERENCE")
  BY Zenon, <1>1, FailPhases
<1>2. CASE Goto("ref_hash") \/ (Goto("num_outputs") /\ (is_ref \/ ReferencesMatch))
  <2>1. /\ pc' \in {"ref_hash", "num_outputs"} /\ Take("sequence", v)
        /\ pc' = "num_outputs" /\ ~is_ref => ref_compare = ref_compare_hash
    BY Zenon, <1>2 DEF ReadSequence, Goto, ReferencesMatch
  <2>2. UNCHANGED <<is_ref, list, references, transaction_fee_amount, output_num_select>>
    BY Zenon DEF ReadSequence, ui
  <2>. QED BY Zenon, <2>1, <2>2, QuietPhases DEF Body, InputFields, OutputFields
<1>. QED BY Zenon, <1>1, <1>2 DEF ReadSequence

\* The output that is spent is one that the input transaction has.
LEMMA NumOutputsPhases ==
  ASSUME IInv, NEW v \in Counts(MAX_OUTPUTS), ReadNumOutputs(v)
  PROVE  Phases'
<1>1. CASE Fail("INVALID_FORMAT") \/ Fail("TOO_MANY_OUTPUTS") \/ Fail("INVALID_REFERENCE")
  BY Zenon, <1>1, FailPhases
<1>2. CASE Goto("amount") /\ ~(is_ref /\ output_num_select >= v)
  <2>1. pc' = "amount" /\ pc = "num_outputs" /\ Take("num_outputs", v) /\ num_outputs' = v
    BY Zenon, <1>2 DEF ReadNumOutputs, Goto, Take
  <2>2. UNCHANGED <<is_ref, list, references, transaction_fee_amount, output_num_select>>
    BY Zenon DEF ReadNumOutputs, ui
  <2>3. is_ref => output_num_select < num_outputs'
    BY <1>2, <2>1, SizesAssumption DEF IInv, Typed, Counts, TooLarge
  <2>4. ~is_ref => ref_compare = ref_compare_hash
    BY Zenon, <2>1 DEF IInv, Phases, SpendInv, Body
  <2>. QED BY Zenon, <2>1, <2>2, <2>3, <2>4, QuietPhases DEF Body, InputFields, OutputFields
<1>. QED BY Zenon, <1>1, <1>2 DEF ReadNumOutputs

\* An input's reference: its hash, and then its number before the hash.
BothRead(c, nums, refs) ==
  /\ IsSeq(c) /\ IsSeq(nums) /\ IsSeq(refs)
  /\ Len(c) = 2 * Len(nums) /\ Len(refs) = Len(nums) /\ Paired(c, nums, refs)
HashRead(c, nums, refs) ==
  /\ IsSeq(c) /\ IsSeq(nums)
  /\ Len(c) = 2 * Len(nums) + 1 /\ c[2 * Len(nums) + 1] = refs[Len(nums) + 1]
  /\ Paired(c, nums, refs)

LEMMA PairHash ==
  ASSUME NEW c, NEW nums, NEW refs, BothRead(c, nums, refs), NEW v
  PROVE  HashRead(Append(c, v), nums, Append(refs, v))
<1>. DEFINE d == Append(c, v)
            more == Append(refs, v)
<1>0. IsSeq(c) /\ IsSeq(nums) /\ IsSeq(refs)
  BY Zenon DEF BothRead
<1>c. IsSeq(c)
  BY Zenon, <1>0
<1>r. IsSeq(refs)
  BY Zenon, <1>0
<1>1. PICK l \in Nat : l = Len(nums) /\ Len(c) = 2 * l /\ Len(refs) = l /\ Paired(c, nums, refs)
  BY Zenon, <1>0 DEF IsSeq, BothRead
<1>2. Len(d) = Len(c) + 1 /\ d[Len(c) + 1] = v /\ \A n \in 1 .. Len(c) : d[n] = c[n]
  BY SMT, <1>c, AppendIs
<1>2a. IsSeq(d)
  BY Zenon, <1>c, AppendIs
<1>3. more[Len(refs) + 1] = v /\ \A n \in 1 .. Len(refs) : more[n] = refs[n]
  BY SMT, <1>r, AppendIs
<1>. HIDE DEF d, more
<1>4. /\ Len(d) = 2 * l + 1 /\ d[2 * l + 1] = v /\ \A n \in 1 .. 2 * l : d[n] = c[n]
      /\ more[l + 1] = v /\ \A n \in 1 .. l : more[n] = refs[n]
  BY Zenon, <1>1, <1>2, <1>3
<1>5. ASSUME NEW k \in 1 .. l
      PROVE  d[2 * k - 1] = nums[k] /\ d[2 * k] = more[k]
  <2>1. 2 * k - 1 \in 1 .. 2 * l /\ 2 * k \in 1 .. 2 * l
    OBVIOUS
  <2>2. c[2 * k - 1] = nums[k] /\ c[2 * k] = refs[k]
    BY Zenon, <1>1 DEF Paired
  <2>. QED BY Zenon, <1>4, <2>1, <2>2
<1>6. HashRead(d, nums, more)
  BY Zenon, <1>0, <1>1, <1>2a, <1>4, <1>5 DEF Paired, HashRead
<1>. QED BY Zenon, <1>6 DEF d, more

LEMMA PairNum ==
  ASSUME NEW c, NEW nums, NEW refs, HashRead(c, nums, refs), NEW v
  PROVE  /\ Paired(SubSeq(c, 1, Len(c) - 1) \o <<v, c[Len(c)]>>, Append(nums, v), refs)
         /\ Len(SubSeq(c, 1, Len(c) - 1) \o <<v, c[Len(c)]>>) = 2 * Len(Append(nums, v))
<1>. DEFINE d == SubSeq(c, 1, Len(c) - 1) \o <<v, c[Len(c)]>>
            more == Append(nums, v)
<1>0. IsSeq(c) /\ IsSeq(nums)
  BY Zenon DEF HashRead
<1>n. IsSeq(nums)
  BY Zenon, <1>0
<1>1. PICK l \in Nat : l = Len(nums) /\ Paired(c, nums, refs)
  BY Zenon, <1>0 DEF IsSeq, HashRead
<1>2. 2 * l \in Nat /\ Len(c) = 2 * l + 1 /\ c[2 * l + 1] = refs[l + 1]
  BY <1>1 DEF HashRead
<1>3. /\ Len(d) = 2 * l + 2 /\ d[2 * l + 1] = v /\ d[2 * l + 2] = c[2 * l + 1]
      /\ \A n \in 1 .. 2 * l : d[n] = c[n]
  <2>1. PICK m \in Nat : m = 2 * l
    BY Zenon, <1>2
  <2>2. PICK e : e = d
    BY Zenon
  <2>3. Len(c) = m + 1 /\ e = SubSeq(c, 1, Len(c) - 1) \o <<v, c[Len(c)]>>
    BY Zenon, <1>2, <2>1, <2>2
  <2>4. /\ Len(e) = m + 2 /\ e[m + 1] = v /\ e[m + 2] = c[m + 1]
        /\ \A n \in 1 .. m : e[n] = c[n]
    BY ONLY <1>0, <2>3, m \in Nat, SwapLast
  <2>. QED BY Zenon, <2>1, <2>2, <2>4
<1>4. Len(more) = Len(nums) + 1 /\ more[Len(nums) + 1] = v /\ \A n \in 1 .. Len(nums) : more[n] = nums[n]
  BY SMT, <1>n, AppendIs
<1>. HIDE DEF d, more
<1>5. ASSUME NEW k \in 1 .. l + 1
      PROVE  d[2 * k - 1] = more[k] /\ d[2 * k] = refs[k]
  <2>1. CASE k \in 1 .. l
    <3>1. 2 * k - 1 \in 1 .. 2 * l /\ 2 * k \in 1 .. 2 * l
      BY <2>1
    <3>2. c[2 * k - 1] = nums[k] /\ c[2 * k] = refs[k]
      BY Zenon, <1>1, <2>1 DEF Paired
    <3>. QED BY Zenon, <1>1, <1>3, <1>4, <2>1, <3>1, <3>2
  <2>2. CASE k = l + 1
    <3>1. 2 * k - 1 = 2 * l + 1 /\ 2 * k = 2 * l + 2
      BY <2>2
    <3>. QED BY Zenon, <1>1, <1>2, <1>3, <1>4, <2>2, <3>1
  <2>3. k \in 1 .. l \/ k = l + 1
    BY ONLY l \in Nat, k \in 1 .. l + 1
  <2>. QED BY Zenon, <2>1, <2>2, <2>3
<1>6. Len(more) = l + 1 /\ Len(d) = 2 * (l + 1)
  BY <1>1, <1>3, <1>4
<1>7. Paired(d, more, refs) /\ Len(d) = 2 * Len(more)
  BY Zenon, <1>5, <1>6 DEF Paired
<1>. QED BY Zenon, <1>7 DEF d, more

LEMMA RefHashPhases ==
  ASSUME IInv, NEW v, ReadRefHash(v)
  PROVE  Phases'
<1>1. Typed /\ FieldsInv /\ Take("ref_hash", v) /\ pc = "ref_hash"
  BY Zenon DEF IInv, ReadRefHash, Take
<1>2. /\ AmountsRead' = AmountsRead /\ ScriptsRead' = ScriptsRead
      /\ NumsRead' = NumsRead /\ RefsRead' = Append(RefsRead, v)
  BY Zenon, <1>1, TakeFields
<1>3. /\ pc' = "ref_num"
      /\ UNCHANGED <<is_ref, output_num_select, ref_compare_hash, known, transaction_fee_amount, list>>
      /\ ref_compare' = IF is_ref THEN ref_compare ELSE Append(ref_compare, v)
  BY Zenon DEF ReadRefHash, Goto, ui
<1>4. CASE is_ref
  <2>1. InputInv
    BY Zenon, <1>1, <1>4 DEF IInv, Phases, Body, InputFields
  <2>2. pc' # "hashtype" /\ pc' \notin OutputFields \cup {"locktime"}
    BY Zenon, <1>3 DEF OutputFields
  <2>3. InputInv'
    BY Zenon, <1>2, <1>3, <1>4, <2>1, <2>2, SameInput
  <2>. QED BY Zenon, <1>3, <1>4, <2>3 DEF Phases, Body, InputFields, OutputFields
<1>5. CASE ~is_ref
  <2>1. SpendInv
    BY Zenon, <1>1, <1>5 DEF IInv, Phases, Body, InputFields
  <2>2. Shown' /\ Collected'
    BY Zenon, <1>2, <1>3, <2>1, SameShown, SameCollected DEF SpendInv
  <2>3. BothRead(ref_compare, NumsRead, RefsRead)
    BY Zenon, <1>1, <2>1, ReadTyped DEF Typed, FieldsInv, SpendInv, Body, InputFields, BothRead
  <2>4. ref_compare' = Append(ref_compare, v)
    BY Zenon, <1>3, <1>5
  <2>5. HashRead(ref_compare', NumsRead', RefsRead')
    <3>1. HashRead(Append(ref_compare, v), NumsRead, Append(RefsRead, v))
      BY Zenon, <2>3, PairHash
    <3>. QED BY Zenon, <1>2, <2>4, <3>1
  <2>6. SpendInv'
    <3>1. pc' \notin OutputFields \cup {"num_outputs", "locktime", "hashtype"}
      BY Zenon, <1>3 DEF OutputFields
    <3>. QED BY Zenon, <1>2, <1>3, <2>2, <2>5, <3>1 DEF SpendInv, HashRead
  <2>. QED BY Zenon, <1>3, <1>5, <2>6 DEF Phases, Body, InputFields, OutputFields
<1>. QED BY Zenon, <1>4, <1>5

LEMMA RefNumPhases ==
  ASSUME IInv, NEW v, ReadRefNum(v)
  PROVE  Phases'
<1>1. Typed /\ FieldsInv /\ Take("ref_num", v) /\ pc = "ref_num"
  BY Zenon DEF IInv, ReadRefNum, Take
<1>2. /\ AmountsRead' = AmountsRead /\ ScriptsRead' = ScriptsRead
      /\ RefsRead' = RefsRead /\ NumsRead' = Append(NumsRead, v)
  BY Zenon, <1>1, TakeFields
<1>3. /\ pc' = "input_script"
      /\ UNCHANGED <<is_ref, output_num_select, ref_compare_hash, known, transaction_fee_amount, list>>
      /\ is_ref => ref_compare' = ref_compare
  BY Zenon DEF ReadRefNum, Goto, ui
<1>4. CASE is_ref
  <2>1. InputInv
    BY Zenon, <1>1, <1>4 DEF IInv, Phases, Body, InputFields
  <2>2. pc' # "hashtype" /\ pc' \notin OutputFields \cup {"locktime"}
    BY Zenon, <1>3 DEF OutputFields
  <2>3. InputInv'
    BY Zenon, <1>2, <1>3, <1>4, <2>1, <2>2, SameInput
  <2>. QED BY Zenon, <1>3, <1>4, <2>3 DEF Phases, Body, InputFields, OutputFields
<1>5. CASE ~is_ref
  <2>1. SpendInv
    BY Zenon, <1>1, <1>5 DEF IInv, Phases, Body, InputFields
  <2>2. Shown' /\ Collected'
    BY Zenon, <1>2, <1>3, <2>1, SameShown, SameCollected DEF SpendInv
  <2>3. HashRead(ref_compare, NumsRead, RefsRead)
    BY Zenon, <1>1, <2>1, ReadTyped DEF Typed, SpendInv, HashRead
  <2>4. ref_compare' = SubSeq(ref_compare, 1, Len(ref_compare) - 1)
                         \o <<v, ref_compare[Len(ref_compare)]>>
    BY Zenon, <1>5 DEF ReadRefNum
  <2>5. Paired(ref_compare', NumsRead', RefsRead) /\ Len(ref_compare') = 2 * Len(NumsRead')
    <3>1. LET d == SubSeq(ref_compare, 1, Len(ref_compare) - 1)
                     \o <<v, ref_compare[Len(ref_compare)]>>
              more == Append(NumsRead, v)
          IN  Paired(d, more, RefsRead) /\ Len(d) = 2 * Len(more)
      BY ONLY Zenon, <2>3, PairNum
    <3>. QED BY Zenon, <1>2, <2>4, <3>1
  <2>6. SpendInv'
    <3>1. pc' \notin OutputFields \cup {"num_outputs", "locktime", "hashtype"} /\ pc' # "ref_num"
      BY Zenon, <1>3 DEF OutputFields
    <3>. QED BY Zenon, <1>2, <1>3, <2>2, <2>5, <3>1 DEF SpendInv
  <2>. QED BY Zenon, <1>3, <1>5, <2>6 DEF Phases, Body, InputFields, OutputFields
<1>. QED BY Zenon, <1>4, <1>5

\* The amount of an output.
LEMMA AmountPhases ==
  ASSUME IInv, NEW v \in 0 .. max_money + 1, ReadAmount(v)
  PROVE  Phases'
<1>1. Typed /\ FieldsInv /\ Take("amount", v) /\ pc = "amount"
  BY Zenon DEF IInv, ReadAmount, Take
<1>2. /\ AmountsRead' = Append(AmountsRead, v) /\ ScriptsRead' = ScriptsRead
      /\ NumsRead' = NumsRead /\ RefsRead' = RefsRead
  BY Zenon, <1>1, TakeFields
<1>3. UNCHANGED <<is_ref, output_num_select, num_outputs, references, list>>
  BY Zenon DEF ReadAmount, counters, ui
<1>4. /\ IsSeq(AmountsRead) /\ Len(AmountsRead) = i /\ Len(ScriptsRead) = i /\ i \in Nat
      /\ \A n \in 1 .. Len(AmountsRead) : AmountsRead[n] \in Nat
  BY Zenon, <1>1, ReadTyped DEF Typed, FieldsInv
<1>5. Len(AmountsRead') = i + 1 /\ AmountsRead'[i + 1] = v /\ \A n \in 1 .. i : AmountsRead'[n] = AmountsRead[n]
  <2>1. /\ Len(AmountsRead') = Len(AmountsRead) + 1 /\ AmountsRead'[Len(AmountsRead) + 1] = v
        /\ \A n \in 1 .. Len(AmountsRead) : AmountsRead'[n] = AmountsRead[n]
    BY Zenon, <1>2, <1>4, AppendIs
  <2>. QED BY Zenon, <1>4, <2>1
<1>6. v \in Nat /\ transaction_fee_amount \in Nat /\ AmountLimit \in Nat \ {0}
      /\ transaction_fee_amount < AmountLimit /\ output_num_select \in Nat
  BY <1>1, SizesAssumption DEF Typed, TypeOK
<1>7. CASE Fail("INVALID_AMOUNT")
  BY Zenon, <1>7, FailPhases
<1>8. CASE pc' = "output_script" /\ is_ref
  <2>1. InputInv
    BY Zenon, <1>1, <1>8 DEF IInv, Phases, Body, OutputFields
  <2>2. PICK m \in 0 .. Len(ref_compare) :
          /\ Len(ref_compare) = 2 * m + 1
          /\ ref_compare[2 * m + 1] = output_num_select
          /\ Refs(ref_compare, m, known)
          /\ transaction_fee_amount = Total(Worth(ref_compare, m)) + Selected
    BY Zenon, <2>1 DEF InputInv
  <2>3. m \in Nat /\ Genuine(known)
    BY <1>1 DEF Typed, IsSeq
  <2>4. PICK total \in Nat : total = Total(Worth(ref_compare, m))
    BY Zenon, <2>2, <2>3, WorthTotal
  <2>5. transaction_fee_amount' = total + Selected'
    <3>1. CASE i = output_num_select
      <4>1. Selected = 0 /\ Selected' = v
        BY <1>3, <1>4, <1>5, <1>6, <3>1 DEF Selected
      <4>2. /\ transaction_fee_amount' = (transaction_fee_amount + v) % AmountLimit
            /\ transaction_fee_amount + v < AmountLimit
        BY <1>6, <1>8, <3>1 DEF ReadAmount, Fail, Goto
      <4>3. transaction_fee_amount' = transaction_fee_amount + v
        <5>1. PICK sum \in Nat : sum = transaction_fee_amount + v
          BY <1>6
        <5>2. sum < AmountLimit
          BY Zenon, <4>2, <5>1
        <5>3. sum % AmountLimit = sum
          BY ONLY Zenon, <1>6, <5>2, sum \in Nat, ModSmall
        <5>. QED BY Zenon, <4>2, <5>1, <5>3
      <4>. QED BY <1>6, <2>2, <2>4, <4>1, <4>3
    <3>2. CASE i # output_num_select
      <4>1. transaction_fee_amount' = transaction_fee_amount
        BY Zenon, <1>8, <3>2 DEF ReadAmount, Fail, Goto
      <4>2. Selected' = Selected
        <5>1. CASE output_num_select < i
          <6>1. output_num_select + 1 \in 1 .. i
            BY <1>4, <1>6, <5>1
          <6>2. output_num_select < Len(AmountsRead) /\ output_num_select < Len(AmountsRead')
            BY <1>4, <1>5, <1>6, <5>1
          <6>. QED BY Zenon, <1>3, <1>5, <6>1, <6>2 DEF Selected
        <5>2. CASE output_num_select > i
          <6>1. ~(output_num_select < Len(AmountsRead)) /\ ~(output_num_select < Len(AmountsRead'))
            BY <1>4, <1>5, <1>6, <5>2
          <6>. QED BY Zenon, <1>3, <6>1 DEF Selected
        <5>. QED BY <1>4, <1>6, <3>2, <5>1, <5>2
      <4>. QED BY Zenon, <2>2, <2>4, <4>1, <4>2
    <3>. QED BY Zenon, <3>1, <3>2
  <2>6. list' = <<>> /\ pc' # "hashtype" /\ output_num_select' < num_outputs'
    BY Zenon, <1>1, <1>3, <1>8, <2>1 DEF InputInv, OutputFields
  <2>7. InputInv'
    BY Zenon, <1>3, <2>2, <2>4, <2>5, <2>6 DEF InputInv, references
  <2>. QED BY Zenon, <1>3, <1>8, <2>7 DEF Phases, Body, InputFields, OutputFields
<1>9. CASE pc' = "output_script" /\ ~is_ref
  <2>1. SpendInv
    BY Zenon, <1>1, <1>9 DEF IInv, Phases, Body, OutputFields
  <2>2. Shown'
    <3>1. Len(list') = Len(ScriptsRead')
      BY Zenon, <1>2, <1>3, <2>1 DEF SpendInv, Shown
    <3>2. ASSUME NEW n \in 1 .. Len(ScriptsRead')
          PROVE  list'[n] = [amount |-> AmountsRead'[n], address |-> ScriptsRead'[n]]
      <4>1. n \in 1 .. Len(ScriptsRead) /\ n \in 1 .. i
        BY Zenon, <1>2, <1>4
      <4>2. list[n] = [amount |-> AmountsRead[n], address |-> ScriptsRead[n]]
        BY Zenon, <2>1, <4>1 DEF SpendInv, Shown
      <4>. QED BY Zenon, <1>2, <1>3, <1>5, <4>1, <4>2
    <3>. QED BY Zenon, <3>1, <3>2 DEF Shown
  <2>3. Collected'
    <3>1. PICK total \in Nat : total = Total(AmountsRead) /\ Total(AmountsRead') = total + v
      BY Zenon, <1>2, <1>4, <1>6, TotalAppend
    <3>2. /\ transaction_fee_amount' = (transaction_fee_amount + AmountLimit - v) % AmountLimit
          /\ transaction_fee_amount >= v
      BY <1>6, <1>9 DEF ReadAmount, Fail, Goto
    <3>3. transaction_fee_amount' = transaction_fee_amount - v
      <4>1. PICK rest \in Nat : rest = transaction_fee_amount - v
        BY <1>6, <3>2
      <4>2. rest < AmountLimit /\ transaction_fee_amount + AmountLimit - v = rest + AmountLimit
        BY <1>6, <4>1
      <4>3. (rest + AmountLimit) % AmountLimit = rest
        BY Zenon, <1>6, <4>2, ModSmall
      <4>. QED BY Zenon, <3>2, <4>1, <4>2, <4>3
    <3>4. transaction_fee_amount' + Total(AmountsRead') = transaction_fee_amount + Total(AmountsRead)
      BY <1>6, <3>1, <3>2, <3>3
    <3>. QED BY Zenon, <1>3, <2>1, <3>4 DEF SpendInv, Collected, references
  <2>4. SpendInv'
    <3>1. ref_compare = ref_compare_hash /\ pc' # "ref_num" /\ pc # "ref_num"
      BY Zenon, <1>1, <1>9, <2>1 DEF SpendInv, OutputFields
    <3>. QED BY Zenon, <1>2, <1>3, <2>1, <2>2, <2>3, <3>1 DEF SpendInv, references
  <2>. QED BY Zenon, <1>3, <1>9, <2>4 DEF Phases, Body, InputFields, OutputFields
<1>. QED BY Zenon, <1>7, <1>8, <1>9 DEF ReadAmount, Goto

\* The end of an output: what the user interface gets is what was hashed.
LEMMA OutputScriptPhases ==
  ASSUME IInv, NEW v \in OutputScripts, ReadOutputScript(v)
  PROVE  Phases'
<1>1. Typed /\ FieldsInv /\ Take("output_script", v) /\ pc = "output_script"
  BY Zenon DEF IInv, ReadOutputScript, Take
<1>2. /\ AmountsRead' = AmountsRead /\ ScriptsRead' = Append(ScriptsRead, v)
      /\ NumsRead' = NumsRead /\ RefsRead' = RefsRead
  BY Zenon, <1>1, TakeFields
<1>3. UNCHANGED <<is_ref, output_num_select, num_outputs, references, transaction_fee_amount>>
  BY Zenon DEF ReadOutputScript
<1>4. CASE Fail("INVALID_FORMAT") \/ Fail("NON_STANDARD") \/ Fail("TOO_MANY_OUTPUTS")
  BY Zenon, <1>4, FailPhases
<1>5. CASE pc' \in {"amount", "locktime"} /\ is_ref
  <2>1. InputInv /\ list' = list
    BY Zenon, <1>1, <1>5 DEF IInv, Phases, Body, OutputFields, ReadOutputScript
  <2>2. pc' # "hashtype" /\ output_num_select < num_outputs'
    BY Zenon, <1>1, <1>3, <1>5, <2>1 DEF InputInv, OutputFields
  <2>3. InputInv'
    BY Zenon, <1>2, <1>3, <2>1, <2>2, SameInput DEF references
  <2>. QED BY Zenon, <1>3, <1>5, <2>3 DEF Phases, Body, InputFields, OutputFields
<1>6. CASE pc' \in {"amount", "locktime"} /\ ~is_ref
  <2>1. SpendInv /\ newOutputSeen(v)
    BY Zenon, <1>1, <1>6 DEF IInv, Phases, Body, OutputFields, ReadOutputScript, Fail
  <2>2. Collected'
    BY Zenon, <1>2, <1>3, <2>1, SameCollected DEF SpendInv, references
  <2>3. Shown'
    <3>. DEFINE u == [amount |-> AmountsRead[i + 1], address |-> v]
    <3>1. list' = Append(list, u)
      BY Zenon, <1>1, <2>1 DEF newOutputSeen, FieldsInv
    <3>. HIDE DEF u
    <3>2a. IsSeq(list) /\ IsSeq(ScriptsRead)
      BY Zenon, <1>1, ReadTyped DEF Typed
    <3>2. /\ i \in Nat /\ Len(list) = i /\ Len(ScriptsRead) = i
          /\ \A n \in 1 .. i : list[n] = [amount |-> AmountsRead[n], address |-> ScriptsRead[n]]
      <4>1. Len(ScriptsRead) = i
        BY Zenon, <1>1 DEF FieldsInv
      <4>2. i \in Nat
        BY Zenon, <1>1 DEF Typed
      <4>. QED BY Zenon, <2>1, <4>1, <4>2 DEF SpendInv, Shown
    <3>3. /\ Len(list') = Len(list) + 1 /\ list'[Len(list) + 1] = u
          /\ \A n \in 1 .. Len(list) : list'[n] = list[n]
      BY Zenon, <3>1, <3>2a, AppendIs
    <3>4. /\ Len(ScriptsRead') = Len(ScriptsRead) + 1 /\ ScriptsRead'[Len(ScriptsRead) + 1] = v
          /\ \A n \in 1 .. Len(ScriptsRead) : ScriptsRead'[n] = ScriptsRead[n]
      BY Zenon, <1>2, <3>2a, AppendIs
    <3>5. /\ Len(list') = i + 1 /\ Len(ScriptsRead') = i + 1
          /\ list'[i + 1] = u /\ ScriptsRead'[i + 1] = v
          /\ \A n \in 1 .. i : list'[n] = list[n] /\ ScriptsRead'[n] = ScriptsRead[n]
      BY Zenon, <3>2, <3>3, <3>4
    <3>6. ASSUME NEW n \in 1 .. i + 1
          PROVE  list'[n] = [amount |-> AmountsRead'[n], address |-> ScriptsRead'[n]]
      <4>1. CASE n \in 1 .. i
        BY Zenon, <1>2, <3>2, <3>5, <4>1
      <4>2. CASE n = i + 1
        BY Zenon, <1>2, <3>5, <4>2 DEF u
      <4>3. n \in 1 .. i \/ n = i + 1
        BY ONLY n \in 1 .. i + 1, <3>2
      <4>. QED BY Zenon, <4>1, <4>2, <4>3
    <3>. QED BY Zenon, <3>5, <3>6 DEF Shown
  <2>4. SpendInv'
    <3>1. ref_compare = ref_compare_hash /\ pc' # "ref_num" /\ pc # "ref_num"
      BY Zenon, <1>1, <1>6, <2>1 DEF SpendInv, OutputFields
    <3>. QED BY Zenon, <1>2, <1>3, <2>1, <2>2, <2>3, <3>1 DEF SpendInv, references
  <2>. QED BY Zenon, <1>3, <1>6, <2>4 DEF Phases, Body, InputFields, OutputFields
<1>. QED BY Zenon, <1>4, <1>5, <1>6 DEF ReadOutputScript, Goto

\* The end of an input transaction completes the reference to it.
LEMMA LocktimePhases ==
  ASSUME IInv, NEW v \in Markers, ReadLocktime(v)
  PROVE  Phases'
<1>1. Typed /\ FieldsInv /\ Take("locktime", v) /\ pc = "locktime"
  BY Zenon DEF IInv, ReadLocktime, ReadMarker, Take
<1>2. UNCHANGED <<is_ref, output_num_select, num_outputs, list, transaction_fee_amount>>
  BY Zenon DEF ReadLocktime, counters, ui
<1>3. CASE Fail("NON_STANDARD")
  BY Zenon, <1>3, FailPhases
<1>4. CASE pc' = "hashtype" /\ ~is_ref
  <2>1. UNCHANGED references
    BY Zenon, <1>4 DEF ReadLocktime
  <2>2. ref_compare = ref_compare_hash
    BY Zenon, <1>1, <1>4 DEF IInv, Phases, SpendInv, Body
  <2>. QED BY Zenon, <1>1, <1>2, <1>4, <2>1, <2>2, QuietPhases DEF Body, InputFields, OutputFields
<1>5. CASE pc' = "begin" /\ is_ref
  <2>1. InputInv /\ output_num_select < num_outputs
    BY Zenon, <1>1, <1>5 DEF IInv, Phases, InputInv, Body
  <2>2. ref_compare' = Append(ref_compare, sig_hash') /\ known' = known \cup {sig_hash'}
    BY Zenon, <1>5 DEF ReadLocktime
  <2>3. Amounts(sig_hash') = AmountsRead
    BY Zenon, <1>1, TakeFields DEF Amounts, AmountsRead
  <2>4. PICK m \in 0 .. Len(ref_compare) :
          /\ Len(ref_compare) = 2 * m + 1
          /\ ref_compare[2 * m + 1] = output_num_select
          /\ Refs(ref_compare, m, known)
          /\ transaction_fee_amount = Total(Worth(ref_compare, m)) + Selected
    BY Zenon, <2>1 DEF InputInv
  <2>5. /\ m \in Nat /\ IsSeq(ref_compare) /\ output_num_select \in Nat
        /\ output_num_select < Len(AmountsRead)
    BY <1>1, <2>1 DEF Typed, IsSeq, FieldsInv
  <2>6. Genuine(known \cup {sig_hash'})
    <3>1. Typed'
      BY Zenon, TypedNext DEF Next, Step
    <3>. QED BY Zenon, <2>2, <3>1 DEF Typed
  <2>7. /\ Refs(Append(ref_compare, sig_hash'), m + 1, known \cup {sig_hash'})
        /\ Total(Worth(Append(ref_compare, sig_hash'), m + 1)) =
             Total(Worth(ref_compare, m)) + AmountsRead[output_num_select + 1]
    <3>1. NextRef(ref_compare, m, known, sig_hash', output_num_select)
      BY Zenon, <2>3, <2>4, <2>5, <2>6 DEF NextRef
    <3>2. AddsRef(ref_compare, m, known, sig_hash', output_num_select)
      BY Zenon, <3>1, WorthAppend
    <3>. QED BY Zenon, <2>3, <3>2 DEF AddsRef
  <2>8. transaction_fee_amount' = Total(Worth(ref_compare', m + 1))
    <3>1. Selected = AmountsRead[output_num_select + 1]
      BY Zenon, <2>5 DEF Selected
    <3>. QED BY Zenon, <1>2, <2>2, <2>4, <2>7, <3>1
  <2>9. Len(ref_compare') = 2 * (m + 1) /\ m + 1 \in 0 .. Len(ref_compare')
    <3>1. Len(ref_compare') = Len(ref_compare) + 1
      BY Zenon, <2>2, <2>5, AppendIs
    <3>. QED BY <2>4, <2>5, <3>1
  <2>10. BetweenInv'
    <3>1. list' = <<>>
      BY Zenon, <1>2, <2>1 DEF InputInv
    <3>. QED BY Zenon, <2>2, <2>7, <2>8, <2>9, <3>1 DEF BetweenInv
  <2>. QED BY Zenon, <1>5, <2>10 DEF Phases, Body, InputFields, OutputFields
<1>. QED BY Zenon, <1>3, <1>4, <1>5 DEF ReadLocktime, ReadMarker, Goto

\* The end of the spending transaction: all of the references were matched.
LEMMA HashtypePhases ==
  ASSUME IInv, NEW v \in Markers, ReadHashtype(v)
  PROVE  Phases'
<1>1. Typed /\ FieldsInv /\ Take("hashtype", v) /\ pc = "hashtype"
  BY Zenon DEF IInv, ReadHashtype, Take
<1>2. CASE Fail("NON_STANDARD") \/ Fail("INVALID_FORMAT")
  BY Zenon, <1>2, FailPhases
<1>3. CASE Goto("rest") /\ transaction_fee' = IF transaction_fee_amount # 0 THEN transaction_fee_amount
                                               ELSE transaction_fee
  <2>1. SpendInv /\ ref_compare = ref_compare_hash
    BY Zenon, <1>1 DEF IInv, Phases, InputInv, SpendInv, Body
  <2>2. UNCHANGED <<list, references, transaction_fee_amount>> /\ transaction_fee' = transaction_fee_amount
    BY Zenon, <1>1, <1>3 DEF ReadHashtype, Typed, Running, Body
  <2>3. /\ AmountsRead' = AmountsRead /\ ScriptsRead' = ScriptsRead
        /\ NumsRead' = NumsRead /\ RefsRead' = RefsRead
        /\ \A f \in ReadFields : Values(transaction_hash', f) = Values(sig_hash', f)
    BY <1>1, TakeFields
  <2>4. /\ Values(transaction_hash', "amount") = AmountsRead
        /\ Values(transaction_hash', "output_script") = ScriptsRead
        /\ Values(transaction_hash', "ref_num") = NumsRead
        /\ Values(transaction_hash', "ref_hash") = RefsRead
    BY Zenon, <2>3 DEF ReadFields, AmountsRead, ScriptsRead, NumsRead, RefsRead
  <2>5. PICK m \in 0 .. Len(ref_compare) :
          /\ Len(ref_compare) = 2 * m
          /\ Refs(ref_compare, m, known)
          /\ Total(Worth(ref_compare, m)) = transaction_fee_amount + Total(AmountsRead)
    BY Zenon, <2>1 DEF SpendInv, Collected
  <2>6. /\ m \in Nat /\ Len(NumsRead) = m /\ Len(RefsRead) = m
        /\ \A k \in 1 .. m : ref_compare[2 * k - 1] = NumsRead[k] /\ ref_compare[2 * k] = RefsRead[k]
    <3>1. m \in Nat /\ Len(NumsRead) \in Nat /\ Len(RefsRead) = Len(NumsRead)
      BY SMTT(30), <1>1, ReadTyped DEF Typed, IsSeq, FieldsInv, Body
    <3>2. Len(ref_compare) = 2 * Len(NumsRead) /\ Paired(ref_compare, NumsRead, RefsRead)
      BY Zenon, <1>1, <2>1 DEF SpendInv
    <3>3. Len(NumsRead) = m
      BY <2>5, <3>1, <3>2
    <3>4. \A k \in 1 .. m : ref_compare[2 * k - 1] = NumsRead[k] /\ ref_compare[2 * k] = RefsRead[k]
      BY Zenon, <3>2, <3>3 DEF Paired
    <3>. QED BY Zenon, <3>1, <3>3, <3>4
  <2>7. \A h : Len(Outputs(h)) = Len(Amounts(h)) \/ Len(Amounts(h)) \notin Nat
    BY DEF Outputs, Amounts
  <2>8. ASSUME NEW n \in 1 .. m
        PROVE  /\ RefsRead[n] \in known /\ NumsRead[n] \in Nat
               /\ NumsRead[n] < Len(Amounts(RefsRead[n]))
               /\ Len(Amounts(RefsRead[n])) \in Nat
    <3>1. /\ RefsRead[n] \in known /\ NumsRead[n] \in Nat
          /\ NumsRead[n] < Len(Amounts(RefsRead[n]))
      BY Zenon, <2>5, <2>6 DEF Refs
    <3>2. Len(Amounts(RefsRead[n])) \in Nat
      BY Zenon, <1>1, <3>1, AmountsTyped DEF Typed, Genuine
    <3>. QED BY Zenon, <3>1, <3>2
  <2>9. \A n \in 1 .. Len(RefsRead') : RefsRead'[n] \in known' /\ NumsRead'[n] < Len(Outputs(RefsRead'[n]))
    <3>1. ASSUME NEW n \in 1 .. m
          PROVE  RefsRead[n] \in known /\ NumsRead[n] < Len(Outputs(RefsRead[n]))
      BY Zenon, <2>7, <2>8
    <3>. QED BY Zenon, <2>2, <2>3, <2>6, <3>1 DEF references
  <2>10. list' = Outputs(transaction_hash')
    <3>1. Len(AmountsRead) = Len(ScriptsRead) /\ Len(list) = Len(ScriptsRead) /\ IsSeq(list)
      BY Zenon, <1>1, <2>1 DEF Typed, FieldsInv, SpendInv, Shown
    <3>2. \A n \in 1 .. Len(AmountsRead) : list[n] = [amount |-> AmountsRead[n], address |-> ScriptsRead[n]]
      BY Zenon, <2>1, <3>1 DEF SpendInv, Shown
    <3>3. list = [n \in 1 .. Len(AmountsRead) |-> list[n]]
      BY Zenon, <3>1 DEF IsSeq
    <3>4. list = [n \in 1 .. Len(AmountsRead) |-> [amount |-> AmountsRead[n], address |-> ScriptsRead[n]]]
      BY Zenon, <3>2, <3>3
    <3>. QED BY Zenon, <2>2, <2>4, <3>4 DEF Outputs
  <2>11. Spent(transaction_hash') = Worth(ref_compare, m)
    <3>1. ASSUME NEW n \in 1 .. m
          PROVE  Outputs(RefsRead[n])[NumsRead[n] + 1].amount
                   = Amounts(ref_compare[2 * n])[ref_compare[2 * n - 1] + 1]
      <4>1. PICK h, k : h = RefsRead[n] /\ k = NumsRead[n] + 1
        BY Zenon
      <4>2. k \in 1 .. Len(Amounts(h))
        BY <2>8, <4>1
      <4>3. Outputs(h)[k].amount = Amounts(h)[k]
        BY Zenon, <4>2 DEF Outputs, Amounts
      <4>. QED BY Zenon, <2>6, <4>1, <4>3
    <3>2. Spent(transaction_hash') =
            [n \in 1 .. m |-> Outputs(RefsRead[n])[NumsRead[n] + 1].amount]
      BY Zenon, <2>4, <2>6 DEF Spent
    <3>. QED BY Zenon, <3>1, <3>2 DEF Worth
  <2>12. AcceptedInv'
    BY Zenon, <2>2, <2>4, <2>5, <2>9, <2>10, <2>11 DEF AcceptedInv
  <2>. QED BY Zenon, <1>3, <2>12 DEF Goto, Phases, Body, InputFields, OutputFields
<1>. QED BY Zenon, <1>2, <1>3 DEF ReadHashtype

\* What was accepted stays so until the next call.
LEMMA RestPhases ==
  ASSUME IInv, ConsumeRest
  PROVE  Phases'
<1>1. CASE result # "NO_ERROR"
  BY Zenon, <1>1 DEF ConsumeRest, Phases, Body, InputFields, OutputFields
<1>2. CASE result = "NO_ERROR"
  <2>1. AcceptedInv
    BY Zenon, <1>2 DEF IInv, Phases, ConsumeRest
  <2>2. /\ UNCHANGED <<list, known, sig_hash, transaction_hash, transaction_fee>>
        /\ pc' \in {"rest", "done"}
    BY Zenon DEF ConsumeRest, references, hashes, ui
  <2>3. AcceptedInv'
    BY Zenon, <2>1, <2>2 DEF AcceptedInv, RefsRead, NumsRead
  <2>. QED BY Zenon, <2>2, <2>3 DEF Phases, Body, InputFields, OutputFields
<1>. QED BY Zenon, <1>1, <1>2

-----------------------------------------------------------------------------
(* How far the data has been read. *)

\* A hash of units whose sizes are known, and the sizes of the input transactions among
\* the first references of c.
Sized(h) == IsSeq(h) /\ \A n \in 1 .. Len(h) : h[n].size \in Nat
Carried(c, m) == [k \in 1 .. m |-> HeaderSize + Size(c[2 * k])]
At(c, m, n) == transaction_data_index = Total(Carried(c, m)) + n
SizedRefs(c, m) == \A k \in 1 .. m : Sized(c[2 * k])

SizeInv ==
    /\ Sized(sig_hash)
    /\ \A h \in known : Sized(h)
    /\ pc \in {"is_ref", "output_num"} => sig_hash = <<>>
    /\ pc \in {"begin", "is_ref"} => \A m \in Nat : Len(ref_compare) = 2 * m => At(ref_compare, m, 0)
    /\ pc = "output_num" =>
        \A m \in Nat : Len(ref_compare) = 2 * m => At(ref_compare, m, FieldSize("is_ref"))
    /\ pc \in Body /\ is_ref =>
        \A m \in Nat : Len(ref_compare) = 2 * m + 1 => At(ref_compare, m, HeaderSize + Size(sig_hash))
    /\ pc \in Body /\ ~is_ref =>
        \A m \in Nat : Len(ref_compare_hash) = 2 * m =>
            At(ref_compare_hash, m, FieldSize("is_ref") + Size(sig_hash))
    /\ pc \in {"rest", "done"} /\ result = "NO_ERROR" =>
        transaction_length = SizeSent(RefsRead) + FieldSize("is_ref") + Size(sig_hash)

LEMMA HeaderSizes ==
  /\ FieldSize("is_ref") \in Nat /\ Sizes["is_ref"] = {FieldSize("is_ref")}
  /\ FieldSize("output_num") \in Nat /\ Sizes["output_num"] = {FieldSize("output_num")}
  /\ HeaderSize \in Nat /\ HeaderSize = FieldSize("is_ref") + FieldSize("output_num")
<1>1. ASSUME NEW field \in Fields \ InPieces
      PROVE  FieldSize(field) \in Nat /\ Sizes[field] = {FieldSize(field)}
  <2>1. PICK n \in Sizes[field] : Sizes[field] = {n}
    BY Zenon, FieldsAssumption
  <2>2. n \in Nat
    BY Zenon, <2>1, FieldsAssumption
  <2>3. FieldSize(field) \in Sizes[field]
    BY Zenon, <2>1 DEF FieldSize
  <2>. QED BY Zenon, <2>1, <2>2, <2>3
<1>2. {"is_ref", "output_num"} \subseteq Fields \ InPieces
  BY Zenon DEF Fields, InPieces
<1>3. /\ FieldSize("is_ref") \in Nat /\ Sizes["is_ref"] = {FieldSize("is_ref")}
      /\ FieldSize("output_num") \in Nat /\ Sizes["output_num"] = {FieldSize("output_num")}
  BY Zenon, <1>1, <1>2
<1>. QED BY <1>3 DEF HeaderSize

\* The sum of numbers is a number.
LEMMA TotalTyped ==
  ASSUME NEW s, IsSeq(s), \A n \in 1 .. Len(s) : s[n] \in Nat
  PROVE  Total(s) \in Nat
<1>1. 0 \in Nat
  OBVIOUS
<1>. QED BY Zenon, <1>1, TotalAppend

\* The size of a hash with one more unit.
LEMMA SizeAppend ==
  ASSUME NEW h, Sized(h), NEW u, u.size \in Nat
  PROVE  /\ Sized(Append(h, u))
         /\ Size(h) \in Nat
         /\ Size(Append(h, u)) = Size(h) + u.size
<1>. DEFINE k == Len(h)
            s == [n \in 1 .. k |-> h[n].size]
            h2 == Append(h, u)
            s2 == [n \in 1 .. k + 1 |-> h2[n].size]
            x == u.size
<1>1. /\ k \in Nat /\ IsSeq(h2) /\ Len(h2) = k + 1 /\ h2[k + 1] = u
      /\ \A n \in 1 .. k : h2[n] = h[n]
  <2>1. IsSeq(h)
    BY Zenon DEF Sized
  <2>2. k \in Nat
    BY Zenon, <2>1 DEF IsSeq
  <2>. QED BY ZenonT(90), <2>1, <2>2, AppendIs
<1>2. \A n \in 1 .. k : h[n].size \in Nat
  BY Zenon DEF Sized
<1>3. x \in Nat /\ Size(h) = Total(s) /\ Size(h2) = Total(s2)
  BY Zenon, <1>1 DEF Size
<1>. HIDE DEF k, h2
<1>4. IsSeq(s) /\ Len(s) = k /\ \A n \in 1 .. k : s[n] \in Nat
  BY <1>1, <1>2 DEF IsSeq
<1>4a. \A n \in 1 .. k : s[n] = h[n].size
  OBVIOUS
<1>5. \A n \in 1 .. k + 1 : s2[n] = h2[n].size
  OBVIOUS
<1>6. s2 = [n \in 1 .. k + 1 |-> s2[n]]
  OBVIOUS
<1>. HIDE DEF s, s2, x
<1>7. PICK e : e = Append(s, x)
  BY Zenon
<1>8. IsSeq(e) /\ Len(e) = k + 1 /\ (\A n \in 1 .. k : e[n] = s[n]) /\ e[k + 1] = x
  BY ZenonT(30), <1>4, <1>7, AppendIs
<1>9. ASSUME NEW n \in 1 .. k + 1
      PROVE  s2[n] = e[n] /\ h2[n].size \in Nat
  <2>1. CASE n \in 1 .. k
    BY Zenon, <1>1, <1>2, <1>4a, <1>5, <1>8, <2>1
  <2>2. CASE n = k + 1
    BY Zenon, <1>1, <1>3, <1>5, <1>8, <2>2 DEF x
  <2>3. n \in 1 .. k \/ n = k + 1
    BY <1>1
  <2>. QED BY Zenon, <2>1, <2>2, <2>3
<1>10. s2 = e
  <2>1. e = [n \in 1 .. k + 1 |-> e[n]]
    BY Zenon, <1>8 DEF IsSeq
  <2>. QED BY Zenon, <1>6, <1>9, <2>1
<1>11. Total(s) \in Nat /\ Total(e) = Total(s) + x
  BY Zenon, <1>3, <1>4, <1>7, TotalAppend
<1>12. Sized(h2)
  BY Zenon, <1>1, <1>9 DEF Sized
<1>. QED BY Zenon, <1>3, <1>10, <1>11, <1>12 DEF h2, x

LEMMA SizeTyped ==
  ASSUME NEW h, Sized(h)
  PROVE  Size(h) \in Nat
<1>1. [size |-> 0].size \in Nat
  BY Zenon, 0 \in Nat
<1>. QED BY Zenon, <1>1, SizeAppend

LEMMA SizeEmpty == Sized(<<>>) /\ Size(<<>>) = 0
<1>1. Len(<<>>) = 0 /\ \A n \in 1 .. 0 : FALSE
  BY EmptyIs
<1>2. Sized(<<>>)
  BY Zenon, <1>1, EmptyIs DEF Sized
<1>3. [n \in 1 .. 0 |-> <<>>[n].size] = <<>>
  BY <1>1
<1>4. Size(<<>>) = Total([n \in 1 .. 0 |-> <<>>[n].size])
  BY Zenon, <1>1 DEF Size
<1>. QED BY Zenon, <1>2, <1>3, <1>4, TotalEmpty

\* The sizes of the input transactions, and of one more.
LEMMA CarriedTyped ==
  ASSUME NEW c, NEW m \in Nat, SizedRefs(c, m)
  PROVE  /\ IsSeq(Carried(c, m)) /\ Len(Carried(c, m)) = m
         /\ \A k \in 1 .. m : Carried(c, m)[k] \in Nat
         /\ Total(Carried(c, m)) \in Nat
<1>1. IsSeq(Carried(c, m)) /\ Len(Carried(c, m)) = m
  BY DEF IsSeq, Carried
<1>2. ASSUME NEW k \in 1 .. m
      PROVE  Carried(c, m)[k] \in Nat
  <2>1. PICK x : x = Size(c[2 * k])
    BY Zenon
  <2>2. x \in Nat
    BY Zenon, <2>1, SizeTyped DEF SizedRefs
  <2>3. Carried(c, m)[k] = HeaderSize + x
    BY Zenon, <2>1 DEF Carried
  <2>. QED BY <2>2, <2>3, HeaderSizes
<1>3. Total(Carried(c, m)) \in Nat
  BY Zenon, <1>1, <1>2, TotalTyped
<1>. QED BY Zenon, <1>1, <1>2, <1>3

LEMMA CarriedKept ==
  ASSUME NEW c, NEW d, NEW m \in Nat, \A n \in 1 .. 2 * m : d[n] = c[n]
  PROVE  Carried(d, m) = Carried(c, m)
<1>1. ASSUME NEW k \in 1 .. m
      PROVE  d[2 * k] = c[2 * k]
  <2>1. 2 * k \in 1 .. 2 * m
    OBVIOUS
  <2>. QED BY Zenon, <2>1
<1>. QED BY Zenon, <1>1 DEF Carried

LEMMA NothingCarried == ASSUME NEW c PROVE Total(Carried(c, 0)) = 0
<1>1. \A k \in 1 .. 0 : FALSE
  OBVIOUS
<1>2. Carried(c, 0) = <<>>
  BY <1>1 DEF Carried
<1>. QED BY Zenon, <1>2, TotalEmpty

LEMMA CarriedAppend ==
  ASSUME NEW c, IsSeq(c), NEW m \in Nat, Len(c) = 2 * m + 1, SizedRefs(c, m), NEW h, Sized(h)
  PROVE  Total(Carried(Append(c, h), m + 1)) = Total(Carried(c, m)) + (HeaderSize + Size(h))
<1>. DEFINE d == Append(c, h)
            x == HeaderSize + Size(h)
            s == Carried(c, m)
            s2 == Carried(d, m + 1)
<1>1. /\ \A j \in 1 .. Len(c) : d[j] = c[j]
      /\ d[Len(c) + 1] = h
  BY ZenonT(30), AppendIs
<1>. HIDE DEF d
<1>2. (\A j \in 1 .. 2 * m : d[j] = c[j]) /\ d[2 * (m + 1)] = h
  <2>1. Len(c) + 1 = 2 * (m + 1) /\ \A j \in 1 .. 2 * m : j \in 1 .. Len(c)
    OBVIOUS
  <2>. QED BY Zenon, <1>1, <2>1
<1>3. Carried(d, m) = s
  BY Zenon, <1>2, CarriedKept
<1>4. IsSeq(s) /\ Len(s) = m /\ \A k \in 1 .. m : s[k] \in Nat
  BY Zenon, CarriedTyped
<1>5. x \in Nat
  BY SizeTyped, HeaderSizes
<1>6. \A k \in 1 .. m + 1 : s2[k] = HeaderSize + Size(d[2 * k])
  BY Zenon DEF Carried
<1>7. \A k \in 1 .. m : s[k] = HeaderSize + Size(d[2 * k])
  BY Zenon, <1>3 DEF Carried
<1>8. s2 = [k \in 1 .. m + 1 |-> s2[k]]
  BY Zenon DEF Carried
<1>9. HeaderSize + Size(d[2 * (m + 1)]) = x
  BY Zenon, <1>2
<1>. HIDE DEF s, s2, x
<1>10. PICK e : e = Append(s, x)
  BY Zenon
<1>11. IsSeq(e) /\ Len(e) = m + 1 /\ (\A n \in 1 .. m : e[n] = s[n]) /\ e[m + 1] = x
  BY ZenonT(30), <1>4, <1>10, AppendIs
<1>12. ASSUME NEW n \in 1 .. m + 1
       PROVE  s2[n] = e[n]
  <2>1. CASE n \in 1 .. m
    BY Zenon, <1>6, <1>7, <1>11, <2>1
  <2>2. CASE n = m + 1
    BY Zenon, <1>6, <1>9, <1>11, <2>2
  <2>3. n \in 1 .. m \/ n = m + 1
    OBVIOUS
  <2>. QED BY Zenon, <2>1, <2>2, <2>3
<1>13. s2 = e
  <2>1. e = [n \in 1 .. m + 1 |-> e[n]]
    BY Zenon, <1>11 DEF IsSeq
  <2>. QED BY Zenon, <1>8, <1>12, <2>1
<1>14. Total(e) = Total(s) + x
  BY Zenon, <1>4, <1>5, <1>10, TotalAppend
<1>. QED BY Zenon, <1>13, <1>14 DEF s2, s, x, d

\* The transactions that references are to have sizes.
LEMMA RefsSized ==
  ASSUME SizeInv, NEW c, NEW m \in Nat, Refs(c, m, known)
  PROVE  SizedRefs(c, m) /\ Total(Carried(c, m)) \in Nat
<1>1. SizedRefs(c, m)
  BY Zenon DEF SizeInv, Refs, SizedRefs
<1>. QED BY Zenon, <1>1, CarriedTyped

\* The lengths say how many references there are.
LEMMA BetweenSized ==
  ASSUME IInv, SizeInv, pc \in {"begin", "is_ref", "output_num"}, NEW m \in Nat, Len(ref_compare) = 2 * m
  PROVE  SizedRefs(ref_compare, m) /\ Total(Carried(ref_compare, m)) \in Nat
<1>1. BetweenInv
  BY Zenon DEF IInv, Phases
<1>2. PICK k \in 0 .. Len(ref_compare) : Len(ref_compare) = 2 * k /\ Refs(ref_compare, k, known)
  BY Zenon, <1>1 DEF BetweenInv
<1>3. k = m
  BY <1>2
<1>. QED BY Zenon, <1>2, <1>3, RefsSized

LEMMA InputSized ==
  ASSUME IInv, SizeInv, pc \in Body, is_ref, NEW m \in Nat, Len(ref_compare) = 2 * m + 1
  PROVE  SizedRefs(ref_compare, m) /\ Total(Carried(ref_compare, m)) \in Nat
<1>1. InputInv
  BY Zenon DEF IInv, Phases
<1>2. PICK k \in 0 .. Len(ref_compare) : Len(ref_compare) = 2 * k + 1 /\ Refs(ref_compare, k, known)
  BY Zenon, <1>1 DEF InputInv
<1>3. k = m
  BY <1>2
<1>. QED BY Zenon, <1>2, <1>3, RefsSized

LEMMA SpendSized ==
  ASSUME IInv, SizeInv, pc \in Body, ~is_ref, NEW m \in Nat, Len(ref_compare_hash) = 2 * m
  PROVE  SizedRefs(ref_compare_hash, m) /\ Total(Carried(ref_compare_hash, m)) \in Nat
<1>1. SpendInv
  BY Zenon DEF IInv, Phases
<1>2. PICK k \in 0 .. Len(ref_compare_hash) :
        Len(ref_compare_hash) = 2 * k /\ Refs(ref_compare_hash, k, known)
  BY Zenon, <1>1 DEF SpendInv, Collected
<1>3. k = m
  BY <1>2
<1>. QED BY Zenon, <1>2, <1>3, RefsSized

\* getTransactionBytes() hashes as many bytes as it reads.
LEMMA TakeSize ==
  ASSUME SizeInv, NEW field \in Body, NEW v, Take(field, v)
  PROVE  /\ Sized(sig_hash') /\ Size(sig_hash) \in Nat
         /\ \E n \in Nat : /\ transaction_data_index' = transaction_data_index + n
                           /\ Size(sig_hash') = Size(sig_hash) + n
<1>1. field \in Fields /\ field \notin Unhashed
  BY Zenon DEF Body, InputFields, OutputFields, Fields, Unhashed
<1>2. PICK n \in Sizes[field] :
        /\ transaction_data_index' = transaction_data_index + n
        /\ sig_hash' = Hashed(sig_hash, field, v, n)
  BY Zenon, <1>1 DEF Take
<1>3. n \in Nat
  BY Zenon, <1>1, FieldsAssumption
<1>4. PICK u : u = [field |-> field, v |-> v, size |-> n]
  BY Zenon
<1>5. u.size = n /\ sig_hash' = Append(sig_hash, u) /\ Sized(sig_hash)
  BY Zenon, <1>2, <1>4 DEF Hashed, SizeInv
<1>. QED BY Zenon, <1>2, <1>3, <1>5, SizeAppend

LEMMA FailSizes ==
  ASSUME NEW error, error # "NO_ERROR", Fail(error), Sized(sig_hash'), \A h \in known' : Sized(h)
  PROVE  SizeInv'
BY Zenon DEF Fail, SizeInv, Body, InputFields, OutputFields

\* A unit of a transaction that is found wrong.
LEMMA TakeFails ==
  ASSUME SizeInv, NEW field \in Body, NEW v, Take(field, v), known' = known,
         NEW error, error # "NO_ERROR", Fail(error)
  PROVE  SizeInv'
<1>1. Sized(sig_hash') /\ \A h \in known' : Sized(h)
  BY Zenon, TakeSize DEF SizeInv
<1>. QED BY Zenon, <1>1, FailSizes

\* A unit of a transaction, with another to follow.
LEMMA BodySizes ==
  ASSUME IInv, SizeInv, NEW field \in Body, NEW v, Take(field, v), pc' \in Body,
         UNCHANGED <<is_ref, ref_compare_hash, known>>, is_ref => ref_compare' = ref_compare
  PROVE  SizeInv'
<1>1. pc = field /\ Typed
  BY Zenon DEF Take, IInv
<1>2. Sized(sig_hash') /\ Size(sig_hash) \in Nat /\ \A h \in known' : Sized(h)
  BY Zenon, TakeSize DEF SizeInv
<1>3. PICK n \in Nat : /\ transaction_data_index' = transaction_data_index + n
                       /\ Size(sig_hash') = Size(sig_hash) + n
  BY Zenon, TakeSize
<1>4. ASSUME is_ref, NEW m \in Nat, Len(ref_compare') = 2 * m + 1
      PROVE  At(ref_compare, m, HeaderSize + Size(sig_hash))'
  <2>1. ref_compare' = ref_compare /\ At(ref_compare, m, HeaderSize + Size(sig_hash))
    BY Zenon, <1>1, <1>4 DEF SizeInv
  <2>2. PICK t : t = Total(Carried(ref_compare, m))
    BY Zenon
  <2>3. t \in Nat
    BY Zenon, <1>1, <1>4, <2>1, <2>2, InputSized
  <2>4. transaction_data_index = t + (HeaderSize + Size(sig_hash))
    BY Zenon, <2>1, <2>2 DEF At
  <2>5. transaction_data_index' = t + (HeaderSize + Size(sig_hash'))
    BY <1>2, <1>3, <2>3, <2>4, HeaderSizes
  <2>. QED BY Zenon, <2>1, <2>2, <2>5 DEF At
<1>5. ASSUME ~is_ref, NEW m \in Nat, Len(ref_compare_hash') = 2 * m
      PROVE  At(ref_compare_hash, m, FieldSize("is_ref") + Size(sig_hash))'
  <2>1. At(ref_compare_hash, m, FieldSize("is_ref") + Size(sig_hash))
    BY Zenon, <1>1, <1>5 DEF SizeInv
  <2>2. PICK t : t = Total(Carried(ref_compare_hash, m))
    BY Zenon
  <2>3. t \in Nat
    BY Zenon, <1>1, <1>5, <2>1, <2>2, SpendSized
  <2>4. transaction_data_index = t + (FieldSize("is_ref") + Size(sig_hash))
    BY Zenon, <2>1, <2>2 DEF At
  <2>5. transaction_data_index' = t + (FieldSize("is_ref") + Size(sig_hash'))
    BY <1>2, <1>3, <2>3, <2>4, HeaderSizes
  <2>. QED BY Zenon, <2>1, <2>2, <2>5 DEF At
<1>6. pc' \notin {"begin", "is_ref", "output_num", "rest", "done"}
  BY Zenon DEF Body, InputFields, OutputFields
<1>. QED BY Zenon, <1>2, <1>4, <1>5, <1>6 DEF SizeInv

\* The header of a transaction is in no hash.
LEMMA IsRefSizes ==
  ASSUME IInv, SizeInv, NEW v \in BOOLEAN, ReadIsRef(v)
  PROVE  SizeInv'
<1>1. pc = "is_ref" /\ Typed /\ sig_hash = <<>>
  BY Zenon DEF IInv, ReadIsRef, Take, SizeInv
<1>2. /\ transaction_data_index' = transaction_data_index + FieldSize("is_ref")
      /\ sig_hash' = sig_hash /\ known' = known
  BY Zenon, HeaderSizes DEF ReadIsRef, Take, Unhashed, references
<1>3. \A m \in Nat : Len(ref_compare) = 2 * m => At(ref_compare, m, 0)
  BY Zenon, <1>1 DEF SizeInv
<1>4. ASSUME NEW m \in Nat, Len(ref_compare) = 2 * m
      PROVE  /\ transaction_data_index' = Total(Carried(ref_compare, m)) + FieldSize("is_ref")
             /\ transaction_data_index' = Total(Carried(ref_compare, m)) + (FieldSize("is_ref") + Size(sig_hash'))
  <2>1. PICK t : t = Total(Carried(ref_compare, m))
    BY Zenon
  <2>2. t \in Nat /\ transaction_data_index = t + 0
    BY Zenon, <1>1, <1>3, <1>4, <2>1, BetweenSized DEF At
  <2>3. Size(sig_hash') = 0
    BY Zenon, <1>1, <1>2, SizeEmpty
  <2>4. transaction_data_index' = t + FieldSize("is_ref")
    BY <1>2, <2>2, HeaderSizes
  <2>5. transaction_data_index' = t + (FieldSize("is_ref") + Size(sig_hash'))
    BY <2>2, <2>3, <2>4, HeaderSizes
  <2>. QED BY Zenon, <2>1, <2>4, <2>5
<1>5. CASE v
  <2>1. pc' = "output_num" /\ ref_compare' = ref_compare
    BY Zenon, <1>5 DEF ReadIsRef, Goto, references
  <2>2. \A m \in Nat : Len(ref_compare') = 2 * m => At(ref_compare, m, FieldSize("is_ref"))'
    BY Zenon, <1>4, <2>1 DEF At
  <2>. QED BY Zenon, <1>1, <1>2, <2>1, <2>2 DEF SizeInv, Body, InputFields, OutputFields
<1>6. CASE ~v
  <2>1. pc' = "version" /\ ~is_ref' /\ ref_compare_hash' = ref_compare
    BY Zenon, <1>6 DEF ReadIsRef, Goto
  <2>2. \A m \in Nat : Len(ref_compare_hash') = 2 * m =>
            At(ref_compare_hash, m, FieldSize("is_ref") + Size(sig_hash))'
    BY Zenon, <1>4, <2>1 DEF At
  <2>. QED BY Zenon, <1>1, <1>2, <2>1, <2>2 DEF SizeInv, Body, InputFields, OutputFields
<1>. QED BY Zenon, <1>5, <1>6

LEMMA OutputNumSizes ==
  ASSUME IInv, SizeInv, NEW v \in OutputNumbers, ReadOutputNum(v)
  PROVE  SizeInv'
<1>1. pc = "output_num" /\ Typed /\ sig_hash = <<>> /\ is_ref
  BY Zenon DEF IInv, Phases, ReadOutputNum, Take, SizeInv
<1>2. /\ transaction_data_index' = transaction_data_index + FieldSize("output_num")
      /\ sig_hash' = sig_hash /\ known' = known /\ is_ref' = is_ref /\ pc' = "version"
      /\ ref_compare' = Append(ref_compare, v)
  BY Zenon, HeaderSizes DEF ReadOutputNum, Goto, Take, Unhashed
<1>3. /\ Len(ref_compare') = Len(ref_compare) + 1 /\ Len(ref_compare) \in Nat
      /\ \A n \in 1 .. Len(ref_compare) : ref_compare'[n] = ref_compare[n]
  <2>1. IsSeq(ref_compare)
    BY Zenon, <1>1 DEF Typed
  <2>2. Len(ref_compare) \in Nat
    BY Zenon, <2>1 DEF IsSeq
  <2>. QED BY Zenon, <1>2, <2>1, <2>2, AppendIs
<1>4. ASSUME NEW m \in Nat, Len(ref_compare') = 2 * m + 1
      PROVE  At(ref_compare, m, HeaderSize + Size(sig_hash))'
  <2>1. Len(ref_compare) = 2 * m
    BY <1>3, <1>4
  <2>2. PICK t : t = Total(Carried(ref_compare, m))
    BY Zenon
  <2>3. t \in Nat /\ transaction_data_index = t + FieldSize("is_ref")
    BY Zenon, <1>1, <2>1, <2>2, BetweenSized DEF SizeInv, At
  <2>4. Total(Carried(ref_compare', m)) = t
    BY Zenon, <1>3, <2>1, <2>2, CarriedKept
  <2>5. Size(sig_hash') = 0
    BY Zenon, <1>1, <1>2, SizeEmpty
  <2>6. transaction_data_index' = t + (HeaderSize + Size(sig_hash'))
    BY <1>2, <2>3, <2>5, HeaderSizes
  <2>. QED BY Zenon, <2>4, <2>6 DEF At
<1>. QED BY Zenon, <1>1, <1>2, <1>4 DEF SizeInv, Body, InputFields, OutputFields

\* The end of an input transaction.
LEMMA LocktimeSizes ==
  ASSUME IInv, SizeInv, NEW v \in Markers, ReadLocktime(v)
  PROVE  SizeInv'
<1>1. Take("locktime", v) /\ pc = "locktime" /\ Typed /\ "locktime" \in Body
  BY Zenon DEF IInv, ReadLocktime, ReadMarker, Take, Body
<1>2. CASE Fail("NON_STANDARD")
  <2>1. known' = known
    BY Zenon, <1>2 DEF ReadLocktime, Fail, references
  <2>. QED BY Zenon, <1>1, <1>2, <2>1, TakeFails
<1>3. CASE pc' = "hashtype" /\ ~is_ref
  <2>1. UNCHANGED <<is_ref, ref_compare_hash, known>> /\ pc' \in Body
    BY Zenon, <1>3 DEF ReadLocktime, references, Body
  <2>. QED BY Zenon, <1>1, <1>3, <2>1, BodySizes
<1>4. CASE pc' = "begin" /\ is_ref
  <2>1. ref_compare' = Append(ref_compare, sig_hash') /\ known' = known \cup {sig_hash'}
    BY Zenon, <1>4 DEF ReadLocktime
  <2>2. Sized(sig_hash') /\ Size(sig_hash) \in Nat /\ IsSeq(ref_compare)
    BY Zenon, <1>1, TakeSize DEF Typed
  <2>3. PICK n \in Nat : /\ transaction_data_index' = transaction_data_index + n
                         /\ Size(sig_hash') = Size(sig_hash) + n
    BY Zenon, <1>1, TakeSize
  <2>4. Len(ref_compare') = Len(ref_compare) + 1 /\ Len(ref_compare) \in Nat
    <3>1. Len(ref_compare) \in Nat
      BY Zenon, <2>2 DEF IsSeq
    <3>. QED BY Zenon, <2>1, <2>2, <3>1, AppendIs
  <2>5. ASSUME NEW j \in Nat, Len(ref_compare') = 2 * j
        PROVE  At(ref_compare, j, 0)'
    <3>1. PICK m \in Nat : j = m + 1
      <4>1. j - 1 \in Nat /\ j = (j - 1) + 1
        BY <2>4, <2>5
      <4>. QED BY Zenon, <4>1
    <3>2. Len(ref_compare) = 2 * m + 1
      BY <2>4, <2>5, <3>1
    <3>3. PICK t : t = Total(Carried(ref_compare, m))
      BY Zenon
    <3>4. t \in Nat /\ SizedRefs(ref_compare, m)
      BY Zenon, <1>1, <1>4, <3>2, <3>3, InputSized
    <3>5. transaction_data_index = t + (HeaderSize + Size(sig_hash))
      BY Zenon, <1>1, <1>4, <3>2, <3>3 DEF SizeInv, At
    <3>6. Total(Carried(ref_compare', m + 1)) = t + (HeaderSize + Size(sig_hash'))
      <4>1. PICK h : h = sig_hash'
        BY Zenon
      <4>2. Sized(h) /\ ref_compare' = Append(ref_compare, h)
        BY Zenon, <2>1, <2>2, <4>1
      <4>3. Total(Carried(Append(ref_compare, h), m + 1)) = Total(Carried(ref_compare, m)) + (HeaderSize + Size(h))
        BY ZenonT(30), <2>2, <3>2, <3>4, <4>2, CarriedAppend
      <4>. QED BY Zenon, <3>3, <4>1, <4>2, <4>3
    <3>7. transaction_data_index' = Total(Carried(ref_compare', m + 1)) + 0
      BY <2>2, <2>3, <3>4, <3>5, <3>6, HeaderSizes
    <3>. QED BY Zenon, <3>1, <3>7 DEF At
  <2>6. \A h \in known' : Sized(h)
    BY Zenon, <2>1, <2>2 DEF SizeInv
  <2>. QED BY Zenon, <1>4, <2>2, <2>5, <2>6 DEF SizeInv, Body, InputFields, OutputFields
<1>. QED BY Zenon, <1>2, <1>3, <1>4 DEF ReadLocktime, ReadMarker, Goto

\* The end of the spending transaction is the end of the data.
LEMMA HashtypeSizes ==
  ASSUME IInv, SizeInv, NEW v \in Markers, ReadHashtype(v)
  PROVE  SizeInv'
<1>1. Take("hashtype", v) /\ pc = "hashtype" /\ Typed /\ FieldsInv /\ "hashtype" \in Body /\ known' = known
  BY Zenon DEF IInv, ReadHashtype, references, Take, Body
<1>2. CASE Fail("NON_STANDARD") \/ Fail("INVALID_FORMAT")
  BY Zenon, <1>1, <1>2, TakeFails
<1>3. CASE Goto("rest") /\ isEndOfTransactionData'
  <2>1. ~is_ref /\ SpendInv /\ ref_compare = ref_compare_hash
    BY Zenon, <1>1 DEF IInv, Phases, InputInv, SpendInv
  <2>2. Sized(sig_hash') /\ Size(sig_hash) \in Nat /\ \A h \in known' : Sized(h)
    BY Zenon, <1>1, TakeSize DEF SizeInv
  <2>3. PICK n \in Nat : /\ transaction_data_index' = transaction_data_index + n
                         /\ Size(sig_hash') = Size(sig_hash) + n
    BY Zenon, <1>1, TakeSize
  <2>4. PICK m \in Nat : m = Len(RefsRead)
    BY Zenon, <1>1, ReadTyped
  <2>5. /\ Len(ref_compare_hash) = 2 * m
        /\ \A k \in 1 .. m : ref_compare_hash[2 * k] = RefsRead[k]
    <3>1. Len(NumsRead) = m
      BY Zenon, <1>1, <2>4 DEF FieldsInv
    <3>. QED BY Zenon, <1>1, <2>1, <3>1 DEF SpendInv, Paired
  <2>6. Carried(ref_compare_hash, m) = [k \in 1 .. Len(RefsRead) |-> HeaderSize + Size(RefsRead[k])]
    BY Zenon, <2>4, <2>5 DEF Carried
  <2>7. PICK t : t = SizeSent(RefsRead)
    BY Zenon
  <2>8. t = Total(Carried(ref_compare_hash, m))
    BY Zenon, <2>6, <2>7 DEF SizeSent
  <2>9. t \in Nat /\ transaction_data_index = t + (FieldSize("is_ref") + Size(sig_hash))
    BY Zenon, <1>1, <2>1, <2>5, <2>8, SpendSized DEF SizeInv, At
  <2>10. transaction_length' = transaction_data_index'
    <3>1. Typed'
      BY Zenon, TypedNext DEF Next, Step
    <3>2. transaction_data_index' \in 0 .. transaction_length' /\ transaction_length' \in Nat
      BY SMTT(20), <3>1, SizesAssumption DEF Typed, TypeOK
    <3>. QED BY <1>3, <3>2 DEF isEndOfTransactionData
  <2>11. RefsRead' = RefsRead
    BY <1>1, TakeFields
  <2>12. transaction_length' = t + FieldSize("is_ref") + Size(sig_hash')
    BY <2>2, <2>3, <2>9, <2>10, HeaderSizes
  <2>13. (transaction_length = SizeSent(RefsRead) + FieldSize("is_ref") + Size(sig_hash))'
    BY Zenon, <2>7, <2>11, <2>12
  <2>. QED BY Zenon, <1>3, <2>2, <2>13 DEF Goto, SizeInv, Body, InputFields, OutputFields
<1>. QED BY Zenon, <1>2, <1>3 DEF ReadHashtype

LEMMA InitSizes == Init => SizeInv
BY Zenon, SizeEmpty DEF Init, SizeInv, Body, InputFields, OutputFields

\* One step for each action.
LEMMA NextSizes ==
  ASSUME IInv, SizeInv, Next
  PROVE  SizeInv'
<1>. Typed
  BY Zenon DEF IInv
<1>0. CASE parseTransaction
  <2>1. /\ pc' = "begin" /\ sig_hash' = <<>> /\ ref_compare' = <<>> /\ known' = {}
        /\ transaction_data_index' = 0
    BY Zenon, <1>0 DEF parseTransaction
  <2>2. ASSUME NEW m \in Nat, Len(ref_compare') = 2 * m
        PROVE  At(ref_compare, m, 0)'
    <3>1. m = 0
      BY <2>1, <2>2, EmptyIs
    <3>2. Total(Carried(ref_compare', m)) = 0
      BY Zenon, <3>1, NothingCarried
    <3>3. transaction_data_index' = Total(Carried(ref_compare', m)) + 0
      BY <2>1, <3>2
    <3>. QED BY Zenon, <3>3 DEF At
  <2>. QED BY Zenon, <2>1, <2>2, SizeEmpty DEF SizeInv, Body, InputFields, OutputFields
<1>1. CASE BeginTransaction
  <2>1. pc = "begin" /\ sig_hash' = <<>> /\ UNCHANGED <<transaction_data_index, ref_compare, known>>
    BY Zenon, <1>1 DEF BeginTransaction, references
  <2>2. Sized(sig_hash') /\ \A h \in known' : Sized(h)
    BY Zenon, <2>1, SizeEmpty DEF SizeInv
  <2>3. CASE Fail("TOO_LARGE")
    BY Zenon, <2>2, <2>3, FailSizes
  <2>4. CASE pc' = "is_ref"
    <3>1. \A m \in Nat : Len(ref_compare') = 2 * m => At(ref_compare, m, 0)'
      BY Zenon, <2>1 DEF SizeInv, At
    <3>. QED BY Zenon, <2>1, <2>2, <2>4, <3>1 DEF SizeInv, Body, InputFields, OutputFields
  <2>. QED BY Zenon, <1>1, <2>3, <2>4 DEF BeginTransaction, Goto
<1>. DEFINE Kept == UNCHANGED <<is_ref, ref_compare_hash, known>> /\ (is_ref => ref_compare' = ref_compare)
<1>2. ASSUME NEW field \in Body, NEW v, Take(field, v), Kept,
             pc' \in Body \/ \E error : error # "NO_ERROR" /\ Fail(error)
      PROVE  SizeInv'
  BY Zenon, <1>2, BodySizes, TakeFails
<1>3. ASSUME NEW v \in Markers, ReadVersion(v)
      PROVE  SizeInv'
  <2>1. Take("version", v) /\ Kept /\ (Goto("num_inputs") \/ Fail("NON_STANDARD"))
    BY Zenon, <1>3 DEF ReadVersion, ReadMarker, references
  <2>. QED BY Zenon, <1>2, <2>1 DEF Goto, Body
<1>4. ASSUME NEW v, ReadNumInputs(v)
      PROVE  SizeInv'
  <2>1. /\ Take("num_inputs", v) /\ Kept
        /\ Goto("ref_hash") \/ Fail("INVALID_FORMAT") \/ Fail("TOO_MANY_INPUTS")
    BY Zenon, <1>4 DEF ReadNumInputs, references
  <2>. QED BY Zenon, <1>2, <2>1 DEF Goto, Body, InputFields
<1>5. ASSUME NEW v, ReadRefHash(v)
      PROVE  SizeInv'
  <2>1. Take("ref_hash", v) /\ Kept /\ Goto("ref_num")
    BY Zenon, <1>5 DEF ReadRefHash
  <2>. QED BY Zenon, <1>2, <2>1 DEF Goto, Body, InputFields
<1>6. ASSUME NEW v, ReadRefNum(v)
      PROVE  SizeInv'
  <2>1. Take("ref_num", v) /\ Kept /\ Goto("input_script")
    BY Zenon, <1>6 DEF ReadRefNum
  <2>. QED BY Zenon, <1>2, <2>1 DEF Goto, Body, InputFields
<1>7. ASSUME NEW v, ReadInputScript(v)
      PROVE  SizeInv'
  <2>1. Take("input_script", v) /\ Kept /\ (Goto("sequence") \/ Fail("INVALID_FORMAT"))
    BY Zenon, <1>7 DEF ReadInputScript, references
  <2>. QED BY Zenon, <1>2, <2>1 DEF Goto, Body, InputFields
<1>8. ASSUME NEW v, ReadSequence(v)
      PROVE  SizeInv'
  <2>1. /\ Take("sequence", v) /\ Kept
        /\ Goto("ref_hash") \/ Goto("num_outputs") \/ Fail("NON_STANDARD") \/ Fail("INVALID_REFERENCE")
    BY Zenon, <1>8 DEF ReadSequence, references
  <2>. QED BY Zenon, <1>2, <2>1 DEF Goto, Body, InputFields
<1>9. ASSUME NEW v, ReadNumOutputs(v)
      PROVE  SizeInv'
  <2>1. /\ Take("num_outputs", v) /\ Kept
        /\ Goto("amount") \/ \E error : error # "NO_ERROR" /\ Fail(error)
    BY Zenon, <1>9 DEF ReadNumOutputs, references
  <2>. QED BY Zenon, <1>2, <2>1 DEF Goto, Body, OutputFields
<1>10. ASSUME NEW v, ReadAmount(v)
       PROVE  SizeInv'
  <2>1. Take("amount", v) /\ Kept /\ (Goto("output_script") \/ Fail("INVALID_AMOUNT"))
    BY Zenon, <1>10 DEF ReadAmount, references
  <2>. QED BY Zenon, <1>2, <2>1 DEF Goto, Body, OutputFields
<1>11. ASSUME NEW v, ReadOutputScript(v)
       PROVE  SizeInv'
  <2>1. /\ Take("output_script", v) /\ Kept
        /\ Goto("amount") \/ Goto("locktime") \/ \E error : error # "NO_ERROR" /\ Fail(error)
    BY Zenon, <1>11 DEF ReadOutputScript, references
  <2>. QED BY Zenon, <1>2, <2>1 DEF Goto, Body, OutputFields
<1>12. CASE Truncated
  <2>1. Fail("INVALID_FORMAT") /\ sig_hash' = sig_hash /\ known' = known
    BY Zenon, <1>12 DEF Truncated, hashes, references
  <2>2. Sized(sig_hash') /\ \A h \in known' : Sized(h)
    BY Zenon, <2>1 DEF SizeInv
  <2>. QED BY Zenon, <2>1, <2>2, FailSizes
<1>13. CASE ConsumeRest
  <2>1. /\ pc = "rest" /\ pc' \in {"rest", "done"}
        /\ UNCHANGED <<transaction_length, result, sig_hash, known>>
    BY Zenon, <1>13 DEF ConsumeRest, hashes, references
  <2>. QED BY Zenon, <2>1 DEF SizeInv, RefsRead, Body, InputFields, OutputFields
<1>. QED
  BY Zenon, <1>0, <1>1, <1>3, <1>4, <1>5, <1>6, <1>7, <1>8, <1>9, <1>10, <1>11, <1>12, <1>13,
     IsRefSizes, OutputNumSizes, LocktimeSizes, HashtypeSizes DEF Next, Step

-----------------------------------------------------------------------------
(* The theorems. *)

LEMMA InitIInv == Init => IInv
<1>. SUFFICES ASSUME Init PROVE IInv
  BY Zenon
<1>. USE DEF Init
<1>1. Typed
  <2>1. Genuine({})
    BY Zenon DEF Genuine
  <2>2. 0 \in 0 .. AmountLimit - 1 /\ 0 \in 0 .. 0 /\ 0 <= LIST_SIZE
    BY SizesAssumption
  <2>. QED BY Zenon, <2>1, <2>2, EmptyIs DEF Typed, TypeOK, Running, Body, InputFields, OutputFields
<1>2. FieldsInv
  <2>1. AmountsRead = <<>> /\ \A f \in ReadFields : Values(transaction_hash, f) = Values(sig_hash, f)
    BY Zenon, ValuesEmpty DEF AmountsRead
  <2>2. \A n \in 1 .. Len(AmountsRead) : AmountsRead[n] \in Nat
    BY <2>1, EmptyIs
  <2>. QED BY Zenon, <2>1, <2>2 DEF FieldsInv, Body, InputFields, OutputFields
<1>3. Phases
  BY Zenon DEF Phases, Body, InputFields, OutputFields
<1>. QED BY Zenon, <1>1, <1>2, <1>3 DEF IInv

LEMMA StutterIInv ==
  ASSUME IInv, UNCHANGED vars
  PROVE  IInv'
<1>1. /\ UNCHANGED <<pc, transaction_length, transaction_data_index, result, is_ref, output_num_select>>
      /\ UNCHANGED <<num_inputs, num_outputs, i, sig_hash, transaction_hash>>
      /\ UNCHANGED <<ref_compare, ref_compare_hash, known, transaction_fee_amount, list, transaction_fee>>
  BY Zenon DEF vars, counters, hashes, references, ui
<1>2. Typed'
  BY Zenon, <1>1 DEF IInv, Typed, TypeOK
<1>3. /\ AmountsRead' = AmountsRead /\ ScriptsRead' = ScriptsRead
      /\ NumsRead' = NumsRead /\ RefsRead' = RefsRead
  BY Zenon, <1>1 DEF AmountsRead, ScriptsRead, NumsRead, RefsRead
<1>4. FieldsInv'
  BY Zenon, <1>1, <1>3 DEF IInv, FieldsInv
<1>5. /\ BetweenInv' <=> BetweenInv
      /\ InputInv' <=> InputInv
      /\ SpendInv' <=> SpendInv
      /\ AcceptedInv' <=> AcceptedInv
  BY Zenon, <1>1, <1>3 DEF BetweenInv, InputInv, Selected, SpendInv, Shown, Collected, AcceptedInv
<1>6. Phases'
  BY Zenon, <1>1, <1>5 DEF IInv, Phases
<1>. QED BY Zenon, <1>2, <1>4, <1>6 DEF IInv

LEMMA NextIInv == IInv /\ [Next]_vars => IInv'
<1>. SUFFICES ASSUME IInv, [Next]_vars PROVE IInv'
  BY Zenon
<1>1. CASE UNCHANGED vars
  BY Zenon, <1>1, StutterIInv
<1>2. CASE Next
  <2>1. Truncated => Phases'
    <3>1. "INVALID_FORMAT" # "NO_ERROR"
      BY Zenon
    <3>. QED BY Zenon, <3>1, FailPhases DEF Truncated
  <2>2. Step => Phases'
    BY Zenon, <2>1, BeginPhases, IsRefPhases, OutputNumPhases, VersionPhases, NumInputsPhases,
       RefHashPhases, RefNumPhases, InputScriptPhases, SequencePhases, NumOutputsPhases,
       AmountPhases, OutputScriptPhases, LocktimePhases, HashtypePhases, RestPhases DEF Step
  <2>4. Phases'
    BY ZenonT(30), <1>2, <2>2, StartPhases DEF Next
  <2>. QED BY Zenon, <1>2, <2>4, TypedNext, FieldsNext DEF IInv
<1>. QED BY Zenon, <1>1, <1>2

LEMMA Invariance == Spec => []IInv
BY InitIInv, NextIInv, PTL DEF Spec

\* Whatever the host sends and wherever the data ends, parseTransaction() reads no more
\* than was announced, and neither a count, nor the fee, nor the list of the user interface
\* leaves its range.
THEOREM ParserTypes == Spec => []TypeOK
<1>1. IInv => TypeOK
  BY Zenon DEF IInv, Typed
<1>. QED BY <1>1, Invariance, PTL

LEMMA SizesInvariance == Spec => [](IInv /\ SizeInv)
<1>1. IInv /\ SizeInv /\ [Next]_vars => SizeInv'
  <2>. SUFFICES ASSUME IInv, SizeInv, [Next]_vars PROVE SizeInv'
    BY Zenon
  <2>1. CASE UNCHANGED vars
    BY Zenon, <2>1 DEF vars, counters, hashes, references, ui, SizeInv, At, RefsRead
  <2>. QED BY Zenon, <2>1, NextSizes
<1>. QED BY <1>1, InitIInv, InitSizes, NextIInv, PTL DEF Spec

\* Whenever parseTransaction() returns, whether it accepts or not, it has read exactly the
\* announced data.  For fields of any sizes and any number of transactions: the data that
\* it accepts is the headers, the input transactions that the inputs refer to by their
\* hashes, and what is in the signature hash, and not a byte more.
THEOREM DataIsConsumed == Spec => []AllRead
<1>1. IInv /\ SizeInv => AllRead
  BY Zenon DEF IInv, Typed, SizeInv, RefsRead, Accepted, AllRead
<1>. QED BY <1>1, SizesInvariance, PTL

\* For any number of inputs: each refers to an input transaction that was sent for it,
\* by the hash of its contents, and to an output that it has.
THEOREM ReferencesAreKnown == Spec => []InputsAreKnown
<1>1. IInv => InputsAreKnown
  BY Zenon DEF IInv, Phases, AcceptedInv, InputsAreKnown, Accepted, RefsRead, NumsRead
<1>. QED BY <1>1, Invariance, PTL

\* For any number of inputs and outputs and any amounts: the outputs that the user saw are
\* those of the transaction hash that they approve, and the fee that they saw is what
\* the inputs are worth less what the outputs take.
THEOREM UserSeesTransaction == Spec => []ShownIsHashed
<1>1. IInv => ShownIsHashed
  BY Zenon DEF IInv, Phases, AcceptedInv, ShownIsHashed, Accepted
<1>. QED BY <1>1, Invariance, PTL
=============================================================================
