--------------------------- MODULE KeyDerivation ---------------------------
(***************************************************************************)
(* HMAC, the HMAC_DRBG of hmac_drbg.c and the PBKDF2 of pbkdf2.c, over     *)
(* ideal hash functions: "hashed" lists the inputs that were hashed so     *)
(* far, and a new input gets a new value.                                  *)
(*                                                                         *)
(* A byte array is a sequence of pieces.  A piece is a number: a hash      *)
(* value (its place in "hashed") or, if negative, some known data.         *)
(***************************************************************************)
EXTENDS Integers, Sequences, SequencesExt, FiniteSetsExt

CONSTANTS
    HashLength,     \* [{"SHA-256", "SHA-512"} -> Nat]: length of a hash value, half a block
    Seeds,          \* data given by the callers, as negative numbers
    Lengths,        \* [Seeds -> Nat]: their lengths in bytes
    Iterations,     \* getPBKDF2Iterations()
    MaxCalls        \* bound on calls

VARIABLES
    hashed,     \* the inputs of the hash functions, in the order of their first use
    cell,       \* the arrays: key and v of a HMACDRBGState, u and the password of pbkdf2()
    plan,       \* the calls of hmacSha256() or hmacSha512() that the current call still makes
    out,        \* the result of pbkdf2() so far: the hash values exclusive-or-ed into it
    given,      \* history: seeds mixed into the state, since its instantiation
    outputs,    \* history: pieces returned by drbgGenerate() since then
    derived,    \* history: results of pbkdf2() with their inputs
    calls       \* calls made

vars == <<hashed, cell, plan, out, given, outputs, derived, calls>>

(* Pieces that the code itself provides. *)
Zeros == -1         \* a hash value's length of zeros
Ones == -2          \* the same of ones
Byte0 == -3         \* 0x00, as the last byte of temp
Byte1 == -4         \* 0x01
Int1 == -5          \* the block number of PBKDF2, four bytes
Padding == -6       \* zeros after a short key

PieceLength(f, p) ==
    CASE p > 0 \/ p \in {Zeros, Ones} -> HashLength[f]
      [] p \in {Byte0, Byte1} -> 1
      [] p = Int1 -> 4
      [] OTHER -> Lengths[p]

LengthOf(f, pieces) == FoldLeft(LAMBDA n, p : n + PieceLength(f, p), 0, pieces)

(* A hash function f: the value of an input and the inputs known then. *)
Hash(known, f, input) ==
    LET entry == [f |-> f, input |-> input]
    IN  IF entry \in Range(known)
          THEN [known |-> known, value |-> CHOOSE n \in DOMAIN known : known[n] = entry]
          ELSE [known |-> Append(known, entry), value |-> Len(known) + 1]

(* An array, each byte exclusive-or-ed with a constant. *)
Masked(pieces, mask) == [n \in DOMAIN pieces |-> <<pieces[n], mask>>]

Plain(pieces) == Masked(pieces, 0)

(* The key as HMAC uses it: padded to a block, or hashed if it is longer.  *)
PaddedKey(known, f, key) ==
    LET hash == Hash(known, f, Plain(key))
        pad(pieces) == IF LengthOf(f, pieces) = 2 * HashLength[f] THEN pieces ELSE pieces \o <<Padding>>
    IN  IF LengthOf(f, key) > 2 * HashLength[f]
          THEN [known |-> hash.known, key |-> pad(<<hash.value>>)]
          ELSE [known |-> known, key |-> pad(key)]

(* HMAC of a text. *)
Hmac(known, f, key, text) ==
    LET padded == PaddedKey(known, f, key)
        inner == Hash(padded.known, f, Masked(padded.key, 54) \o Plain(text))
    IN  Hash(inner.known, f, Masked(padded.key, 92) \o Plain(<<inner.value>>))

hmacSha256(known, key, text) == Hmac(known, "SHA-256", key, text)

(* Mutation: the inner hash leaves out the key. *)
hmacUnkeyed(known, key, text) ==
    LET inner == Hash(known, "SHA-512", Plain(text))
    IN  Hash(inner.known, "SHA-512", Plain(<<inner.value>>))

hmacSha512(known, key, text) == Hmac(known, "SHA-512", key, text)

(* A call of HMAC in a plan.  The text is the array "from" followed by     *)
(* more pieces; the result goes to the array "to", which may be the key's  *)
(* or the text's, and then to "emit".                                      *)
Hash256(to, more, emit) ==
    [f |-> "SHA-256", to |-> to, key |-> "key", from |-> "v", more |-> more, emit |-> emit]

Hash512 == [f |-> "SHA-512", to |-> "u", key |-> "password", from |-> "u", more |-> <<>>, emit |-> "xor"]

Step ==
    /\ plan # <<>>
    /\ LET c == Head(plan)
           text == cell[c.from] \o c.more
           result == IF c.f = "SHA-256" THEN hmacSha256(hashed, cell[c.key], text)
                                        ELSE hmacSha512(hashed, cell[c.key], text)
       IN  /\ hashed' = result.known
           /\ cell' = [cell EXCEPT ![c.to] = <<result.value>>]
           /\ outputs' = IF c.emit = "output" THEN Append(outputs, result.value) ELSE outputs
           /\ out' = IF c.emit = "xor" THEN SymDiff(out, {result.value}) ELSE out
    /\ plan' = Tail(plan)
    /\ UNCHANGED <<given, derived, calls>>

(* A call begins. *)
Call(p) ==
    /\ plan = <<>> /\ out = {} /\ calls < MaxCalls
    /\ calls' = calls + 1 /\ plan' = p
-----------------------------------------------------------------------------
(* No data, which is not the same as empty data. *)
NULL == <<0>>

(* drbgUpdate(): K = HMAC(K, V || 0x00 || data), V = HMAC(K, V), and the   *)
(* same with 0x01 if there is provided data.                               *)
drbgUpdate(data) ==
    LET half(byte, d) == <<Hash256("key", <<byte>> \o d, ""), Hash256("v", <<>>, "")>>
    IN  IF data = NULL THEN half(Byte0, <<>>) ELSE half(Byte0, data) \o half(Byte1, data)

drbgInstantiate(seed) ==
    /\ Call(drbgUpdate(<<seed>>))
    /\ cell' = [cell EXCEPT !["key"] = <<Zeros>>, !["v"] = <<Ones>>]
    /\ given' = {seed} /\ outputs' = <<>>
    /\ UNCHANGED <<hashed, out, derived>>

Instantiated == given # {}

(* Mutation: a reseed starts from a new key. *)
ReseedAnew(seed) ==
    /\ Instantiated
    /\ Call(drbgUpdate(<<seed>>))
    /\ cell' = [cell EXCEPT !["key"] = <<Zeros>>, !["v"] = <<Ones>>]
    /\ given' = given \cup {seed}
    /\ UNCHANGED <<hashed, out, outputs, derived>>

drbgReseed(seed) ==
    /\ Instantiated
    /\ Call(drbgUpdate(<<seed>>))
    /\ given' = given \cup {seed}
    /\ UNCHANGED <<hashed, cell, out, outputs, derived>>

(* The loop of drbgGenerate(): V = HMAC(K, V), once for each hash value    *)
(* that is asked for.                                                      *)
Rounds(rounds) == [n \in 1 .. rounds |-> Hash256("v", <<>>, "output")]

(* Mutation: the last update is left out. *)
GenerateOnly(rounds, input) ==
    /\ Instantiated
    /\ Call((IF input = NULL THEN <<>> ELSE drbgUpdate(input)) \o Rounds(rounds))
    /\ given' = IF input = NULL THEN given ELSE given \cup Range(input)
    /\ UNCHANGED <<hashed, cell, out, outputs, derived>>

drbgGenerate(rounds, input) ==
    /\ Instantiated
    /\ Call((IF input = NULL THEN <<>> ELSE drbgUpdate(input)) \o Rounds(rounds) \o drbgUpdate(input))
    /\ given' = IF input = NULL THEN given ELSE given \cup Range(input)
    /\ UNCHANGED <<hashed, cell, out, outputs, derived>>
-----------------------------------------------------------------------------
(* pbkdf2(): u = salt || 1, and then u = HMAC(password, u), out ^= u in    *)
(* each iteration.  "Salt too long" is a fatal error: nothing follows.     *)
pbkdf2(password, salt) ==
    /\ PieceLength("SHA-512", salt) <= HashLength["SHA-512"] - 4
    /\ Call([n \in 1 .. Iterations |-> Hash512])
    /\ cell' = [cell EXCEPT !["password"] = <<password>>, !["u"] = <<salt, Int1>>]
    /\ derived' = derived \cup {[password |-> password, salt |-> salt, out |-> {}]}
    /\ UNCHANGED <<hashed, out, given, outputs>>

(* pbkdf2() returns. *)
Derived ==
    /\ plan = <<>> /\ out # {}
    /\ LET new == CHOOSE d \in derived : d.out = {}
       IN  derived' = (derived \ {new}) \cup {[new EXCEPT !.out = out]}
    /\ out' = {}
    /\ cell' = [cell EXCEPT !["password"] = <<>>, !["u"] = <<>>]
    /\ UNCHANGED <<hashed, plan, given, outputs, calls>>

Init ==
    /\ hashed = <<>> /\ plan = <<>> /\ out = {}
    /\ given = {} /\ outputs = <<>> /\ derived = {} /\ calls = 0
    /\ cell = [a \in {"key", "v", "u", "password"} |-> <<>>]

Next ==
    \/ Step
    \/ Derived
    \/ \E seed \in Seeds : drbgInstantiate(seed)
    \/ \E seed \in Seeds : drbgReseed(seed)
    \/ \E rounds \in 1 .. 2, input \in {NULL, <<>>} \cup {<<seed>> : seed \in Seeds} :
           drbgGenerate(rounds, input)
    \/ \E password, salt \in Seeds : pbkdf2(password, salt)

Spec == Init /\ [][Next]_vars
-----------------------------------------------------------------------------
(* For each hash value the data it was made from. *)
Sources ==
    FoldLeft(LAMBDA known, entry :
                 Append(known, UNION {IF m[1] > 0 THEN known[m[1]] ELSE {m[1]} : m \in Range(entry.input)}),
             <<>>, hashed)

(* The hash values that can be computed from those in "start" without      *)
(* knowing a seed.                                                         *)
Computable(start) ==
    FoldLeft(LAMBDA known, n :
                 IF \A m \in Range(hashed[n].input) : m[1] \in known \/ (m[1] < 0 /\ m[1] \notin Seeds)
                   THEN known \cup {n} ELSE known,
             start, [n \in DOMAIN hashed |-> n])

(* A state of the HMAC_DRBG keeps all entropy it was ever given: "the DRBG *)
(* instantiation will still retain any previous entropy" (hmac_drbg.c).    *)
(* No output comes twice, and from the state left behind no output already *)
(* returned can be computed.  A key from pbkdf2() depends on password and  *)
(* salt alone, differs for any other pair, and no iteration cancels        *)
(* another.                                                                *)
KeysKeepApart ==
    /\ Instantiated /\ plan = <<>> =>
           LET held == Range(cell["key"] \o cell["v"])
               sources == Sources
           IN  /\ \A p \in held : given \subseteq sources[p]
               /\ IsInjective(outputs)
               /\ Range(outputs) \cap Computable(held) = {}
    /\ \A a, b \in derived :
           a.out # {} /\ b.out # {} =>
               ((a.out = b.out) <=> (a.password = b.password /\ a.salt = b.salt))
    /\ \A a \in derived : a.out # {} => Cardinality(a.out) = Iterations
=============================================================================
