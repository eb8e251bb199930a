---------------------------- MODULE FundingScript ----------------------------
(***************************************************************************)
(* ContentStore::funding_script (src/src/store.rs): the script that locks  *)
(* a funding output, <term> OP_CSV OP_DROP <tweaked key> OP_CHECKSIG, as   *)
(* the byte sequence rust-bitcoin's script Builder emits for it.  A        *)
(* counterparty recognises the output by parsing these bytes, and          *)
(* OP_CHECKSEQUENCEVERIFY reads the term as a minimally encoded script     *)
(* number; both are checked for every term of a bounded set that holds     *)
(* each encoding boundary of the u16 range.                                *)
(***************************************************************************)
EXTENDS Integers, Sequences

CONSTANTS
    Keys,      \* tweaked public keys
    KeyBytes,  \* [Keys -> Seq(0..255)], PublicKey::to_bytes
    Terms      \* the terms (u16) a caller may ask for

ASSUME Terms \subseteq 0 .. 65535

OP_0 == 0
OP_PUSHDATA1 == 76
OP_1NEGATE == 79
OP_1 == 81
OP_16 == 96
OP_DROP == 117
OP_CHECKSIG == 172
OP_CSV == 178

VARIABLES term, key

-----------------------------------------------------------------------------
(* rust-bitcoin's Builder                                                  *)

\* The little-endian bytes of abs while it exceeds one byte, as the loop
\* of build_scriptint pushes them.
RECURSIVE LowBytes(_)
LowBytes(abs) == IF abs > 255 THEN <<abs % 256>> \o LowBytes(abs \div 256) ELSE <<>>

\* What remains of abs after the loop.
RECURSIVE TopByte(_)
TopByte(abs) == IF abs > 255 THEN TopByte(abs \div 256) ELSE abs

\* Mutation: no extra sign byte when the top byte has its high bit set.
build_scriptint_no_sign_byte(n) ==
    IF n = 0 THEN <<>> ELSE LowBytes(n) \o <<TopByte(n)>>

\* build_scriptint: the minimal sign-magnitude little-endian encoding; a
\* top byte with its high bit set gets an extra sign byte.
build_scriptint(n) ==
    LET neg == n < 0
        abs == IF neg THEN -n ELSE n
        top == TopByte(abs)
    IN IF n = 0 THEN <<>>
       ELSE IF top >= 128
            THEN LowBytes(abs) \o <<top, IF neg THEN 128 ELSE 0>>
            ELSE LowBytes(abs) \o <<IF neg THEN top + 128 ELSE top>>

\* push_slice: a direct push below OP_PUSHDATA1, OP_PUSHDATA1 below 256.
push_slice(data) ==
    IF Len(data) < OP_PUSHDATA1 THEN <<Len(data)>> \o data
    ELSE <<OP_PUSHDATA1, Len(data)>> \o data

\* Mutation: only zero is special-cased.
push_int_no_small(n) ==
    IF n = 0 THEN <<OP_0>> ELSE push_slice(build_scriptint(n))

\* push_int: OP_1NEGATE and OP_1..OP_16 for -1 and 1..16, OP_0 for zero,
\* a pushed script number otherwise.
push_int(n) ==
    IF n = -1 \/ n \in 1 .. 16 THEN <<OP_1 - 1 + n>>
    ELSE IF n = 0 THEN <<OP_0>>
    ELSE push_slice(build_scriptint(n))

\* funding_script
funding_script(tweaked, t) ==
    push_int(t) \o <<OP_CSV, OP_DROP>> \o push_slice(KeyBytes[tweaked])
        \o <<OP_CHECKSIG>>

-----------------------------------------------------------------------------
(* Reference definitions: how a verifier reads the script (Bitcoin         *)
(* Core's script interpreter and CScriptNum).                              *)

\* The script as instructions: a push carries its data; OP_1NEGATE and
\* OP_1..OP_16 push the one-byte number they stand for.
RECURSIVE Instructions(_)
Instructions(s) ==
    IF s = <<>> THEN <<>>
    ELSE LET b == Head(s) IN
         IF b \in 1 .. OP_PUSHDATA1 - 1
         THEN <<[op |-> b, data |-> SubSeq(s, 2, b + 1)]>>
                \o Instructions(SubSeq(s, b + 2, Len(s)))
         ELSE IF b = OP_PUSHDATA1
         THEN <<[op |-> b, data |-> SubSeq(s, 3, s[2] + 2)]>>
                \o Instructions(SubSeq(s, s[2] + 3, Len(s)))
         ELSE <<[op |-> b,
                 data |-> IF b = OP_0 THEN <<>>
                          ELSE IF b = OP_1NEGATE THEN <<129>>
                          ELSE IF b \in OP_1 .. OP_16 THEN <<b - OP_1 + 1>>
                          ELSE <<>>]>>
                \o Instructions(Tail(s))

\* CScriptNum's value of a byte vector: little-endian magnitude, sign in
\* the high bit of the last byte.
RECURSIVE Magnitude(_)
Magnitude(v) == IF v = <<>> THEN 0 ELSE Head(v) + 256 * Magnitude(Tail(v))

ScriptNum(v) ==
    IF v = <<>> THEN 0
    ELSE LET last == v[Len(v)]
             mag == Magnitude(SubSeq(v, 1, Len(v) - 1) \o <<last % 128>>)
         IN IF last >= 128 THEN -mag ELSE mag

\* CScriptNum with fRequireMinimal: no needless trailing zero byte.
MinimalNum(v) ==
    v # <<>> => \/ v[Len(v)] % 128 # 0
                \/ Len(v) > 1 /\ v[Len(v) - 1] >= 128

\* CheckMinimalPush: the shortest opcode that pushes this data.
MinimalPush(i) ==
    /\ i.data = <<>> => i.op = OP_0
    /\ Len(i.data) = 1 /\ i.data[1] \in 1 .. 16 => i.op = OP_1 + i.data[1] - 1
    /\ i.data = <<129>> => i.op = OP_1NEGATE
    /\ Len(i.data) \in 2 .. 75 => i.op = Len(i.data)

-----------------------------------------------------------------------------

Init == term \in Terms /\ key \in Keys

\* ContentStore::fund asks for a funding script for a key and a term.
Next == \E t \in Terms, k \in Keys : term' = t /\ key' = k

Spec == Init /\ [][Next]_<<term, key>>

\* A counterparty parsing funding_script(key, term) finds exactly the
\* template <n> OP_CSV OP_DROP <key> OP_CHECKSIG, and the number OP_CSV
\* reads is the term fund was called with.
TemplateRoundTrip ==
    LET ins == Instructions(funding_script(key, term))
    IN /\ Len(ins) = 5
       /\ ScriptNum(ins[1].data) = term
       /\ <<ins[2].op, ins[3].op, ins[5].op>> = <<OP_CSV, OP_DROP, OP_CHECKSIG>>
       /\ ins[4].data = KeyBytes[key]

\* The term is pushed the way standardness and OP_CSV demand of a
\* spendable output: by the shortest push, as a minimal script number.
MinimalTermPush ==
    LET first == Instructions(funding_script(key, term))[1]
    IN MinimalPush(first) /\ MinimalNum(first.data)

=============================================================================
