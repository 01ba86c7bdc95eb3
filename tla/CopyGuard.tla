----------------------------- MODULE CopyGuard -----------------------------
(***************************************************************************)
(* The user-copy boundary of week 2 (copyguard.c): kwrite copies out of a  *)
(* kernel buffer, clamped to what the buffer holds, kread copies into it,  *)
(* bounded and terminated, and a guard lies behind the buffer.             *)
(*                                                                         *)
(* The program runs either the four rules or the sweep.  Here its calls    *)
(* come in any order, as often as one likes and with any of the lengths.   *)
(* Bytes are told apart as far as it matters: the letters that are         *)
(* written, the fill of the user's buffer, the guard and NUL.  Memory that *)
(* a copy reaches beyond its source is read as it is.                      *)
(***************************************************************************)
EXTENDS Integers, FiniteSets

CONSTANTS
    KBUF_SZ, GUARD_SZ, UBUF_SZ,     \* the sizes of the buffers
    BIG_SZ,                         \* the size of the sweep's buffer, big
    Letters,                        \* what data consists of
    Lengths,                        \* the lengths users ask for and offer
    NUL, GUARD_BYTE, Fill,          \* the other bytes; Fill is 'X'
    NULL                            \* no buffer

ASSUME SizeAssumption ==
    /\ KBUF_SZ \in Nat \ {0} /\ GUARD_SZ \in Nat
    /\ UBUF_SZ \in Nat /\ BIG_SZ \in Nat
    /\ KBUF_SZ <= UBUF_SZ /\ UBUF_SZ <= BIG_SZ
    /\ Lengths \subseteq 0 .. BIG_SZ
ASSUME ByteAssumption ==
    /\ Cardinality({NUL, GUARD_BYTE, Fill, NULL}) = 4
    /\ {NUL, GUARD_BYTE, Fill, NULL} \cap Letters = {}
    /\ NULL # "ubuf"

VARIABLES
    armed,      \* the mode: the rules arm the guard, the sweep does not
    kmem,       \* kbuf and, behind it, the guard
    kbufLen,    \* kbuf_len
    ubuf,       \* the user's buffer: ubuf under the rules, big in the sweep
    failures,   \* rules that did not hold
    row,        \* what the sweep prints: requested, copied, tail
    latest,     \* history: the letter and the length last offered to kbuf
    drawn       \* history: `latest` at the last copy out, with the length
                \* asked for and the answer

guardVars == <<armed, kmem, kbufLen, ubuf, failures, row, latest, drawn>>

min(a, b) == IF a < b THEN a ELSE b

Guard == KBUF_SZ .. KBUF_SZ + GUARD_SZ - 1
Kmem  == 0 .. KBUF_SZ + GUARD_SZ - 1
Big   == 0 .. BIG_SZ - 1
Ubuf  == IF armed THEN 0 .. UBUF_SZ - 1 ELSE Big

Offer(c, n) == [letter |-> c, length |-> n]

\* Static storage is zero; the rules arm the guard.
GuardInit ==
    /\ armed \in BOOLEAN
    /\ kmem = [i \in Kmem |-> IF armed /\ i \in Guard THEN GUARD_BYTE ELSE NUL]
    /\ kbufLen = 0
    /\ ubuf = [i \in Ubuf |-> Fill]
    /\ failures = 0
    /\ row = [requested |-> 0, copied |-> 0, tail |-> 0]
    /\ latest = Offer(NUL, 0)
    /\ drawn = [of |-> latest, asked |-> 0, left |-> 0]

\* check()
Check(rule) == failures' = IF rule THEN failures ELSE failures + 1

(***************************************************************************)
(* kwrite and kread: what they do to the buffers, and their answer, the    *)
(* number of bytes they did not copy.                                      *)
(***************************************************************************)
Clamp(ulen, klen) == min(ulen, klen)

KwriteInto(dst, mem, ulen, klen) ==
    [i \in DOMAIN dst |-> IF i < Clamp(ulen, klen) THEN mem[i] ELSE dst[i]]

Kwrite(udst, ulen, klen) ==
    IF udst = NULL THEN ulen ELSE ulen - Clamp(ulen, klen)

\* Mutant: no room is left for the terminator.
BoundFull(ulen) == min(ulen, KBUF_SZ)

Bound(ulen) == min(ulen, KBUF_SZ - 1)

\* The buffer with n letters c and a terminator stored in it.
Terminated(c, n) ==
    [i \in Kmem |-> IF i < n THEN c ELSE IF i = n THEN NUL ELSE kmem[i]]

\* Mutant: kbuf_len stays as it was.
KreadKeepingLen(c, ulen) ==
    /\ kmem' = Terminated(c, Bound(ulen))
    /\ UNCHANGED kbufLen

KreadFrom(c, ulen) ==
    /\ kmem' = Terminated(c, Bound(ulen))
    /\ kbufLen' = Bound(ulen)

Kread(usrc, ulen) == IF usrc = NULL THEN ulen ELSE ulen - Bound(ulen)

(***************************************************************************)
(* The rules                                                               *)
(***************************************************************************)
\* Rule 1: a null destination is refused, and nothing is copied to it.
RefuseNull ==
    /\ armed
    /\ \E ulen, klen \in Lengths : Check(Kwrite(NULL, ulen, klen) = ulen)
    /\ UNCHANGED <<armed, kmem, kbufLen, ubuf, row, latest, drawn>>

\* strcpy(kbuf, "hello") and kbuf_len = 5.
Prepare ==
    /\ armed
    /\ \E c \in Letters, n \in Lengths \cap 0 .. KBUF_SZ - 1 :
          /\ kmem' = Terminated(c, n)
          /\ kbufLen' = n
          /\ latest' = Offer(c, n)
    /\ UNCHANGED <<armed, ubuf, failures, row, drawn>>

\* Rule 2: the user's buffer is filled, and as much as it holds asked for.
OverLongRead ==
    LET left == Kwrite("ubuf", UBUF_SZ, kbufLen) IN
    /\ armed
    /\ ubuf' = KwriteInto([i \in Ubuf |-> Fill], kmem, UBUF_SZ, kbufLen)
    /\ drawn' = [of |-> latest, asked |-> UBUF_SZ, left |-> left]
    /\ Check(left = UBUF_SZ - kbufLen /\ ubuf'[kbufLen] = Fill)
    /\ UNCHANGED <<armed, kmem, kbufLen, row, latest>>

GuardIntact == \A i \in Guard : kmem'[i] = GUARD_BYTE

\* strlen(kbuf): up to the first NUL, wherever that is.
Strlen ==
    CHOOSE n \in 0 .. KBUF_SZ + GUARD_SZ :
        /\ n \in Kmem => kmem'[n] = NUL
        /\ \A i \in 0 .. n - 1 : kmem'[i] # NUL

\* Rules 3 and 4: data without a NUL, too long for the buffer or not.
Write ==
    /\ armed
    /\ \E c \in Letters, ulen \in Lengths :
          LET left == Kread(c, ulen) IN
          /\ KreadFrom(c, ulen)
          /\ latest' = Offer(c, ulen)
          /\ IF ulen < KBUF_SZ
             THEN Check(Strlen = ulen)
             ELSE Check(/\ GuardIntact
                        /\ kbufLen' = KBUF_SZ - 1
                        /\ left = ulen - (KBUF_SZ - 1))
    /\ UNCHANGED <<armed, ubuf, row, drawn>>

(***************************************************************************)
(* The sweep: what was copied is counted, not taken from the answer.       *)
(***************************************************************************)
CountCopied(big, ulen) ==
    CHOOSE n \in 0 .. ulen :
        /\ n < ulen => big[n] = Fill
        /\ \A i \in 0 .. n - 1 : big[i] # Fill

Sweep ==
    /\ ~armed
    /\ \E c \in Letters, n \in Lengths \cap 0 .. KBUF_SZ - 1, ulen \in Lengths :
          LET left == Kwrite("ubuf", ulen, n) IN
          /\ kmem' = Terminated(c, n)
          /\ kbufLen' = n
          /\ latest' = Offer(c, n)
          /\ ubuf' = KwriteInto([i \in Ubuf |-> Fill], kmem', ulen, n)
          /\ drawn' = [of |-> latest', asked |-> ulen, left |-> left]
          /\ row' = [requested |-> ulen, copied |-> CountCopied(ubuf', ulen),
                     tail |-> left]
    /\ UNCHANGED <<armed, failures>>

GuardNext == RefuseNull \/ Prepare \/ OverLongRead \/ Write \/ Sweep

GuardSpec == GuardInit /\ [][GuardNext]_guardVars

-----------------------------------------------------------------------------
(***************************************************************************)
(* Properties                                                              *)
(***************************************************************************)
\* copyguard.c:203, "All four rules hold": no order of calls and no length
\* makes one of the program's own checks fail.
AllFourRulesHold == failures = 0

\* copyguard.c:58-61, 116-128.  What a copy out has put into the user's
\* buffer is the beginning of the data last offered, as far as it was asked
\* for and fits - never a byte of an earlier, longer write or of the memory
\* behind - and the rest is untouched.  The answer, and the count of the
\* sweep, say so.
CopiesOutTheLatest ==
    LET n == min(drawn.asked, min(drawn.of.length, KBUF_SZ - 1)) IN
    /\ ubuf = [i \in Ubuf |-> IF i < n THEN drawn.of.letter ELSE Fill]
    /\ drawn.left = drawn.asked - n
    /\ ~armed => row.copied = n /\ row.copied + row.tail = row.requested
=============================================================================
