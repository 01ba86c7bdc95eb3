----------------------------- MODULE Handshake -----------------------------
(***************************************************************************)
(* One grace period on three memory models, as model/handshake.c explores  *)
(* it: a reader announces itself, dereferences the head, uses what it got  *)
(* and leaves, while a writer publishes a new version, scans the reader's  *)
(* counter, waits for it if it is odd and frees the old version.  Stores   *)
(* go to memory at once, or to a store buffer that commits them later in   *)
(* an order that depends on the model and on the memory_order of each      *)
(* site.                                                                   *)
(***************************************************************************)
EXTENDS Integers, SequencesExt

CONSTANTS
    Models,     \* the memory models to explore, among those below
    Orderings   \* the assignments of a memory_order to each site

Stores == {"announce", "exit", "publish"}
Loads  == {"deref", "scan"}
Sites  == Stores \cup Loads

\* main() refuses an acquire store and a release load (handshake.c:313-324).
LegalOrderings ==
    {o \in [Sites -> {"relaxed", "acquire", "release", "seq_cst"}] :
        /\ \A s \in Stores : o[s] # "acquire"
        /\ \A s \in Loads : o[s] # "release"}

AllModels == {"sequential", "tso", "arm"}

ASSUME HandshakeAssumption ==
    Models \subseteq AllModels /\ Orderings \subseteq LegalOrderings

VARIABLES
    model, order,   \* fixed in the initial state
    mem,            \* mem[HEAD], mem[SEQ]
    buf,            \* the store buffer of each thread
    pc,             \* the pc of each thread
    p,              \* the version the reader loaded
    snap,           \* the counter the writer saw
    freed,          \* OLD has been freed
    uaf             \* the reader used OLD after the free

config == <<model, order>>
vars   == <<config, mem, buf, pc, p, snap, freed, uaf>>

R == "reader"
W == "writer"

Init ==
    /\ model \in Models
    /\ order \in Orderings
    /\ mem = [head |-> "OLD", seq |-> 0]
    /\ buf = [t \in {R, W} |-> << >>]
    /\ pc = [t \in {R, W} |-> 0]
    /\ p = "none"
    /\ snap = 0
    /\ freed = FALSE
    /\ uaf = FALSE

At(t, n)   == pc[t] = n
Goto(t, n) == pc' = [pc EXCEPT ![t] = n]

(***************************************************************************)
(* Loads and stores.                                                       *)
(***************************************************************************)

\* Thread t's newest buffered store to var, else memory.
ReadVar(t, var) ==
    LET mine == {i \in DOMAIN buf[t] : buf[t][i].var = var} IN
    IF mine = {} THEN mem[var] ELSE buf[t][Max(mine)].val

\* Mutant: no load waits.
LoadAlwaysEnabled(t, site) == TRUE

\* LDAR waits for the thread's earlier STLRs.
LoadEnabled(t, site) ==
    model = "arm" /\ order[site] = "seq_cst"
        => \A i \in DOMAIN buf[t] : ~buf[t][i].stlr

\* xchg waits for the buffer to drain.
StoreEnabled(t, site) ==
    model = "tso" /\ order[site] = "seq_cst" => buf[t] = << >>

\* Mutant: the store of xchg goes through the buffer like any other.
DoStoreBuffered(t, site, var, val) ==
    IF model = "sequential"
    THEN /\ mem' = [mem EXCEPT ![var] = val]
         /\ UNCHANGED buf
    ELSE /\ buf' = [buf EXCEPT ![t] =
                       Append(@, [var |-> var, val |-> val, stlr |-> FALSE])]
         /\ UNCHANGED mem

DoStore(t, site, var, val) ==
    IF model = "sequential" \/ (model = "tso" /\ order[site] = "seq_cst")
    THEN /\ mem' = [mem EXCEPT ![var] = val]
         /\ UNCHANGED buf
    ELSE LET e == [var |-> var, val |-> val,
                   stlr |-> model = "arm" /\ order[site] # "relaxed"] IN
         /\ buf' = [buf EXCEPT ![t] = Append(@, e)]
         /\ UNCHANGED mem

StepStore(t, site, var, val, next) ==
    /\ StoreEnabled(t, site)
    /\ DoStore(t, site, var, val)
    /\ Goto(t, next)
    /\ UNCHANGED <<config, p, snap, freed, uaf>>

\* TSO buffers are FIFO.  On arm one address keeps its order, and an STLR
\* waits for every earlier store.
FlushEnabled(t, i) ==
    IF model = "tso" THEN i = 1
    ELSE \A j \in 1 .. i - 1 :
            buf[t][j].var # buf[t][i].var /\ ~buf[t][i].stlr

Flush(t) ==
    /\ \E i \in DOMAIN buf[t] :
          /\ FlushEnabled(t, i)
          /\ mem' = [mem EXCEPT ![buf[t][i].var] = buf[t][i].val]
          /\ buf' = [buf EXCEPT ![t] = RemoveAt(@, i)]
    /\ UNCHANGED <<config, pc, p, snap, freed, uaf>>

(***************************************************************************)
(* The reader.                                                             *)
(***************************************************************************)
Announce == At(R, 0) /\ StepStore(R, "announce", "seq", 1, 1)

Deref ==
    /\ At(R, 1)
    /\ LoadEnabled(R, "deref")
    /\ p' = ReadVar(R, "head")
    /\ Goto(R, 2)
    /\ UNCHANGED <<config, mem, buf, snap, freed, uaf>>

Use ==
    /\ At(R, 2)
    /\ uaf' = (p = "OLD" /\ freed)
    /\ Goto(R, 3)
    /\ UNCHANGED <<config, mem, buf, p, snap, freed>>

Exit == At(R, 3) /\ StepStore(R, "exit", "seq", 2, 4)

(***************************************************************************)
(* The writer.                                                             *)
(***************************************************************************)
Publish == At(W, 0) /\ StepStore(W, "publish", "head", "NEW", 1)

Scan ==
    /\ At(W, 1)
    /\ LoadEnabled(W, "scan")
    /\ snap' = ReadVar(W, "seq")
    /\ Goto(W, IF snap' % 2 = 1 THEN 2 ELSE 3)
    /\ UNCHANGED <<config, mem, buf, p, freed, uaf>>

Wait ==
    /\ At(W, 2)
    /\ LoadEnabled(W, "scan")
    /\ ReadVar(W, "seq") # snap
    /\ Goto(W, 3)
    /\ UNCHANGED <<config, mem, buf, p, snap, freed, uaf>>

Free ==
    /\ At(W, 3)
    /\ freed' = TRUE
    /\ Goto(W, 4)
    /\ UNCHANGED <<config, mem, buf, p, snap, uaf>>

\* The end of an execution that is not stuck (handshake.c:268).
Finished == \A t \in {R, W} : pc[t] = 4 /\ buf[t] = << >>

Done == Finished /\ UNCHANGED vars

Next ==
    \/ Announce \/ Deref \/ Use \/ Exit
    \/ Publish \/ Scan \/ Wait \/ Free
    \/ \E t \in {R, W} : Flush(t)
    \/ Done

Spec == Init /\ [][Next]_vars

-----------------------------------------------------------------------------
(***************************************************************************)
(* Properties                                                              *)
(***************************************************************************)

\* The orderings of orders.h (26-31).
OrdersH == [announce |-> "seq_cst", deref |-> "seq_cst", exit |-> "release",
            publish |-> "seq_cst", scan |-> "seq_cst"]

\* "SAFE: no execution on any of the three models uses a freed version."
ShippedOrderingsSafe == order = OrdersH => ~uaf

\* What each ordering is needed for.  The handshake is a store-load pattern:
\* each side must make its own store visible before its load.  TSO drains
\* the buffer only in a seq_cst store; arm holds back only a seq_cst load,
\* and only for earlier stores that are not relaxed.  The other orderings,
\* that of exit included, prevent no use after free in this model.
OrderedBeforeLoad(store, load) ==
    CASE model = "sequential" -> TRUE
      [] model = "tso" -> order[store] = "seq_cst"
      [] model = "arm" -> order[store] # "relaxed" /\ order[load] = "seq_cst"

StoreLoadOrderSuffices ==
    /\ OrderedBeforeLoad("announce", "deref")
    /\ OrderedBeforeLoad("publish", "scan")
    => ~uaf
=============================================================================
