--------------------------- MODULE HandshakeProofs ---------------------------
(***************************************************************************)
(* Why the handshake is safe, on each of the three memory models and for   *)
(* any orderings that keep each side's store before its load: a reader     *)
(* that still gets the old version has its announcement in memory before   *)
(* the writer scans, and so it is waited for.                              *)
(***************************************************************************)
EXTENDS Handshake, TLAPS

\* Only the reader stores to the counter, and only the writer to the head.
SeqStores  == [var : {"seq"}, val : {1, 2}, stlr : BOOLEAN]
HeadStores == [var : {"head"}, val : {"NEW"}, stlr : BOOLEAN]

HandshakeTypeOK ==
    /\ model \in AllModels
    /\ order \in LegalOrderings
    /\ mem \in [head : {"OLD", "NEW"}, seq : 0 .. 2]
    /\ DOMAIN buf = {R, W}
    /\ buf[R] \in Seq(SeqStores)
    /\ buf[W] \in Seq(HeadStores)
    /\ pc \in [{R, W} -> 0 .. 4]
    /\ p \in {"none", "OLD", "NEW"}
    /\ snap \in 0 .. 2

StoreLoadOrder ==
    /\ OrderedBeforeLoad("announce", "deref")
    /\ OrderedBeforeLoad("publish", "scan")

\* The one store a thread may have in its buffer when it comes to its load,
\* and which then holds the load back.
HeldBack(t) == model = "arm" /\ Len(buf[t]) = 1 /\ buf[t][1].stlr

\* From its load to its exit the reader's announcement is in memory.
AnnouncedInv ==
    /\ pc[R] = 0 => buf[R] = << >>
    /\ pc[R] = 1 => \/ HeldBack(R) /\ buf[R][1].val = 1
                    \/ buf[R] = << >> /\ mem.seq = 1
    /\ pc[R] \in {2, 3} => buf[R] = << >> /\ mem.seq = 1

\* From its scan on the writer's new version is in memory.
PublishedInv ==
    /\ pc[W] = 0 => buf[W] = << >>
    /\ pc[W] = 1 => \/ HeldBack(W)
                    \/ buf[W] = << >> /\ mem.head = "NEW"
    /\ pc[W] \in {2, 3, 4} => buf[W] = << >> /\ mem.head = "NEW"
    /\ freed => pc[W] = 4

\* While the reader has the old version the writer has yet to scan, or it
\* waits for the counter the reader has announced.
SeenInv ==
    pc[R] = 2 /\ p = "OLD" =>
        pc[W] \in {0, 1} \/ (pc[W] = 2 /\ snap = 1)

HandshakeInv == AnnouncedInv /\ PublishedInv /\ SeenInv /\ ~uaf

-----------------------------------------------------------------------------
(***************************************************************************)
(* Loads and stores.                                                       *)
(***************************************************************************)

\* No thread loads what it stores itself, so a load reads memory.
LEMMA LoadsReadMemory ==
    ASSUME HandshakeTypeOK
    PROVE  /\ ReadVar(R, "head") = mem.head
           /\ ReadVar(W, "seq") = mem.seq
<1>1. {i \in DOMAIN buf[R] : buf[R][i].var = "head"} = {}
  <2>1. \A i \in DOMAIN buf[R] : buf[R][i] \in SeqStores
    BY DEF HandshakeTypeOK
  <2> QED BY <2>1 DEF SeqStores
<1>2. {i \in DOMAIN buf[W] : buf[W][i].var = "seq"} = {}
  <2>1. \A i \in DOMAIN buf[W] : buf[W][i] \in HeadStores
    BY DEF HandshakeTypeOK
  <2> QED BY <2>1 DEF HeadStores
<1> QED BY <1>1, <1>2 DEF ReadVar

\* What RemoveAt leaves are elements of the sequence.
LEMMA RemoveAtType ==
    ASSUME NEW S, NEW s \in Seq(S), NEW k \in DOMAIN s
    PROVE  /\ RemoveAt(s, k) \in Seq(S)
           /\ Len(s) = 1 => RemoveAt(s, k) = << >>
<1>1. SubSeq(s, 1, k - 1) \in Seq(S) /\ SubSeq(s, k + 1, Len(s)) \in Seq(S)
  OBVIOUS
<1>2. RemoveAt(s, k) \in Seq(S)
  BY <1>1 DEF RemoveAt
<1>3. ASSUME Len(s) = 1 PROVE RemoveAt(s, k) = << >>
  <2>1. k = 1
    BY <1>3
  <2>2. SubSeq(s, 1, 0) = << >> /\ SubSeq(s, 2, 1) = << >>
    OBVIOUS
  <2> QED BY <1>3, <2>1, <2>2 DEF RemoveAt
<1> QED BY <1>2, <1>3

\* A store goes to memory or to the end of the thread's buffer.
ToMemory(site) ==
    model = "sequential" \/ (model = "tso" /\ order[site] = "seq_cst")

LEMMA StoreOutcome ==
    ASSUME NEW t, NEW site, NEW var, NEW val, NEW next,
           StepStore(t, site, var, val, next)
    PROVE  \/ /\ ToMemory(site)
              /\ mem' = [mem EXCEPT ![var] = val] /\ buf' = buf
           \/ /\ ~ToMemory(site)
              /\ mem' = mem
              /\ \E b \in BOOLEAN :
                    /\ b <=> (model = "arm" /\ order[site] # "relaxed")
                    /\ buf' = [buf EXCEPT ![t] =
                                  Append(@, [var |-> var, val |-> val, stlr |-> b])]
<1> DEFINE stlr == model = "arm" /\ order[site] # "relaxed"
<1>1. CASE ToMemory(site)
  BY <1>1 DEF StepStore, DoStore, ToMemory
<1>2. CASE ~ToMemory(site)
  <2>1. /\ mem' = mem
        /\ buf' = [buf EXCEPT ![t] =
                      Append(@, [var |-> var, val |-> val, stlr |-> stlr])]
    BY <1>2 DEF StepStore, DoStore, ToMemory
  <2>2. stlr \in BOOLEAN
    OBVIOUS
  <2> QED BY <1>2, <2>1, <2>2
<1> QED BY <1>1, <1>2

\* What the two halves of StoreLoadOrder mean for a thread's store.
LEMMA OrderedStore ==
    ASSUME model \in AllModels, NEW store, NEW load,
           OrderedBeforeLoad(store, load)
    PROVE  /\ ToMemory(store) \/ (model = "arm" /\ order[store] # "relaxed")
           /\ model = "arm" => order[load] = "seq_cst"
BY DEF OrderedBeforeLoad, AllModels, ToMemory

-----------------------------------------------------------------------------
(***************************************************************************)
(* Types.                                                                  *)
(***************************************************************************)
LEMMA HandshakeInitType == Init => HandshakeTypeOK
BY HandshakeAssumption DEF Init, HandshakeTypeOK, SeqStores, HeadStores, R, W

LEMMA HandshakeNextType ==
    ASSUME HandshakeTypeOK, [Next]_vars PROVE HandshakeTypeOK'
<1> USE DEF HandshakeTypeOK, R, W
<1>1. CASE Announce
  <2> USE <1>1 DEF Announce, At
  <2>1. StepStore(R, "announce", "seq", 1, 1)
    OBVIOUS
  <2>2. UNCHANGED <<model, order, p, snap>> /\ pc' \in [{R, W} -> 0 .. 4]
    BY <2>1 DEF StepStore, Goto, config
  <2>3. \A b \in BOOLEAN :
           Append(buf[R], [var |-> "seq", val |-> 1, stlr |-> b]) \in Seq(SeqStores)
    BY DEF SeqStores
  <2>4. CASE mem' = [mem EXCEPT !["seq"] = 1] /\ buf' = buf
    BY <2>2, <2>4
  <2>5. ASSUME NEW b \in BOOLEAN, mem' = mem,
               buf' = [buf EXCEPT ![R] =
                          Append(@, [var |-> "seq", val |-> 1, stlr |-> b])]
        PROVE  HandshakeTypeOK'
    BY <2>2, <2>3, <2>5
  <2>6. \/ mem' = [mem EXCEPT !["seq"] = 1] /\ buf' = buf
        \/ /\ mem' = mem
           /\ \E b \in BOOLEAN :
                 buf' = [buf EXCEPT ![R] =
                            Append(@, [var |-> "seq", val |-> 1, stlr |-> b])]
    BY <2>1, StoreOutcome DEF StepStore, DoStore
  <2> QED BY <2>4, <2>5, <2>6
<1>2. CASE Exit
  <2>1. StepStore(R, "exit", "seq", 2, 4)
    BY <1>2 DEF Exit
  <2>2. UNCHANGED <<model, order, p, snap>> /\ pc' \in [{R, W} -> 0 .. 4]
    BY <2>1 DEF StepStore, Goto, config
  <2>3. \A b \in BOOLEAN :
           Append(buf[R], [var |-> "seq", val |-> 2, stlr |-> b]) \in Seq(SeqStores)
    BY DEF SeqStores
  <2>4. CASE mem' = [mem EXCEPT !["seq"] = 2] /\ buf' = buf
    BY <2>2, <2>4
  <2>5. ASSUME NEW b \in BOOLEAN, mem' = mem,
               buf' = [buf EXCEPT ![R] =
                          Append(@, [var |-> "seq", val |-> 2, stlr |-> b])]
        PROVE  HandshakeTypeOK'
    BY <2>2, <2>3, <2>5
  <2>6. \/ mem' = [mem EXCEPT !["seq"] = 2] /\ buf' = buf
        \/ /\ mem' = mem
           /\ \E b \in BOOLEAN :
                 buf' = [buf EXCEPT ![R] =
                            Append(@, [var |-> "seq", val |-> 2, stlr |-> b])]
    BY <2>1, StoreOutcome DEF StepStore, DoStore
  <2> QED BY <2>4, <2>5, <2>6
<1>3. CASE Publish
  <2>1. StepStore(W, "publish", "head", "NEW", 1)
    BY <1>3 DEF Publish
  <2>2. UNCHANGED <<model, order, p, snap>> /\ pc' \in [{R, W} -> 0 .. 4]
    BY <2>1 DEF StepStore, Goto, config
  <2>3. \A b \in BOOLEAN :
           Append(buf[W], [var |-> "head", val |-> "NEW", stlr |-> b]) \in Seq(HeadStores)
    BY DEF HeadStores
  <2>4. CASE mem' = [mem EXCEPT !["head"] = "NEW"] /\ buf' = buf
    BY <2>2, <2>4
  <2>5. ASSUME NEW b \in BOOLEAN, mem' = mem,
               buf' = [buf EXCEPT ![W] =
                          Append(@, [var |-> "head", val |-> "NEW", stlr |-> b])]
        PROVE  HandshakeTypeOK'
    BY <2>2, <2>3, <2>5
  <2>6. \/ mem' = [mem EXCEPT !["head"] = "NEW"] /\ buf' = buf
        \/ /\ mem' = mem
           /\ \E b \in BOOLEAN :
                 buf' = [buf EXCEPT ![W] =
                            Append(@, [var |-> "head", val |-> "NEW", stlr |-> b])]
    BY <2>1, StoreOutcome DEF StepStore, DoStore
  <2> QED BY <2>4, <2>5, <2>6
<1>4. CASE Deref
  BY <1>4, LoadsReadMemory DEF Deref, Goto, config
<1>5. CASE Use
  BY <1>5 DEF Use, Goto, config
<1>6. CASE Scan
  BY <1>6, LoadsReadMemory DEF Scan, Goto, config
<1>7. CASE Wait
  BY <1>7 DEF Wait, Goto, config
<1>8. CASE Free
  BY <1>8 DEF Free, Goto, config
<1>9. ASSUME NEW t \in {R, W}, Flush(t) PROVE HandshakeTypeOK'
  <2>1. PICK k \in DOMAIN buf[t] :
           /\ mem' = [mem EXCEPT ![buf[t][k].var] = buf[t][k].val]
           /\ buf' = [buf EXCEPT ![t] = RemoveAt(@, k)]
    BY <1>9 DEF Flush
  <2>2. UNCHANGED <<model, order, pc, p, snap>>
    BY <1>9 DEF Flush, config
  <2>3. CASE t = R
    <3>1. buf[R][k] \in SeqStores
      BY <2>3
    <3>2. RemoveAt(buf[R], k) \in Seq(SeqStores)
      BY <2>3, RemoveAtType
    <3> QED BY <2>1, <2>2, <2>3, <3>1, <3>2 DEF SeqStores
  <2>4. CASE t = W
    <3>1. buf[W][k] \in HeadStores
      BY <2>4
    <3>2. RemoveAt(buf[W], k) \in Seq(HeadStores)
      BY <2>4, RemoveAtType
    <3> QED BY <2>1, <2>2, <2>4, <3>1, <3>2 DEF HeadStores
  <2> QED BY <2>3, <2>4
<1>10. CASE UNCHANGED vars
  BY <1>10 DEF vars, config
<1> QED
  BY <1>1, <1>2, <1>3, <1>4, <1>5, <1>6, <1>7, <1>8, <1>9, <1>10 DEF Next, Done

-----------------------------------------------------------------------------
(***************************************************************************)
(* The invariant.                                                          *)
(***************************************************************************)
LEMMA HandshakeInitInv == Init => HandshakeInv
BY DEF Init, HandshakeInv, AnnouncedInv, PublishedInv, SeenInv, R, W

\* A thread at its load that the load does not wait for has its store in
\* memory: what is still in its buffer would hold the load back.
LEMMA LoadsComeAfter ==
    ASSUME HandshakeTypeOK, HandshakeInv, StoreLoadOrder
    PROVE  /\ pc[R] = 1 /\ LoadEnabled(R, "deref")
                 => buf[R] = << >> /\ mem.seq = 1
           /\ pc[W] = 1 /\ LoadEnabled(W, "scan")
                 => buf[W] = << >> /\ mem.head = "NEW"
<1>1. model = "arm" => order["deref"] = "seq_cst" /\ order["scan"] = "seq_cst"
  BY OrderedStore DEF StoreLoadOrder, HandshakeTypeOK
<1>2. \A t \in {R, W} : HeldBack(t) => 1 \in DOMAIN buf[t] /\ buf[t][1].stlr
  BY DEF HeldBack, HandshakeTypeOK
<1>3. HeldBack(R) => ~LoadEnabled(R, "deref")
  BY <1>1, <1>2 DEF LoadEnabled, HeldBack
<1>4. HeldBack(W) => ~LoadEnabled(W, "scan")
  BY <1>1, <1>2 DEF LoadEnabled, HeldBack
<1> QED BY <1>3, <1>4 DEF HandshakeInv, AnnouncedInv, PublishedInv

LEMMA HandshakeNextInv ==
    ASSUME HandshakeTypeOK, HandshakeInv, StoreLoadOrder, [Next]_vars
    PROVE  HandshakeInv'
<1> USE DEF HandshakeTypeOK, R, W
<1>1. CASE Announce
  <2>1. /\ pc[R] = 0 /\ pc' = [pc EXCEPT ![R] = 1]
        /\ UNCHANGED <<config, p, snap, freed, uaf>>
        /\ StepStore(R, "announce", "seq", 1, 1)
    BY <1>1 DEF Announce, At, StepStore, Goto
  <2>2. buf[R] = << >>
    BY <2>1 DEF HandshakeInv, AnnouncedInv, PublishedInv
  <2>3. CASE mem' = [mem EXCEPT !.seq = 1] /\ buf' = buf
    BY <2>1, <2>2, <2>3
    DEF HandshakeInv, AnnouncedInv, PublishedInv, SeenInv, HeldBack, config
  <2>4. ASSUME model = "arm", mem' = mem,
               NEW b \in BOOLEAN, b,
               buf' = [buf EXCEPT ![R] =
                          Append(@, [var |-> "seq", val |-> 1, stlr |-> b])]
        PROVE  HandshakeInv'
    <3>1. buf'[R] = <<[var |-> "seq", val |-> 1, stlr |-> b]>>
      <4>1. \A e : Append(<< >>, e) = <<e>>
        OBVIOUS
      <4>2. buf'[R] = Append(buf[R], [var |-> "seq", val |-> 1, stlr |-> b])
        BY <2>4
      <4> QED BY <2>2, <4>1, <4>2
    <3>2. buf'[W] = buf[W] /\ model' = "arm"
      BY <2>1, <2>4 DEF config
    <3>3. Len(buf'[R]) = 1 /\ buf'[R][1].stlr /\ buf'[R][1].val = 1
      <4>1. Len(buf'[R]) = 1 /\ buf'[R][1] = [var |-> "seq", val |-> 1, stlr |-> b]
        BY <3>1
      <4>2. buf'[R][1].stlr = b /\ buf'[R][1].val = 1
        BY <4>1
      <4> QED BY <2>4, <4>1, <4>2
    <3> QED BY <2>1, <2>4, <3>2, <3>3
      DEF HandshakeInv, AnnouncedInv, PublishedInv, SeenInv, HeldBack, config
  <2>5. ToMemory("announce") \/ (model = "arm" /\ order["announce"] # "relaxed")
    BY OrderedStore DEF StoreLoadOrder
  <2> QED BY <2>1, <2>3, <2>4, <2>5, StoreOutcome DEF StepStore, DoStore, ToMemory
<1>2. CASE Exit
  <2>1. /\ pc[R] = 3 /\ pc' = [pc EXCEPT ![R] = 4]
        /\ UNCHANGED <<config, p, snap, freed, uaf>>
        /\ StepStore(R, "exit", "seq", 2, 4)
    BY <1>2 DEF Exit, At, StepStore, Goto
  <2>2. buf'[W] = buf[W] /\ mem'.head = mem.head
    BY <2>1, StoreOutcome DEF StepStore, DoStore
  <2> QED BY <2>1, <2>2
       DEF HandshakeInv, AnnouncedInv, PublishedInv, SeenInv, HeldBack, config
<1>3. CASE Publish
  <2>1. /\ pc[W] = 0 /\ pc' = [pc EXCEPT ![W] = 1]
        /\ UNCHANGED <<config, p, snap, freed, uaf>>
        /\ StepStore(W, "publish", "head", "NEW", 1)
    BY <1>3 DEF Publish, At, StepStore, Goto
  <2>2. buf[W] = << >>
    BY <2>1 DEF HandshakeInv, AnnouncedInv, PublishedInv
  <2>3. CASE mem' = [mem EXCEPT !.head = "NEW"] /\ buf' = buf
    BY <2>1, <2>2, <2>3
    DEF HandshakeInv, AnnouncedInv, PublishedInv, SeenInv, HeldBack, config
  <2>4. ASSUME model = "arm", mem' = mem,
               NEW b \in BOOLEAN, b,
               buf' = [buf EXCEPT ![W] =
                          Append(@, [var |-> "head", val |-> "NEW", stlr |-> b])]
        PROVE  HandshakeInv'
    <3>1. buf'[W] = <<[var |-> "head", val |-> "NEW", stlr |-> b]>>
      <4>1. \A e : Append(<< >>, e) = <<e>>
        OBVIOUS
      <4>2. buf'[W] = Append(buf[W], [var |-> "head", val |-> "NEW", stlr |-> b])
        BY <2>4
      <4> QED BY <2>2, <4>1, <4>2
    <3>2. buf'[R] = buf[R] /\ model' = "arm"
      BY <2>1, <2>4 DEF config
    <3>3. Len(buf'[W]) = 1 /\ buf'[W][1].stlr /\ buf'[W][1].val = "NEW"
      <4>1. Len(buf'[W]) = 1 /\ buf'[W][1] = [var |-> "head", val |-> "NEW", stlr |-> b]
        BY <3>1
      <4>2. buf'[W][1].stlr = b /\ buf'[W][1].val = "NEW"
        BY <4>1
      <4> QED BY <2>4, <4>1, <4>2
    <3> QED BY <2>1, <2>4, <3>2, <3>3
      DEF HandshakeInv, AnnouncedInv, PublishedInv, SeenInv, HeldBack, config
  <2>5. ToMemory("publish") \/ (model = "arm" /\ order["publish"] # "relaxed")
    BY OrderedStore DEF StoreLoadOrder
  <2> QED BY <2>1, <2>3, <2>4, <2>5, StoreOutcome DEF StepStore, DoStore, ToMemory
<1>4. CASE Deref
  <2>1. buf[R] = << >> /\ mem.seq = 1 /\ p' = mem.head
    BY <1>4, LoadsComeAfter, LoadsReadMemory DEF Deref, At
  <2>2. pc[R] = 1 /\ pc' = [pc EXCEPT ![R] = 2]
    BY <1>4 DEF Deref, At, Goto
  <2>3. UNCHANGED <<config, mem, buf, snap, freed, uaf>>
    BY <1>4 DEF Deref
  <2>4. p' = "OLD" => pc[W] \in {0, 1}
    BY <2>1 DEF HandshakeInv, PublishedInv
  <2> QED BY <2>1, <2>2, <2>3, <2>4
       DEF HandshakeInv, AnnouncedInv, PublishedInv, SeenInv, HeldBack, config
<1>5. CASE Use
  <2>1. pc[R] = 2 /\ pc' = [pc EXCEPT ![R] = 3]
    BY <1>5 DEF Use, At, Goto
  <2>2. ~(p = "OLD" /\ freed)
    BY <2>1 DEF HandshakeInv, PublishedInv, SeenInv
  <2>3. UNCHANGED <<config, mem, buf, p, snap, freed>>
    BY <1>5 DEF Use
  <2>4. ~uaf'
    BY <1>5, <2>2 DEF Use
  <2> QED BY <2>1, <2>3, <2>4
       DEF HandshakeInv, AnnouncedInv, PublishedInv, SeenInv, HeldBack, config
<1>6. CASE Scan
  <2>1. buf[W] = << >> /\ mem.head = "NEW" /\ snap' = mem.seq
    BY <1>6, LoadsComeAfter, LoadsReadMemory DEF Scan, At
  <2>2. pc[W] = 1 /\ pc' = [pc EXCEPT ![W] = IF snap' % 2 = 1 THEN 2 ELSE 3]
    BY <1>6 DEF Scan, At, Goto
  <2>3. UNCHANGED <<config, mem, buf, p, freed, uaf>>
    BY <1>6 DEF Scan
  <2>4. pc[R] = 2 => snap' = 1 /\ snap' % 2 = 1
    BY <2>1 DEF HandshakeInv, AnnouncedInv
  <2>5. pc'[R] = pc[R] /\ pc'[W] \in {2, 3} /\ (pc[R] = 2 => pc'[W] = 2)
    BY <2>2, <2>4
  <2> QED BY <2>1, <2>2, <2>3, <2>4, <2>5
       DEF HandshakeInv, AnnouncedInv, PublishedInv, SeenInv, HeldBack, config
<1>7. CASE Wait
  <2>1. mem.seq # snap
    BY <1>7, LoadsReadMemory DEF Wait
  <2>2. pc[W] = 2 /\ pc' = [pc EXCEPT ![W] = 3]
    BY <1>7 DEF Wait, At, Goto
  <2>3. UNCHANGED <<config, mem, buf, p, snap, freed, uaf>>
    BY <1>7 DEF Wait
  <2>4. ~(pc[R] = 2 /\ p = "OLD")
    BY <2>1, <2>2 DEF HandshakeInv, AnnouncedInv, SeenInv
  <2> QED BY <2>2, <2>3, <2>4
       DEF HandshakeInv, AnnouncedInv, PublishedInv, SeenInv, HeldBack, config
<1>8. CASE Free
  <2>1. pc[W] = 3 /\ pc' = [pc EXCEPT ![W] = 4]
    BY <1>8 DEF Free, At, Goto
  <2>2. UNCHANGED <<config, mem, buf, p, snap, uaf>>
    BY <1>8 DEF Free
  <2> QED BY <2>1, <2>2
       DEF HandshakeInv, AnnouncedInv, PublishedInv, SeenInv, HeldBack, config
<1>9. CASE Flush(R)
  <2>1. PICK k \in DOMAIN buf[R] :
           /\ mem' = [mem EXCEPT ![buf[R][k].var] = buf[R][k].val]
           /\ buf' = [buf EXCEPT ![R] = RemoveAt(@, k)]
    BY <1>9 DEF Flush
  <2>2. UNCHANGED <<config, pc, p, snap, freed, uaf>>
    BY <1>9 DEF Flush
  <2>3. buf[R][k].var = "seq" /\ buf'[W] = buf[W]
    <3>1. buf[R][k] \in SeqStores
      BY <2>1
    <3> QED BY <2>1, <3>1 DEF SeqStores
  <2>4. mem' = [mem EXCEPT !.seq = buf[R][k].val]
    BY <2>1, <2>3
  <2>5. CASE pc[R] = 1
    <3>1. Len(buf[R]) = 1 /\ k = 1
      BY <2>1, <2>5 DEF HandshakeInv, AnnouncedInv, PublishedInv, HeldBack
    <3>2. buf'[R] = << >>
      BY <2>1, <3>1, RemoveAtType
    <3>3. mem'.seq = 1
      BY <2>1, <2>4, <2>5, <3>1 DEF HandshakeInv, AnnouncedInv, PublishedInv, SeqStores
    <3> QED BY <2>2, <2>3, <2>4, <2>5, <3>2, <3>3
      DEF HandshakeInv, AnnouncedInv, PublishedInv, SeenInv, HeldBack, config
  <2>6. CASE pc[R] # 1
    <3>1. pc[R] = 4
      BY <2>1, <2>6 DEF HandshakeInv, AnnouncedInv
    <3> QED BY <2>2, <2>3, <2>4, <3>1
      DEF HandshakeInv, AnnouncedInv, PublishedInv, SeenInv, HeldBack, config
  <2> QED BY <2>5, <2>6
<1>10. CASE Flush(W)
  <2>1. PICK k \in DOMAIN buf[W] :
           /\ mem' = [mem EXCEPT ![buf[W][k].var] = buf[W][k].val]
           /\ buf' = [buf EXCEPT ![W] = RemoveAt(@, k)]
    BY <1>10 DEF Flush
  <2>2. UNCHANGED <<config, pc, p, snap, freed, uaf>>
    BY <1>10 DEF Flush
  <2>3. buf[W][k].var = "head" /\ buf'[R] = buf[R]
    <3>1. buf[W][k] \in HeadStores
      BY <2>1
    <3> QED BY <2>1, <3>1 DEF HeadStores
  <2>4. mem' = [mem EXCEPT !.head = buf[W][k].val]
    BY <2>1, <2>3
  <2>5. CASE pc[W] = 1
    <3>1. Len(buf[W]) = 1 /\ k = 1
      BY <2>1, <2>5 DEF HandshakeInv, AnnouncedInv, PublishedInv, HeldBack
    <3>2. buf'[W] = << >>
      BY <2>1, <3>1, RemoveAtType
    <3>3. mem'.head = "NEW"
      <4>1. buf[W][k] \in HeadStores
        BY <2>1
      <4> QED BY <2>4, <4>1 DEF HeadStores
    <3> QED BY <2>2, <2>3, <2>4, <2>5, <3>2, <3>3
      DEF HandshakeInv, AnnouncedInv, PublishedInv, SeenInv, HeldBack, config
  <2>6. pc[W] = 1
    BY <2>1 DEF HandshakeInv, PublishedInv
  <2> QED BY <2>5, <2>6
<1>11. CASE UNCHANGED vars
  BY <1>11 DEF vars, config, HandshakeInv, AnnouncedInv, PublishedInv, SeenInv, HeldBack
<1> QED
  BY <1>1, <1>2, <1>3, <1>4, <1>5, <1>6, <1>7, <1>8, <1>9, <1>10, <1>11
  DEF Next, Done

-----------------------------------------------------------------------------
(***************************************************************************)
(* The theorems.                                                           *)
(***************************************************************************)

\* Each of the tool's states is well-typed, whatever the orderings; and if
\* they keep both sides' stores before their loads, the announcement and the
\* new version are where HandshakeInv says.
THEOREM HandshakeInvariant ==
    Spec => [](HandshakeTypeOK /\ (StoreLoadOrder => HandshakeInv))
<1>1. Init => HandshakeTypeOK /\ HandshakeInv
  BY HandshakeInitType, HandshakeInitInv
<1>2. ASSUME HandshakeTypeOK, StoreLoadOrder => HandshakeInv, [Next]_vars
      PROVE  HandshakeTypeOK' /\ (StoreLoadOrder => HandshakeInv)'
  <2>1. HandshakeTypeOK'
    BY <1>2, HandshakeNextType
  <2>2. UNCHANGED config
    BY <1>2 DEF Next, vars, Announce, Deref, Use, Exit, Publish, Scan, Wait,
             Free, Flush, Done, StepStore
  <2>3. StoreLoadOrder' <=> StoreLoadOrder
    BY <2>2 DEF StoreLoadOrder, OrderedBeforeLoad, config
  <2> QED BY <1>2, <2>1, <2>3, HandshakeNextInv
<1> QED BY <1>1, <1>2, PTL DEF Spec

\* On every model, orderings that put each side's store before its load
\* suffice; the others, that of exit included, may be anything.
THEOREM OrderSuffices == Spec => []StoreLoadOrderSuffices
<1>1. (StoreLoadOrder => HandshakeInv) => StoreLoadOrderSuffices
  BY DEF StoreLoadOrder, HandshakeInv, StoreLoadOrderSuffices
<1> QED BY <1>1, HandshakeInvariant, PTL

\* The orderings that orders.h ships are such orderings, so no reader uses a
\* version that is freed (README of week 4, "SAFE").
THEOREM ShippedOrdersSafe == Spec => []ShippedOrderingsSafe
<1>1. HandshakeTypeOK /\ order = OrdersH => StoreLoadOrder
  <2>1. /\ OrdersH["announce"] = "seq_cst" /\ OrdersH["deref"] = "seq_cst"
        /\ OrdersH["publish"] = "seq_cst" /\ OrdersH["scan"] = "seq_cst"
    BY DEF OrdersH
  <2>2. HandshakeTypeOK => model \in {"sequential", "tso", "arm"}
    BY DEF HandshakeTypeOK, AllModels
  <2> QED BY <2>1, <2>2 DEF StoreLoadOrder, OrderedBeforeLoad
<1>2. HandshakeTypeOK /\ (StoreLoadOrder => HandshakeInv) => ShippedOrderingsSafe
  BY <1>1 DEF HandshakeInv, ShippedOrderingsSafe
<1> QED BY <1>2, HandshakeInvariant, PTL
=============================================================================
