--------------------------- MODULE PromiseProofs ---------------------------
(***************************************************************************)
(* Console implements ElectionBid: the proof of KeepsPromise.              *)
(***************************************************************************)
EXTENDS ConsoleProofs

AbstractStep == Promise!Next \/ UNCHANGED Promise!bidVars

\* The abstract state of console d, and that of file p, are left alone.
SameView(d) == StageOf(d)' = StageOf(d) /\ DraftOf(d)' = DraftOf(d)
SameFile(p) == SavedIn(p)' = SavedIn(p)

LEMMA InitKept == Init => Promise!Init
<1> SUFFICES ASSUME Init PROVE Promise!Init
  OBVIOUS
<1>1. \A f \in DOMAIN node : node[f] = {}
  BY DEF Init, NodeInit
<1>2. \A c \in Console : StageOf(c) = "idle" /\ DraftOf(c) = None
  BY DEF Init, StageOf, DraftOf, InBid, BidReady
<1>3. \A p \in Path : SavedIn(p) = None
  BY DEF Init, SavedIn, NoFile
<1> QED BY <1>1, <1>2, <1>3 DEF Promise!Init

-----------------------------------------------------------------------------
(* The kinds of steps *)

\* What the mapping reads of console d does not change.
Unmoved(d) == st'[d] = st[d] /\ step'[d] = step[d] /\ out'[d] = out[d]

LEMMA UnmovedView ==
  ASSUME NEW d, Unmoved(d)
  PROVE  SameView(d)
BY DEF Unmoved, SameView, StageOf, DraftOf, InBid, BidReady

\* Nothing is seen of the step, except that the node's collections may grow.
LEMMA HiddenStep ==
  ASSUME TypeOK, Grows, DOMAIN node' = NodeFields,
         \A d \in Console : SameView(d),
         \A p \in Path : SameFile(p)
  PROVE  AbstractStep
<1>1. Promise!Register
  BY DEF Promise!Register, Grows, SameView, SameFile, TypeOK
<1> QED BY <1>1 DEF AbstractStep, Promise!Next

\* Console c moves, and neither the node nor a file changes: either nothing
\* is seen of it, or the console does not bid any more.
LEMMA OneMoves ==
  ASSUME TypeOK, NEW c \in Console, node' = node,
         \A p \in Path : SameFile(p),
         \A d \in Console \ {c} : Unmoved(d),
         SameView(c) \/ StageOf(c)' = "idle"
  PROVE  AbstractStep
<1>1. \A d \in Console \ {c} : SameView(d)
  BY UnmovedView
<1>3. CASE SameView(c)
  <2>1. Grows /\ DOMAIN node' = NodeFields
    BY DEF Grows, TypeOK
  <2>2. \A d \in Console : SameView(d)
    BY <1>1, <1>3
  <2> QED BY <2>1, <2>2, HiddenStep
<1>4. CASE StageOf(c) # "idle" /\ StageOf(c)' = "idle"
  <2>1. DraftOf(c)' = None
    BY <1>4 DEF StageOf, DraftOf, InBid, BidReady
  <2>2. Promise!GiveUp(c)
    BY <1>1, <1>4, <2>1 DEF Promise!GiveUp, SameView, SameFile
  <2> QED BY <2>2 DEF AbstractStep, Promise!Next
<1>5. CASE StageOf(c) = "idle" /\ StageOf(c)' = "idle"
  <2>1. SameView(c)
    BY <1>5 DEF SameView, StageOf, DraftOf, InBid, BidReady
  <2> QED BY <1>3, <2>1
<1> QED BY <1>3, <1>4, <1>5

\* A command or the console ends without a bid.
LEMMA EndsIdle ==
  ASSUME TypeOK, NEW c \in Console,
         NEW s \in {"ready", "pausing", "exited", "refused", "panicked", "killed"},
         Goto(c, s), Intends(c), UNCHANGED <<node, step, disk>>
  PROVE  AbstractStep
<1>1. st'[c] = s /\ \A d \in Console \ {c} : Unmoved(d)
  BY IntendsOwn DEF Goto, TypeOK, Unmoved
<1>2. StageOf(c)' = "idle"
  BY <1>1 DEF StageOf, InBid, BidReady
<1> QED BY <1>1, <1>2, OneMoves DEF SameFile, SavedIn

LEMMA ReturnsIdle ==
  ASSUME TypeOK, NEW c \in Console, NEW ok, Return(c, ok), Intends(c),
         UNCHANGED <<node, step, disk>>
  PROVE  AbstractStep
<1>1. PICK s \in {"ready", "pausing"} : Goto(c, s)
  BY DEF Return
<1> QED BY <1>1, EndsIdle

\* A command begins to write a file that is no bid.
LEMMA WritesOther ==
  ASSUME TypeOK, NEW c \in Console, NEW path, NEW body, body.kind # "bid",
         BeginWrite(c, path, body), UNCHANGED <<node, step, disk>>
  PROVE  AbstractStep
<1>1. /\ st'[c] = "open" /\ out'[c].body = body
      /\ \A d \in Console \ {c} : Unmoved(d)
  BY DEF BeginWrite, Goto, TypeOK, Unmoved
<1>2. StageOf(c)' = "idle"
  BY <1>1 DEF StageOf, InBid, BidReady
<1> QED BY <1>1, <1>2, OneMoves DEF SameFile, SavedIn

-----------------------------------------------------------------------------
(* The steps of a bid *)

LEMMA StartBidBegins ==
  ASSUME TypeOK, NEW c \in Console, StartBid(c)
  PROVE  Promise!Begin(c)
<1>0. Intends(c)
  BY DEF StartBid, Intends
<1>1. /\ st[c] = "ready" /\ st'[c] = "call" /\ step'[c] = 1
      /\ \A d \in Console \ {c} : Unmoved(d)
  BY <1>0, IntendsOwn DEF StartBid, Takes, Goto, TypeOK, Unmoved
<1>2. \A d \in Console \ {c} : SameView(d)
  BY <1>1, UnmovedView
<1>3. /\ StageOf(c) = "idle" /\ StageOf(c)' = "bidding"
      /\ DraftOf(c) = None /\ DraftOf(c)' = None
  BY <1>1 DEF StageOf, DraftOf, InBid, BidReady
<1>4. node' = node /\ \A p \in Path : SameFile(p)
  BY DEF StartBid, SameFile, SavedIn
<1> QED BY <1>2, <1>3, <1>4 DEF Promise!Begin, SameView, SameFile

\* The eighth call: the draft that becomes visible is one the node supports.
LEMMA BidSignedSigns ==
  ASSUME BidInv, NEW c \in Console, BidSigned(c)
  PROVE  Promise!Sign(c)
<1>0. TypeOK
  BY DEF BidInv
<1>1. /\ st[c] = "answered" /\ step[c] = 8
      /\ st'[c] = "open" /\ out'[c].body = BidBody(c)
      /\ \A d \in Console \ {c} : Unmoved(d)
  BY <1>0 DEF BidSigned, AnswerAccepted, BeginWrite, Goto, TypeOK, Unmoved
<1>2. \A d \in Console \ {c} : SameView(d)
  BY <1>1, UnmovedView
<1>3. BidBody(c).kind = "bid"
  BY DEF BidBody
<1>4. StageOf(c) = "bidding" /\ StageOf(c)' = "signed" /\ DraftOf(c)' = BidBody(c)
  BY <1>1, <1>3 DEF StageOf, DraftOf, InBid, BidReady
<1>5. node' = node /\ \A p \in Path : SameFile(p)
  BY DEF BidSigned, SameFile, SavedIn
<1>6. Promise!Backed(DraftOf(c)') /\ Promise!Lasting(DraftOf(c)')
  BY <1>4, SignedGood DEF Backed, Lasting
<1> QED BY <1>2, <1>4, <1>5, <1>6 DEF Promise!Sign, SameView, SameFile

\* A bid is written: it replaces what the file held.
LEMMA WriteBidSaves ==
  ASSUME TypeOK, NEW c \in Console, WriteFile(c),
         out[c].body.kind = "bid", out[c].path \in Path
  PROVE  Promise!Save(c)
<1>1. PICK s \in {"ready", "pausing"} : Goto(c, s)
  BY DEF WriteFile, Return
<1>2. st[c] = "saving" /\ st'[c] = s /\ \A d \in Console \ {c} : Unmoved(d)
  BY <1>1 DEF WriteFile, Goto, TypeOK, Unmoved
<1>3. \A d \in Console \ {c} : SameView(d)
  BY <1>2, UnmovedView
<1>4. /\ StageOf(c) = "signed" /\ StageOf(c)' = "idle"
      /\ DraftOf(c) = out[c].body /\ DraftOf(c)' = None
  BY <1>2 DEF StageOf, DraftOf, InBid, BidReady
<1>5. PICK q \in Path : q = out[c].path
  OBVIOUS
<1>6. /\ SavedIn(q)' = out[c].body
      /\ \A p \in Path \ {q} : SameFile(p)
  BY <1>5 DEF WriteFile, SameFile, SavedIn, TypeOK
<1>7. node' = node
  BY DEF WriteFile
<1> QED BY <1>3, <1>4, <1>6, <1>7 DEF Promise!Save, SameView, SameFile

\* A file is truncated, or something that is no bid is written to it.
LEMMA FileLost ==
  ASSUME TypeOK, NEW path, NEW b, b.kind # "bid",
         disk' = [disk EXCEPT ![path] = b], node' = node,
         \A d \in Console : SameView(d)
  PROVE  AbstractStep
<1>1. CASE path \in Path
  <2>1. /\ SavedIn(path)' = None
        /\ \A p \in Path \ {path} : SameFile(p)
    BY <1>1 DEF SameFile, SavedIn, TypeOK
  <2>2. Promise!Lose(path)
    BY <1>1, <2>1 DEF Promise!Lose, SameView, SameFile
  <2> QED BY <1>1, <2>2 DEF AbstractStep, Promise!Next
<1>2. CASE path \notin Path
  <2>1. \A p \in Path : SameFile(p)
    BY <1>2 DEF SameFile, SavedIn, TypeOK
  <2>2. Grows /\ DOMAIN node' = NodeFields
    BY DEF Grows, TypeOK
  <2> QED BY <2>1, <2>2, HiddenStep
<1> QED BY <1>1, <1>2

LEMMA OpenFileKept ==
  ASSUME TypeOK, NEW c \in Console, OpenFile(c)
  PROVE  AbstractStep
<1>1. /\ st[c] = "open" /\ st'[c] = "saving" /\ out' = out
      /\ \A d \in Console \ {c} : Unmoved(d)
  BY DEF OpenFile, Goto, TypeOK, Unmoved
<1>2. SameView(c)
  BY <1>1 DEF SameView, StageOf, DraftOf, InBid, BidReady
<1>3. \A d \in Console : SameView(d)
  BY <1>1, <1>2, UnmovedView
<1>4. EmptyFile.kind # "bid"
  BY DEF EmptyFile
<1> QED BY <1>3, <1>4, FileLost DEF OpenFile

LEMMA WriteFileKept ==
  ASSUME TypeOK, NEW c \in Console, WriteFile(c)
  PROVE  AbstractStep
<1>1. PICK s \in {"ready", "pausing"} : Goto(c, s)
  BY DEF WriteFile, Return
<1>2. st[c] = "saving" /\ st'[c] = s /\ \A d \in Console \ {c} : Unmoved(d)
  BY <1>1 DEF WriteFile, Goto, TypeOK, Unmoved
<1>3. CASE out[c].body.kind = "bid" /\ out[c].path \in Path
  BY <1>3, WriteBidSaves DEF AbstractStep, Promise!Next
<1>4. CASE out[c].path \notin Path
  <2>1. node' = node /\ \A p \in Path : SameFile(p)
    BY <1>4 DEF WriteFile, SameFile, SavedIn, TypeOK
  <2>2. StageOf(c)' = "idle"
    BY <1>2 DEF StageOf, InBid, BidReady
  <2> QED BY <1>2, <2>1, <2>2, OneMoves
<1>5. CASE out[c].body.kind # "bid"
  <2>1. SameView(c)
    BY <1>2, <1>5 DEF SameView, StageOf, DraftOf, InBid, BidReady
  <2>2. \A d \in Console : SameView(d)
    BY <1>2, <2>1, UnmovedView
  <2> QED BY <1>5, <2>2, FileLost DEF WriteFile
<1> QED BY <1>3, <1>4, <1>5

\* The calls between the first and the eighth are not seen.
LEMMA CallHidden ==
  ASSUME TypeOK, NEW c \in Console, SendQuery(c) \/ BidStep(c)
  PROVE  AbstractStep
<1>1. /\ st[c] \in {"call", "answered"} /\ st'[c] \in {"call", "waiting"}
      /\ step[c] # 0 <=> step'[c] # 0
      /\ \A d \in Console \ {c} : Unmoved(d)
      /\ UNCHANGED <<node, disk>>
  <2>1. CASE SendQuery(c)
    BY <2>1 DEF SendQuery, Goto, TypeOK, Unmoved
  <2>2. CASE BidStep(c)
    <3>1. step[c] \in 1 .. 7 /\ step'[c] = step[c] + 1
      BY <2>2 DEF BidStep, TypeOK
    <3> QED BY <2>2, <3>1 DEF BidStep, AnswerAccepted, Goto, TypeOK, Unmoved
  <2> QED BY <2>1, <2>2
<1>2. SameView(c)
  BY <1>1 DEF SameView, StageOf, DraftOf, InBid, BidReady
<1> QED BY <1>1, <1>2, OneMoves DEF SameFile, SavedIn

\* Delivering an answer is not seen: its console goes from waiting to
\* answered within the same call.
LEMMA DeliverHidden ==
  ASSUME BidInv, NEW m \in pending, NEW a, Deliver(m, a), UNCHANGED <<step, out>>,
         NEW d \in Console
  PROVE  SameView(d)
<1>0. TypeOK /\ (m.live => st[m.from] = "waiting")
  BY DEF BidInv, WaitInv
<1>1. CASE m.live /\ d = m.from
  <2>1. st[d] = "waiting" /\ st'[d] = "answered"
    BY <1>0, <1>1 DEF Deliver, Goto, TypeOK
  <2> QED BY <2>1 DEF SameView, StageOf, DraftOf, InBid, BidReady
<1>2. CASE ~(m.live /\ d = m.from)
  <2>1. Unmoved(d)
    BY <1>0, <1>2 DEF Deliver, Goto, TypeOK, Unmoved
  <2> QED BY <2>1, UnmovedView
<1> QED BY <1>1, <1>2

LEMMA NodeStepKept ==
  ASSUME BidInv, NEW m \in pending, Serve(m) \/ Refuse(m)
  PROVE  AbstractStep
<1>0. TypeOK
  BY DEF BidInv
<1>1. \A p \in Path : SameFile(p)
  BY DEF Serve, Refuse, SameFile, SavedIn
<1>2. PICK a : Deliver(m, a)
  BY DEF Serve, Refuse
<1>3. \A d \in Console : SameView(d)
  BY <1>2, DeliverHidden DEF Serve, Refuse
<1>4. Grows /\ DOMAIN node' = NodeFields
  <2>1. CASE Serve(m)
    BY <1>0, <2>1, OutcomeGrows DEF Serve
  <2>2. CASE Refuse(m)
    BY <1>0, <2>2 DEF Refuse, Grows, TypeOK
  <2> QED BY <2>1, <2>2
<1> QED BY <1>0, <1>1, <1>3, <1>4, HiddenStep

-----------------------------------------------------------------------------
(* Every step *)

LEMMA ConsoleStepKept ==
  ASSUME BidInv, NEW c \in Console, ConsoleStep(c)
  PROVE  AbstractStep
<1>0. TypeOK
  BY DEF BidInv
<1>1. CASE PanicOnBlank(c) \/ Exit(c) \/ Wake(c)
  BY <1>0, <1>1, EndsIdle DEF PanicOnBlank, Exit, Wake, Intends
<1>2. CASE SkipLine(c)
  <2>1. Goto(c, "ready")
    BY <1>0, <1>2 DEF SkipLine, Takes, Goto, TypeOK
  <2> QED BY <1>0, <1>2, <2>1, EndsIdle DEF SkipLine, Intends
<1>3. CASE \/ SplitFails(c) \/ SendRejected(c) \/ AnswerRejected(c)
           \/ ConfigParamFails(c) \/ BidRejected(c) \/ BidUnverified(c) \/ WriteFails(c)
  <2>1. Intends(c)
    BY <1>3 DEF SplitFails, SendRejected, AnswerRejected, ConfigParamFails, BidRejected,
       BidUnverified, WriteFails, Intends
  <2> QED BY <1>0, <1>3, <2>1, ReturnsIdle DEF SplitFails, SendRejected, AnswerRejected,
          ConfigParamFails, BidRejected, BidUnverified, WriteFails
<1>4. CASE StartCommand(c)
  <2>0. Intends(c)
    BY <1>4 DEF StartCommand, Intends
  <2>1. /\ st'[c] = "call" /\ step'[c] = 0 /\ \A d \in Console \ {c} : Unmoved(d)
        /\ UNCHANGED <<node, disk>>
    BY <1>0, <1>4, <2>0, IntendsOwn DEF StartCommand, Goto, TypeOK, Unmoved
  <2>2. StageOf(c)' = "idle"
    BY <2>1 DEF StageOf, InBid, BidReady
  <2> QED BY <1>0, <2>1, <2>2, OneMoves DEF SameFile, SavedIn
<1>5. CASE CommandDone(c)
  <2>1. CASE SavesAccount(cmd[c].name, cmd[c].params)
    BY <1>0, <1>5, <2>1, WritesOther DEF CommandDone
  <2>2. CASE ~SavesAccount(cmd[c].name, cmd[c].params)
    BY <1>0, <1>5, <2>2, ReturnsIdle DEF CommandDone, Intends
  <2> QED BY <2>1, <2>2
<1>6. CASE SendQuery(c) \/ BidStep(c)
  BY <1>0, <1>6, CallHidden
<1>7. CASE RecoverStake(c) \/ ConfigParam(c)
  BY <1>0, <1>7, WritesOther DEF RecoverStake, ConfigParam
<1>8. CASE StartBid(c)
  BY <1>0, <1>8, StartBidBegins DEF AbstractStep, Promise!Next
<1>9. CASE BidSigned(c)
  BY <1>9, BidSignedSigns DEF AbstractStep, Promise!Next
<1>10. CASE OpenFile(c)
  BY <1>0, <1>10, OpenFileKept
<1>11. CASE WriteFile(c)
  BY <1>0, <1>11, WriteFileKept
<1> QED BY <1>1, <1>2, <1>3, <1>4, <1>5, <1>6, <1>7, <1>8, <1>9, <1>10, <1>11
        DEF ConsoleStep

LEMMA NextKept == BidInv /\ [Next]_vars => AbstractStep
<1> SUFFICES ASSUME BidInv, [Next]_vars PROVE AbstractStep
  OBVIOUS
<1>0. TypeOK
  BY DEF BidInv
<1>1. ASSUME NEW c \in Console, Start(c) \/ StartFails(c) \/ Kill(c) PROVE AbstractStep
  BY <1>0, <1>1, EndsIdle DEF Start, StartFails, Kill, Intends
<1>2. ASSUME NEW c \in Console, GiveUp(c) PROVE AbstractStep
  BY <1>0, <1>2, ReturnsIdle DEF GiveUp, Intends
<1>3. ASSUME NEW c \in Console, ConsoleStep(c) PROVE AbstractStep
  BY <1>3, ConsoleStepKept
<1>4. ASSUME NEW m \in pending, Serve(m) \/ Refuse(m) PROVE AbstractStep
  BY <1>4, NodeStepKept
<1>5. CASE Tick \/ UNCHANGED vars
  <2>1. UNCHANGED <<node, st, step, out, disk>>
    BY <1>5 DEF Tick, conVars, vars
  <2>2. \A d \in Console : SameView(d)
    BY <2>1, UnmovedView DEF Unmoved
  <2>3. \A p \in Path : SameFile(p)
    BY <2>1 DEF SameFile, SavedIn
  <2>4. Grows /\ DOMAIN node' = NodeFields
    BY <1>0, <2>1 DEF Grows, TypeOK
  <2> QED BY <1>0, <2>2, <2>3, <2>4, HiddenStep
<1> QED BY <1>1, <1>2, <1>3, <1>4, <1>5 DEF Next

-----------------------------------------------------------------------------
\* The consoles, with the calls of process_election_bid, their failures, late
\* executions, crashes and retries, implement the abstract specification of
\* an election bid: for any number of consoles, files and keys, what is
\* signed is supported by the node, and only a signed draft gets into a file.
THEOREM PromiseKept == Spec => KeepsPromise
<1>1. Init => Promise!Init
  BY InitKept
<1>2. BidInv /\ [Next]_vars => [Promise!Next]_(Promise!bidVars)
  BY NextKept DEF AbstractStep
<1> QED BY <1>1, <1>2, BidInvariant, PTL DEF Spec, KeepsPromise, Promise!Spec

=============================================================================
