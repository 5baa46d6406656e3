--------------------------- MODULE SessionProofs ---------------------------
(***************************************************************************)
(* Proofs about consoles that run one after the other ("sendmessage" sends *)
(* what was to be written before it unless an error was printed), and      *)
(* about the keys and the parameters of election bids: no two bids share a *)
(* key, nothing abandoned concerns a saved bid, and max_factor is within   *)
(* its limits.                                                             *)
(***************************************************************************)
EXTENDS ConsoleProofs

-----------------------------------------------------------------------------
(* One console moves *)

\* What the invariant reads of console d does not change.
Kept(d) ==
  /\ st'[d] = st[d] /\ out'[d] = out[d] /\ cmd'[d] = cmd[d]
  /\ step'[d] = step[d] /\ failed'[d] = failed[d]

LEMMA SentFreshStable ==
  ASSUME SentFresh, \A m \in pending' : m.live => m \in pending /\ Kept(m.from)
  PROVE  SentFresh'
BY DEF SentFresh, Kept

LEMMA FileFreshStable ==
  ASSUME NEW d, FileFresh(d), Kept(d), UNCHANGED disk
  PROVE  FileFresh(d)'
BY DEF FileFresh, Writing, Kept

\* Console c moves, and files are left alone.
LEMMA SeqFrame ==
  ASSUME SeqInv, NEW c \in Console, \A d \in Console \ {c} : Kept(d), UNCHANGED disk,
         st'[c] \in Running => \A d \in Console \ {c} : st[d] \notin Running,
         FileFresh(c)', SentFresh'
  PROVE  SeqInv'
<1>1. \A d, e \in Console : st'[d] \in Running /\ st'[e] \in Running => d = e
  BY DEF SeqInv, Kept
<1>2. ASSUME NEW d \in Console PROVE FileFresh(d)'
  <2>1. CASE d = c
    BY <2>1
  <2>2. CASE d # c
    BY <2>2, FileFreshStable DEF SeqInv
  <2> QED BY <2>1, <2>2
<1> QED BY <1>1, <1>2 DEF SeqInv

\* No query is sent, and console c stays fresh.
LEMMA QuietSeq ==
  ASSUME BidInv, SeqInv, NEW c \in Console, \A d \in Console \ {c} : Kept(d),
         st[c] \in Running \/ st'[c] \notin Running, FileFresh(c)',
         \A m \in pending' : m.live => m \in pending /\ m.from # c,
         UNCHANGED disk
  PROVE  SeqInv'
<1>1. SentFresh'
  <2>1. \A m \in pending' : m.live => m \in pending /\ Kept(m.from)
    BY DEF BidInv, TypeOK
  <2> QED BY <2>1, SentFreshStable DEF SeqInv
<1>2. st'[c] \in Running => \A d \in Console \ {c} : st[d] \notin Running
  BY DEF SeqInv
<1> QED BY <1>1, <1>2, SeqFrame

\* Console c does not wait: none of its queries is waited for.
LEMMA NothingAsked ==
  ASSUME BidInv, NEW c \in Console, st[c] # "waiting", UNCHANGED pending
  PROVE  \A m \in pending' : m.live => m \in pending /\ m.from # c
BY DEF BidInv, WaitInv

\* The command of c fails: from now on nothing is claimed of its file.
LEMMA FailsSeq ==
  ASSUME BidInv, SeqInv, NEW c \in Console, Return(c, FALSE), Fetches(c), Intends(c),
         st[c] \in Running,
         \A m \in pending' : m.live => m \in pending /\ m.from # c,
         UNCHANGED <<step, disk>>
  PROVE  SeqInv'
<1>1. /\ st'[c] \in {"ready", "pausing"} /\ failed'[c] = TRUE
      /\ \A d \in Console \ {c} : st'[d] = st[d] /\ failed'[d] = failed[d]
  BY DEF Return, Goto, BidInv, TypeOK
<1>2. \A d \in Console \ {c} : out'[d] = out[d]
  BY IntendsOwn DEF BidInv
<1>3. \A d \in Console \ {c} : Kept(d)
  BY <1>1, <1>2 DEF Kept, Fetches
<1>4. FileFresh(c)'
  BY <1>1 DEF FileFresh
<1> QED BY <1>3, <1>4, QuietSeq

\* The command of c moves on or ends, or c does; the command writes no file.
LEMMA CalmSeq ==
  ASSUME BidInv, SeqInv, NEW c \in Console, NEW s \in Running \cup Over, Goto(c, s),
         Fetches(c), st[c] \in Running \ {"waiting"}, ~Writing(c),
         UNCHANGED <<out, failed, pending, disk>>,
         \A d \in Console \ {c} : step'[d] = step[d]
  PROVE  SeqInv'
<1>1. st'[c] = s /\ \A d \in Console \ {c} : Kept(d)
  BY DEF Goto, BidInv, TypeOK, Kept, Fetches
<1>2. s # "off"
  BY DEF Running, Over
<1>3. FileFresh(c)'
  BY <1>1, <1>2 DEF SeqInv, FileFresh
<1> QED BY <1>1, <1>3, NothingAsked, QuietSeq

\* The command of c writes a file and is under way.
LEMMA WritingSeq ==
  ASSUME BidInv, SeqInv, NEW c \in Console, \A d \in Console \ {c} : Kept(d),
         st[c] \in Running \ {"waiting"}, Writing(c)', UNCHANGED <<pending, disk>>
  PROVE  SeqInv'
<1>1. FileFresh(c)'
  BY DEF FileFresh, Writing
<1> QED BY <1>1, NothingAsked, QuietSeq

\* A command begins to write a file.
LEMMA BeginWriteSeq ==
  ASSUME BidInv, SeqInv, NEW c \in Console, NEW path, NEW body,
         BeginWrite(c, path, body), Fetches(c), st[c] \in Running \ {"waiting"},
         UNCHANGED <<step, failed, pending, disk>>
  PROVE  SeqInv'
<1>1. st'[c] = "open" /\ \A d \in Console \ {c} : Kept(d)
  BY DEF BeginWrite, Goto, BidInv, TypeOK, Kept, Fetches
<1>2. Writing(c)'
  BY <1>1 DEF Writing
<1> QED BY <1>1, <1>2, WritingSeq

\* A command starts; one that writes a file is under way at once.
LEMMA StartCommandSeq ==
  ASSUME BidInv, SeqInv, NEW c \in Console, StartCommand(c) \/ StartBid(c)
  PROVE  SeqInv'
<1>0. TypeOK
  BY DEF BidInv
<1>1. /\ st[c] = "ready" /\ Goto(c, "call") /\ Fetch(c) /\ Intends(c)
      /\ \A d \in Console \ {c} : step'[d] = step[d]
      /\ UNCHANGED <<failed, pending, disk>>
  BY <1>0 DEF StartCommand, StartBid, Takes, Intends, TypeOK
<1>2. st'[c] = "call" /\ cmd'[c] = Head(todo[c])
  BY <1>0, <1>1 DEF Goto, Fetch, TypeOK
<1>3. Fetches(c)
  BY <1>0, <1>1, FetchFetches
<1>4. \A d \in Console \ {c} : out'[d] = out[d]
  BY <1>0, <1>1, IntendsOwn
<1>5. \A d \in Console \ {c} : st'[d] = st[d]
  BY <1>0, <1>1 DEF Goto, TypeOK
<1>6. \A d \in Console \ {c} : Kept(d)
  BY <1>1, <1>3, <1>4, <1>5 DEF Kept, Fetches
<1>7. st[c] \in Running \ {"waiting"} /\ "call" \in Running
  BY <1>1 DEF Running
<1>8. CASE Writing(c)'
  BY <1>1, <1>6, <1>7, <1>8, WritingSeq
<1>9. CASE ~Writing(c)'
  <2>1. step'[c] = 0 /\ ~SavesAccount(cmd'[c].name, cmd'[c].params)
    BY <1>2, <1>9 DEF Writing
  <2>2. StartCommand(c)
    BY <1>0, <2>1 DEF StartBid, TypeOK
  <2>3. UNCHANGED out
    BY <1>2, <2>1, <2>2 DEF StartCommand
  <2>4. ~Writing(c)
    BY <1>1 DEF Writing
  <2> QED BY <1>1, <1>3, <1>7, <2>3, <2>4, CalmSeq
<1> QED BY <1>8, <1>9

-----------------------------------------------------------------------------
(* Queries and files *)

\* What "sendmessage" reads is what the console wrote last, if it wrote the
\* file that it sends and has printed no error.
LEMMA SendQuerySeq ==
  ASSUME BidInv, SeqInv, NEW c \in Console, SendQuery(c)
  PROVE  SeqInv'
<1> DEFINE call == CurrentCall(c)
           q == command_send(call.name, call.params, clock, Body(call))
           new == Message(c, TRUE, <<Len(todo[c]), step[c]>>, q)
<1>1. /\ st[c] = "call" /\ st'[c] = "waiting"
      /\ pending' = pending \cup {new}
      /\ Readable(call)
      /\ UNCHANGED <<cmd, step, out, failed, disk>>
      /\ \A d \in Console \ {c} : Kept(d)
  BY DEF SendQuery, Goto, Kept, BidInv, TypeOK
<1>2. FileFresh(c) /\ FileFresh(c)'
  <2>1. Writing(c)' = Writing(c)
    BY <1>1 DEF Writing
  <2> QED BY <1>1, <2>1 DEF SeqInv, FileFresh, Running
<1>3. ASSUME q.name = "sendmessage", ~failed[c], out[c].path = cmd[c].params[1].val
      PROVE  q.args[1] = out[c].body
  <2>1. q.name = call.name
    BY DEF command_send
  <2>2. step[c] = 0
    <3>1. step[c] \in 0 .. 8
      BY DEF BidInv, TypeOK
    <3>2. step[c] \in 1 .. 8 => BidCall(c).name # "sendmessage"
      BY BidCallName
    <3> QED BY <1>3, <2>1, <3>1, <3>2 DEF CurrentCall
  <2>3. call = cmd[c]
    BY <2>2 DEF CurrentCall
  <2>4. q.args[1] = disk[cmd[c].params[1].val] /\ cmd[c].params[1].val \in Path
    BY <1>1, <1>3, <2>1, <2>3 DEF command_send, Body, Readable
  <2>5. ~Writing(c)
    BY <1>1, <1>3, <2>1, <2>2, <2>3 DEF Writing, SavesAccount
  <2> QED BY <1>1, <1>2, <1>3, <2>4, <2>5 DEF FileFresh, Running
<1> HIDE DEF q
<1>4. new.from = c /\ new.live = TRUE /\ new.q = q
  BY DEF Message
<1> HIDE DEF new
<1>5. SentFresh'
  <2> SUFFICES ASSUME NEW m \in pending', m.live, m.q.name = "sendmessage",
                      ~failed'[m.from], out'[m.from].path = cmd'[m.from].params[1].val
               PROVE  m.q.args[1] = out'[m.from].body
    BY DEF SentFresh
  <2>1. CASE m = new
    BY <1>1, <1>3, <1>4, <2>1
  <2>2. CASE m \in pending
    BY <1>1, <2>2 DEF SeqInv, SentFresh
  <2> QED BY <1>1, <2>1, <2>2
<1>6. \A d \in Console \ {c} : st[d] \notin Running
  BY <1>1 DEF SeqInv, Running
<1> QED BY <1>1, <1>2, <1>5, <1>6, SeqFrame

\* A file is truncated, or written.
LEMMA FileSeq ==
  ASSUME BidInv, SeqInv, NEW c \in Console, OpenFile(c) \/ WriteFile(c)
  PROVE  SeqInv'
<1>1. PICK b \in {EmptyFile, out[c].body} :
        /\ disk' = [disk EXCEPT ![out[c].path] = b]
        /\ \/ OpenFile(c) /\ b = EmptyFile
           \/ WriteFile(c) /\ b = out[c].body
  BY DEF OpenFile, WriteFile
<1>2. /\ st[c] \in {"open", "saving"} /\ UNCHANGED <<cmd, out, pending>>
      /\ \A d \in Console \ {c} : Kept(d)
      /\ \/ st'[c] = "saving"
         \/ st'[c] \in {"ready", "pausing"} /\ b = out[c].body
  <2>1. CASE OpenFile(c) /\ b = EmptyFile
    BY <2>1 DEF OpenFile, Goto, BidInv, TypeOK, Kept
  <2>2. CASE WriteFile(c) /\ b = out[c].body
    <3>1. \A d \in Console \ {c} : failed'[d] = failed[d]
      BY <2>2 DEF WriteFile, Return, BidInv, TypeOK
    <3> QED BY <2>2, <3>1 DEF WriteFile, Return, Goto, BidInv, TypeOK, Kept
  <2> QED BY <1>1, <2>1, <2>2
<1>3. \A d \in Console \ {c} : st[d] \notin Running
  BY <1>2 DEF SeqInv, Running
<1>4. \A d, e \in Console : st'[d] \in Running /\ st'[e] \in Running => d = e
  BY <1>2, <1>3 DEF Kept
<1>5. \A d \in Console : FileFresh(d)'
  <2>1. ASSUME NEW d \in Console \ {c} PROVE FileFresh(d)'
    BY <1>2, <1>3 DEF SeqInv, FileFresh, Kept
  <2>2. FileFresh(c)'
    <3>1. CASE st'[c] = "saving"
      BY <3>1 DEF FileFresh, Writing
    <3>2. CASE st'[c] # "off" /\ b = out[c].body
      BY <1>1, <1>2, <3>2 DEF FileFresh, BidInv, TypeOK
    <3> QED BY <1>2, <3>1, <3>2
  <2> QED BY <2>1, <2>2
<1>6. SentFresh'
  <2>1. \A m \in pending' : m.live => m \in pending /\ Kept(m.from)
    BY <1>2 DEF BidInv, WaitInv, TypeOK
  <2> QED BY <2>1, SentFreshStable DEF SeqInv
<1> QED BY <1>4, <1>5, <1>6 DEF SeqInv

-----------------------------------------------------------------------------
(* The invariant *)

LEMMA InitSeqInv == Init => SeqInv
<1> SUFFICES ASSUME Init PROVE SeqInv
  OBVIOUS
<1>1. \A c \in Console : st[c] = "off" /\ out[c].path = None
  BY DEF Init, NoOutput
<1>2. SentFresh
  BY DEF Init, SentFresh
<1>3. \A c \in Console : FileFresh(c)
  BY <1>1 DEF FileFresh, Running
<1> QED BY <1>1, <1>2, <1>3 DEF SeqInv, Running

LEMMA ConsoleStepSeq ==
  ASSUME BidInv, SeqInv, NEW c \in Console, ConsoleStep(c)
  PROVE  SeqInv'
<1>0. TypeOK /\ st = [st EXCEPT ![c] = st[c]]
  BY DEF BidInv, TypeOK
<1>1. CASE PanicOnBlank(c) \/ SkipLine(c) \/ Exit(c) \/ Wake(c)
  <2>1. /\ st[c] \in {"ready", "pausing"} /\ Fetches(c)
        /\ UNCHANGED <<step, out, failed, pending, disk>>
    BY <1>0, <1>1, FetchFetches DEF PanicOnBlank, SkipLine, Exit, Wake, Takes
  <2>2. PICK s \in {"panicked", "exited", "ready"} : Goto(c, s)
    BY <1>0, <1>1 DEF PanicOnBlank, SkipLine, Exit, Wake, Goto, Takes
  <2>3. s \in Running \cup Over /\ st[c] \in Running \ {"waiting"} /\ ~Writing(c)
    BY <2>1 DEF Running, Over, Writing
  <2> QED BY <2>1, <2>2, <2>3, CalmSeq
<1>2. CASE StartCommand(c) \/ StartBid(c)
  BY <1>2, StartCommandSeq
<1>3. CASE \/ SplitFails(c) \/ SendRejected(c) \/ AnswerRejected(c) \/ ConfigParamFails(c)
           \/ BidRejected(c) \/ BidUnverified(c) \/ WriteFails(c)
  <2>1. /\ st[c] \in {"ready", "call", "answered", "open", "saving"} /\ Fetches(c)
        /\ UNCHANGED <<step, pending, disk>>
    BY <1>0, <1>3, FetchFetches DEF SplitFails, SendRejected, AnswerRejected,
       ConfigParamFails, BidRejected, BidUnverified, WriteFails, Takes, AnswerAccepted
  <2>2. Return(c, FALSE) /\ Intends(c)
    BY <1>3 DEF SplitFails, SendRejected, AnswerRejected, ConfigParamFails, BidRejected,
       BidUnverified, WriteFails, Intends
  <2>3. st[c] \in Running /\ st[c] # "waiting"
    BY <2>1 DEF Running
  <2> QED BY <2>1, <2>2, <2>3, NothingAsked, FailsSeq
<1>4. CASE CommandDone(c)
  <2>1. /\ Fetches(c) /\ st[c] = "answered" /\ step[c] = 0
        /\ UNCHANGED <<step, pending, disk>>
    BY <1>0, <1>4, FetchFetches DEF CommandDone, AnswerAccepted
  <2>2. st[c] \in Running \ {"waiting"}
    BY <2>1 DEF Running
  <2>3. CASE SavesAccount(cmd[c].name, cmd[c].params)
    BY <1>4, <2>1, <2>2, <2>3, BeginWriteSeq DEF CommandDone
  <2>4. CASE ~SavesAccount(cmd[c].name, cmd[c].params)
    <3>1. Return(c, TRUE) /\ UNCHANGED out
      BY <1>4, <2>4 DEF CommandDone
    <3>2. PICK s \in {"ready", "pausing"} : Goto(c, s)
      BY <3>1 DEF Return
    <3>3. UNCHANGED failed
      BY <1>0, <3>1 DEF Return, TypeOK
    <3>4. s \in Running \cup Over /\ ~Writing(c)
      BY <2>1, <2>4 DEF Running, Writing
    <3> QED BY <2>1, <2>2, <3>1, <3>2, <3>3, <3>4, CalmSeq
  <2> QED BY <2>3, <2>4
<1>5. CASE SendQuery(c)
  BY <1>5, SendQuerySeq
<1>6. CASE RecoverStake(c)
  <2>1. Fetches(c) /\ st[c] \in Running \ {"waiting"}
    BY <1>0, <1>6, FetchFetches DEF RecoverStake, Takes, Running
  <2> QED BY <1>6, <2>1, BeginWriteSeq DEF RecoverStake
<1>7. CASE ConfigParam(c)
  <2>1. Fetches(c) /\ st[c] \in Running \ {"waiting"}
    BY <1>0, <1>7, FetchFetches DEF ConfigParam, Takes, Running
  <2> QED BY <1>7, <2>1, BeginWriteSeq DEF ConfigParam
<1>8. CASE BidStep(c)
  <2>1. /\ st[c] = "answered" /\ st'[c] = "call" /\ step'[c] # 0
        /\ UNCHANGED <<pending, disk>> /\ \A d \in Console \ {c} : Kept(d)
    BY <1>0, <1>8 DEF BidStep, AnswerAccepted, Goto, TypeOK, Kept
  <2>2. Writing(c)' /\ st[c] \in Running \ {"waiting"}
    BY <2>1 DEF Writing, Running
  <2> QED BY <2>1, <2>2, WritingSeq
<1>9. CASE BidSigned(c)
  <2>1. Fetches(c) /\ st[c] \in Running \ {"waiting"}
    BY <1>0, <1>9, FetchFetches DEF BidSigned, AnswerAccepted, Running
  <2> QED BY <1>9, <2>1, BeginWriteSeq DEF BidSigned
<1>10. CASE OpenFile(c) \/ WriteFile(c)
  BY <1>10, FileSeq
<1> QED BY <1>1, <1>2, <1>3, <1>4, <1>5, <1>6, <1>7, <1>8, <1>9, <1>10 DEF ConsoleStep

\* A console starts only when no other one runs.
LEMMA StartSeq ==
  ASSUME BidInv, SeqInv, ~Concurrent, NEW c \in Console, Start(c) \/ StartFails(c)
  PROVE  SeqInv'
<1>1. /\ st[c] = "off" /\ st'[c] \in {"ready", "refused"}
      /\ \A d \in Console : st[d] \notin Running
      /\ UNCHANGED <<out, failed, cmd, pending, disk>>
      /\ \A d \in Console \ {c} : Kept(d)
  BY DEF Start, StartFails, Goto, BidInv, TypeOK, Kept
<1>2. FileFresh(c)'
  <2>1. out[c].path = None
    BY <1>1 DEF SeqInv, FileFresh
  <2> QED BY <1>1, <2>1, ConsoleAssumption DEF FileFresh
<1>3. SentFresh'
  BY <1>1 DEF SeqInv, SentFresh
<1> QED BY <1>1, <1>2, <1>3, SeqFrame

\* A console stops waiting for its query, or dies.
LEMMA AbandonSeq ==
  ASSUME BidInv, SeqInv, NEW c \in Console, GiveUp(c) \/ Kill(c)
  PROVE  SeqInv'
<1>0. TypeOK
  BY DEF BidInv
<1>1. /\ Fetches(c) /\ Abandon(c) /\ st[c] \in Running
      /\ UNCHANGED <<cmd, step, out, disk>>
  BY <1>0, FetchFetches DEF GiveUp, Kill, Running
<1>2. \A m \in pending' : m.live => m \in pending /\ m.from # c
  BY <1>1 DEF Abandon, Abandoned, Message
<1>3. CASE GiveUp(c)
  <2>1. Return(c, FALSE) /\ Intends(c)
    BY <1>1, <1>3 DEF GiveUp, Intends
  <2> QED BY <1>1, <1>2, <2>1, FailsSeq
<1>4. CASE Kill(c)
  <2>1. st'[c] = "killed" /\ \A d \in Console \ {c} : Kept(d)
    BY <1>0, <1>1, <1>4 DEF Kill, Goto, TypeOK, Kept
  <2>2. FileFresh(c)' /\ st'[c] \notin Running
    BY <2>1 DEF FileFresh, Running
  <2> QED BY <1>1, <1>2, <2>1, <2>2, QuietSeq
<1> QED BY <1>3, <1>4

\* The node handles a query.
LEMMA HandledSeq ==
  ASSUME BidInv, SeqInv, NEW m \in pending, Serve(m) \/ Refuse(m)
  PROVE  SeqInv'
<1>1. m.from \in Console /\ m.live \in BOOLEAN /\ (m.live => st[m.from] = "waiting")
  BY DEF BidInv, WaitInv, TypeOK
<1>2. PICK a : Deliver(m, a)
  BY DEF Serve, Refuse
<1>3. UNCHANGED <<cmd, step, out, failed, disk>> /\ pending' = pending \ {m}
  BY DEF Serve, Refuse
<1>4. \A d \in Console \ {m.from} : Kept(d)
  BY <1>1, <1>2, <1>3 DEF Deliver, Goto, BidInv, TypeOK, Kept
<1>5. \/ Kept(m.from)
      \/ st[m.from] = "waiting" /\ st'[m.from] = "answered"
  BY <1>1, <1>2, <1>3 DEF Deliver, Goto, BidInv, TypeOK, Kept
<1>6. SentFresh'
  BY <1>3 DEF SeqInv, SentFresh
<1>7. FileFresh(m.from)'
  <2>1. Writing(m.from)' = Writing(m.from)
    BY <1>3, <1>5 DEF Writing, Kept
  <2> QED BY <1>1, <1>3, <1>5, <2>1 DEF SeqInv, FileFresh, Kept, Running
<1>8. st'[m.from] \in Running => \A d \in Console \ {m.from} : st[d] \notin Running
  BY <1>1, <1>5 DEF SeqInv, Kept, Running
<1> QED BY <1>1, <1>3, <1>4, <1>6, <1>7, <1>8, SeqFrame

LEMMA NextSeqInv ==
  ASSUME ~Concurrent
  PROVE  BidInv /\ SeqInv /\ [Next]_vars => SeqInv'
<1> SUFFICES ASSUME BidInv, SeqInv, [Next]_vars PROVE SeqInv'
  OBVIOUS
<1>1. ASSUME NEW c \in Console, Start(c) \/ StartFails(c) PROVE SeqInv'
  BY <1>1, StartSeq
<1>2. ASSUME NEW c \in Console, ConsoleStep(c) PROVE SeqInv'
  BY <1>2, ConsoleStepSeq
<1>3. ASSUME NEW c \in Console, GiveUp(c) \/ Kill(c) PROVE SeqInv'
  BY <1>3, AbandonSeq
<1>4. ASSUME NEW m \in pending, Serve(m) \/ Refuse(m) PROVE SeqInv'
  BY <1>4, HandledSeq
<1>5. CASE Tick \/ UNCHANGED vars
  BY <1>5 DEF Tick, vars, conVars, SeqInv, FileFresh, Writing, SentFresh
<1> QED BY <1>1, <1>2, <1>3, <1>4, <1>5 DEF Next

-----------------------------------------------------------------------------
\* If a console is started only when no other one runs: one console runs at a
\* time, and the file its last command was to write holds what that command
\* wrote, unless it has printed an error.
THEOREM SequentialInvariant ==
  ASSUME ~Concurrent
  PROVE  Spec => []SeqInv
<1>1. Init => SeqInv
  BY InitSeqInv
<1>2. BidInv /\ SeqInv /\ [Next]_vars => SeqInv'
  BY NextSeqInv
<1> QED BY <1>1, <1>2, BidInvariant, PTL DEF Spec

\* Then "sendmessage" of the file that an earlier command was to write sends what
\* that command wrote, whatever stopped, was killed or failed before, unless the
\* console printed an error.
THEOREM MessagesAreFresh ==
  ASSUME ~Concurrent
  PROVE  Spec => []SentFresh
<1>1. SeqInv => SentFresh
  BY DEF SeqInv
<1> QED BY <1>1, SequentialInvariant, PTL

-----------------------------------------------------------------------------
(* Steps that claim no key *)

\* What console d claims does not grow, and it enters neither a bid, unless
\* with no key, nor the writing of one.
Modest(d) ==
  /\ Claimed(d)' \subseteq Claimed(d)
  /\ KeysDiffer(d)'
  /\ InBid(d)' => InBid(d) \/ Claimed(d)' = {}
  /\ BidReady(d)' => BidReady(d) /\ out'[d] = out[d] /\ loc'[d] = loc[d]

LEMMA SameModest ==
  ASSUME NEW d, Same(d), KeysDiffer(d)
  PROVE  Modest(d)
<1>1. NewKeyReceived(d)' = NewKeyReceived(d)
  BY DEF NewKeyReceived, Same
<1>2. Claimed(d)' = Claimed(d)
  BY <1>1 DEF Claimed, Credentials, Same
<1>3. KeysDiffer(d)'
  BY <1>1 DEF KeysDiffer, Same
<1>4. InBid(d)' = InBid(d) /\ BidReady(d)' = BidReady(d)
  BY DEF InBid, BidReady, Same
<1> QED BY <1>2, <1>3, <1>4 DEF Modest, Same

\* Console c goes to a state without a bid and keeps its keys.
LEMMA IdleModest ==
  ASSUME NEW c, KeysDiffer(c), st'[c] \notin {"call", "waiting", "answered"},
         BidReady(c)' => BidReady(c) /\ out'[c] = out[c],
         loc'[c] = loc[c]
  PROVE  Modest(c)
<1>1. ~NewKeyReceived(c)' /\ ~InBid(c)'
  BY DEF NewKeyReceived, InBid
<1>2. Claimed(c)' \subseteq Claimed(c)
  BY <1>1 DEF Claimed, Credentials
<1>3. KeysDiffer(c)'
  BY <1>1 DEF KeysDiffer
<1> QED BY <1>1, <1>2, <1>3 DEF Modest

LEMMA ModestInv ==
  ASSUME KeyInv, NodeHashes \subseteq NodeHashes',
         \A d \in Console : Modest(d),
         SavedKeys' \subseteq SavedKeys, AbandonedKeys' \subseteq AbandonedKeys, OwnKeys'
  PROVE  KeyInv'
<1>1. (SavedKeys \cup AbandonedKeys \subseteq NodeHashes)'
  BY DEF KeyInv
<1>2. \A c \in Console : (Claimed(c) \subseteq NodeHashes /\ KeysDiffer(c))'
  BY DEF KeyInv, Modest
<1>3. \A c, d \in Console : c # d => Claimed(c)' \cap Claimed(d)' = {}
  BY DEF KeyInv, Modest
<1>4. \A c \in Console : InBid(c)' => Claimed(c)' \cap (SavedKeys' \cup AbandonedKeys') = {}
  BY DEF KeyInv, Modest
<1>5. \A c \in Console : BidReady(c)' => /\ KeysOf(out'[c].body) = Credentials(c)'
                                         /\ Credentials(c)' \cap AbandonedKeys' = {}
  <2> SUFFICES ASSUME NEW c \in Console, BidReady(c)'
               PROVE  /\ KeysOf(out'[c].body) = Credentials(c)'
                      /\ Credentials(c)' \cap AbandonedKeys' = {}
    OBVIOUS
  <2>1. BidReady(c) /\ out'[c] = out[c] /\ loc'[c] = loc[c]
    BY DEF Modest
  <2>2. Credentials(c)' = Credentials(c)
    BY <2>1 DEF Credentials
  <2> QED BY <2>1, <2>2 DEF KeyInv
<1>6. AbandonedNeverSaved'
  BY DEF KeyInv, AbandonedNeverSaved
<1> QED BY <1>1, <1>2, <1>3, <1>4, <1>5, <1>6 DEF KeyInv, KeysOf

\* The queries waited for stay about their bids' keys while consoles that
\* wait do not move.
LEMMA OwnKeysStable ==
  ASSUME TypeOK, OwnKeys,
         \A m \in pending' : m.live => m \in pending /\ Same(m.from)
  PROVE  OwnKeys'
<1> SUFFICES ASSUME NEW m \in pending', m.live, OfBid(m)
             PROVE  InBid(m.from)' /\ m.q.args[1] \in Credentials(m.from)'
  BY DEF OwnKeys, OfBid
<1>1. m \in pending /\ Same(m.from)
  OBVIOUS
<1>2. InBid(m.from) /\ m.q.args[1] \in Credentials(m.from)
  BY <1>1 DEF OwnKeys
<1> QED BY <1>1, <1>2 DEF InBid, Credentials, Same

\* Only console c moves, it waits for nothing, and no file changes.
LEMMA LocalKeyInv ==
  ASSUME BidInv, KeyInv, NEW c \in Console, LocalStep(c), Modest(c)
  PROVE  KeyInv'
<1>1. \A d \in Console : Modest(d)
  BY SameModest DEF KeyInv, LocalStep
<1>2. NodeHashes' = NodeHashes /\ SavedKeys' = SavedKeys /\ AbandonedKeys' = AbandonedKeys
  BY DEF LocalStep, NodeHashes, SavedKeys, SavedBids, AbandonedKeys, OfBid, KeysOf, HashOf, Promise!HashOf
<1>3. \A m \in pending' : m.live => m \in pending /\ Same(m.from)
  BY DEF BidInv, TypeOK, WaitInv, LocalStep
<1>4. OwnKeys'
  BY <1>3, OwnKeysStable DEF KeyInv, BidInv
<1> QED BY <1>1, <1>2, <1>4, ModestInv

\* A command or the console ends.
LEMMA QuietKeyInv ==
  ASSUME BidInv, KeyInv, NEW c \in Console,
         NEW s \in {"ready", "pausing", "exited", "refused", "panicked"},
         st[c] # "waiting", Goto(c, s), Fetches(c), Intends(c),
         UNCHANGED <<node, clock, step, loc, reply, pending, disk>>
  PROVE  KeyInv'
<1>0. \A d \in Console \ {c} : out'[d] = out[d]
  BY IntendsOwn DEF BidInv
<1>1. st'[c] = s
  BY DEF Goto, BidInv, TypeOK
<1>2. LocalStep(c)
  BY <1>0 DEF Goto, BidInv, TypeOK, LocalStep, Same, Fetches
<1>3. Modest(c)
  <2>1. ~BidReady(c)'
    BY <1>1 DEF BidReady
  <2> QED BY <1>1, <2>1, IdleModest DEF KeyInv
<1> QED BY <1>2, <1>3, LocalKeyInv

LEMMA ReturnKeyInv ==
  ASSUME BidInv, KeyInv, NEW c \in Console, NEW ok, st[c] # "waiting",
         Return(c, ok), Fetches(c), Intends(c),
         UNCHANGED <<node, clock, step, loc, reply, pending, disk>>
  PROVE  KeyInv'
<1>1. PICK s \in {"ready", "pausing"} : Goto(c, s)
  BY DEF Return
<1> QED BY <1>1, QuietKeyInv

\* A command begins to write a file that is no bid.
LEMMA WriteOtherKeyInv ==
  ASSUME BidInv, KeyInv, NEW c \in Console, st[c] # "waiting", NEW path, NEW body,
         BeginWrite(c, path, body), body.kind # "bid", Fetches(c),
         UNCHANGED <<node, clock, step, loc, reply, pending, disk>>
  PROVE  KeyInv'
<1>1. st'[c] = "open" /\ out'[c].body = body
  BY DEF BeginWrite, Goto, BidInv, TypeOK
<1>2. LocalStep(c)
  BY DEF BeginWrite, Goto, BidInv, TypeOK, LocalStep, Same, Fetches
<1>3. Modest(c)
  <2>1. ~BidReady(c)'
    BY <1>1 DEF BidReady
  <2> QED BY <1>1, <2>1, IdleModest DEF KeyInv
<1> QED BY <1>2, <1>3, LocalKeyInv

\* A command starts: a bid forgets the keys of the bid before it.
LEMMA StartKeyInv ==
  ASSUME BidInv, KeyInv, NEW c \in Console, StartBid(c) \/ StartCommand(c)
  PROVE  KeyInv'
<1>1. /\ st[c] = "ready" /\ st'[c] = "call"
      /\ \/ loc'[c] = NoLocals
         \/ loc'[c] = loc[c] /\ step'[c] = 0
  BY DEF StartBid, StartCommand, Takes, Goto, BidInv, TypeOK
<1>2. LocalStep(c)
  <2>1. Intends(c)
    BY DEF StartBid, StartCommand, Intends
  <2>2. \A d \in Console \ {c} : out'[d] = out[d]
    BY <2>1, IntendsOwn DEF BidInv
  <2> QED BY <1>1, <2>2
          DEF StartBid, StartCommand, Goto, Fetch, BidInv, TypeOK, LocalStep, Same
<1>3. ~NewKeyReceived(c)' /\ ~BidReady(c)'
  BY <1>1 DEF NewKeyReceived, BidReady
<1>4. Claimed(c)' = Credentials(c)'
  BY <1>3 DEF Claimed
<1>5. CASE loc'[c] = NoLocals
  <2>1. Credentials(c)' = {} /\ KeysDiffer(c)'
    BY <1>3, <1>5 DEF Credentials, KeysDiffer, NoLocals
  <2> QED BY <1>3, <1>4, <2>1, <1>2, LocalKeyInv DEF Modest
<1>6. CASE loc'[c] = loc[c] /\ step'[c] = 0
  <2>1. Claimed(c)' \subseteq Claimed(c)
    BY <1>4, <1>6 DEF Claimed, Credentials
  <2>2. KeysDiffer(c)' /\ ~InBid(c)'
    BY <1>3, <1>6 DEF KeysDiffer, KeyInv, InBid
  <2> QED BY <1>3, <2>1, <2>2, <1>2, LocalKeyInv DEF Modest
<1> QED BY <1>1, <1>5, <1>6

-----------------------------------------------------------------------------
(* The steps of a bid *)

\* A bid keeps the key generated for it, and claims no other.
LEMMA BidStepKeyInv ==
  ASSUME BidInv, KeyInv, NEW c \in Console, BidStep(c)
  PROVE  KeyInv'
<1>1. /\ step[c] \in 1 .. 7 /\ st[c] = "answered"
      /\ st'[c] = "call" /\ step'[c] = step[c] + 1 /\ loc'[c] = StoredAnswer(c)
  BY DEF BidStep, AnswerAccepted, Goto, BidInv, TypeOK
<1>2. LocalStep(c)
  BY <1>1 DEF BidStep, Goto, BidInv, TypeOK, LocalStep, Same
<1>3. reply[c].type = AnswerType(BidCall(c).name)
  BY <1>1 DEF BidStep, AnswerAccepted, command_receive, CurrentCall
<1>4. step[c] \in {1, 5} => NewKeyReceived(c)
  <2>1. step[c] \in {1, 5} => AnswerType(BidCall(c).name) = "KeyHash"
    BY BidCallName DEF AnswerType
  <2> QED BY <1>1, <1>3, <2>1 DEF NewKeyReceived
<1>5. ~NewKeyReceived(c)' /\ ~BidReady(c)' /\ InBid(c)
  BY <1>1 DEF NewKeyReceived, BidReady, InBid
<1>6. loc[c] \in Locals
  BY DEF BidInv, TypeOK
<1>7. /\ step[c] = 1 => loc'[c].perm = reply[c].val /\ loc'[c].adnl = loc[c].adnl
      /\ step[c] = 5 => loc'[c].perm = loc[c].perm /\ loc'[c].adnl = reply[c].val
      /\ step[c] \notin {1, 5} => loc'[c].perm = loc[c].perm /\ loc'[c].adnl = loc[c].adnl
  BY <1>1, <1>6 DEF StoredAnswer, Locals
<1>8. Claimed(c)' \subseteq Claimed(c)
  <2>1. Claimed(c)' = Credentials(c)'
    BY <1>5 DEF Claimed
  <2> QED BY <2>1, <1>4, <1>7 DEF Credentials, Claimed
<1>9. KeysDiffer(c)'
  BY <1>4, <1>5, <1>7 DEF KeyInv, KeysDiffer
<1> QED BY <1>2, <1>5, <1>8, <1>9, LocalKeyInv DEF Modest

\* The signed bid is about the keys of the console that signed it.
LEMMA BidSignedKeyInv ==
  ASSUME BidInv, KeyInv, NEW c \in Console, BidSigned(c)
  PROVE  KeyInv'
<1>1. /\ step[c] = 8 /\ st[c] = "answered" /\ st'[c] = "open"
      /\ out'[c].body = BidBody(c) /\ loc' = loc /\ node' = node
      /\ pending' = pending /\ disk' = disk
  BY DEF BidSigned, AnswerAccepted, BeginWrite, Goto, BidInv, TypeOK
<1>2. LocalStep(c)
  BY <1>1 DEF BidSigned, BeginWrite, Goto, BidInv, TypeOK, LocalStep, Same
<1>3. InBid(c) /\ Completed(c, 7)
  BY <1>1 DEF InBid, BidInv, ConsoleInv
<1>4. PICK k \in node.keys : loc[c].perm = KeyHash(k) /\ loc[c].pub = PubKey(k)
  BY <1>3 DEF Completed
<1>5. PICK l \in node.keys : loc[c].adnl = KeyHash(l)
  BY <1>3 DEF Completed
<1>6. KeysOf(BidBody(c)) = {loc[c].perm, loc[c].adnl}
  BY <1>4 DEF KeysOf, HashOf, Promise!HashOf, BidBody, PubKey, KeyHash
<1>7. Credentials(c) = {loc[c].perm, loc[c].adnl}
  <2>1. node.keys \subseteq Key
    BY DEF BidInv, TypeOK
  <2>2. loc[c].perm # None /\ loc[c].adnl # None
    BY <1>4, <1>5, <2>1, NoneAssumption DEF Bytes32
  <2> QED BY <2>2 DEF Credentials
<1>8. Claimed(c)' \subseteq Claimed(c) /\ Credentials(c)' = Credentials(c)
  <2>1. ~NewKeyReceived(c)'
    BY <1>1 DEF NewKeyReceived
  <2> QED BY <1>1, <2>1 DEF Claimed, Credentials
<1>9. NodeHashes' = NodeHashes /\ SavedKeys' = SavedKeys /\ AbandonedKeys' = AbandonedKeys
  BY <1>1 DEF NodeHashes, SavedKeys, SavedBids, AbandonedKeys, OfBid, KeysOf, HashOf, Promise!HashOf
<1>10. Credentials(c) \cap AbandonedKeys = {}
  BY <1>3 DEF KeyInv, Claimed
<1>11. \A d \in Console \ {c} : Modest(d)
  BY <1>2, SameModest DEF KeyInv, LocalStep
<1>12. KeysDiffer(c)' /\ ~InBid(c)'
  BY <1>1 DEF KeysDiffer, KeyInv, NewKeyReceived, InBid
<1>13. OwnKeys'
  <2>1. \A m \in pending' : m.live => m \in pending /\ Same(m.from)
    BY <1>2 DEF BidInv, TypeOK, WaitInv, LocalStep
  <2> QED BY <2>1, OwnKeysStable DEF KeyInv, BidInv
<1>14. \A d \in Console : Claimed(d)' \subseteq Claimed(d)
  BY <1>8, <1>11 DEF Modest
<1>15. (SavedKeys \cup AbandonedKeys \subseteq NodeHashes)' /\ AbandonedNeverSaved'
  BY <1>9 DEF KeyInv, AbandonedNeverSaved
<1>16. \A d \in Console : (Claimed(d) \subseteq NodeHashes /\ KeysDiffer(d))'
  BY <1>9, <1>11, <1>12, <1>14 DEF KeyInv, Modest
<1>17. \A d, e \in Console : d # e => Claimed(d)' \cap Claimed(e)' = {}
  BY <1>14 DEF KeyInv
<1>18. \A d \in Console : InBid(d)' => Claimed(d)' \cap (SavedKeys' \cup AbandonedKeys') = {}
  BY <1>9, <1>11, <1>12 DEF KeyInv, Modest
<1>19. \A d \in Console : BidReady(d)' => /\ KeysOf(out'[d].body) = Credentials(d)'
                                          /\ Credentials(d)' \cap AbandonedKeys' = {}
  <2> SUFFICES ASSUME NEW d \in Console, BidReady(d)'
               PROVE  /\ KeysOf(out'[d].body) = Credentials(d)'
                      /\ Credentials(d)' \cap AbandonedKeys' = {}
    OBVIOUS
  <2>1. CASE d = c
    BY <2>1, <1>1, <1>6, <1>7, <1>8, <1>9, <1>10
  <2>2. CASE d # c
    <3>1. BidReady(d) /\ out'[d] = out[d] /\ loc'[d] = loc[d]
      BY <2>2, <1>11 DEF Modest
    <3> QED BY <3>1, <1>9 DEF KeyInv, Credentials
  <2> QED BY <2>1, <2>2
<1> QED BY <1>13, <1>15, <1>16, <1>17, <1>18, <1>19 DEF KeyInv, KeysOf

-----------------------------------------------------------------------------
(* Files *)

\* Truncating a file, or overwriting it with b, leaves no other bid on disk.
LEMMA DiskKeys ==
  ASSUME TypeOK, NEW path, NEW b, disk' = [disk EXCEPT ![path] = b]
  PROVE  SavedKeys' \subseteq SavedKeys \cup {h \in KeysOf(b) : b.kind = "bid"}
<1>1. ASSUME NEW p \in Path
      PROVE  disk'[p] = disk[p] \/ disk'[p] = b
  BY DEF TypeOK
<1>2. ASSUME NEW h \in SavedKeys'
      PROVE  h \in SavedKeys \/ (b.kind = "bid" /\ h \in KeysOf(b))
  <2>1. PICK p \in Path : disk'[p].kind = "bid" /\ h \in KeysOf(disk'[p])
    BY DEF SavedKeys, SavedBids, KeysOf, HashOf, Promise!HashOf
  <2> QED BY <1>1, <2>1 DEF SavedKeys, SavedBids
<1> QED BY <1>2

LEMMA OpenFileKeyInv ==
  ASSUME BidInv, KeyInv, NEW c \in Console, OpenFile(c)
  PROVE  KeyInv'
<1>1. /\ st[c] = "open" /\ st'[c] = "saving"
      /\ \A d \in Console \ {c} : Same(d)
      /\ UNCHANGED <<node, step, loc, reply, out, pending>>
  BY DEF OpenFile, Goto, Same, BidInv, TypeOK
<1>2. SavedKeys' \subseteq SavedKeys
  <2>1. EmptyFile.kind # "bid"
    BY DEF EmptyFile
  <2> QED BY <2>1, DiskKeys DEF OpenFile, BidInv
<1>3. NodeHashes' = NodeHashes /\ AbandonedKeys' = AbandonedKeys
  BY <1>1 DEF NodeHashes, AbandonedKeys, OfBid
<1>4. \A d \in Console : Modest(d)
  <2>1. BidReady(c)' => BidReady(c)
    BY <1>1 DEF BidReady
  <2>2. Modest(c)
    BY <1>1, <2>1, IdleModest DEF KeyInv
  <2> QED BY <1>1, <2>2, SameModest DEF KeyInv
<1>5. OwnKeys'
  <2>1. \A m \in pending' : m.live => m \in pending /\ Same(m.from)
    BY <1>1 DEF BidInv, TypeOK, WaitInv
  <2> QED BY <2>1, OwnKeysStable DEF KeyInv, BidInv
<1> QED BY <1>2, <1>3, <1>4, <1>5, ModestInv

\* The keys of a saved bid are its console's, and no other's.
LEMMA WriteFileKeyInv ==
  ASSUME BidInv, KeyInv, NEW c \in Console, WriteFile(c)
  PROVE  KeyInv'
<1>1. /\ st[c] = "saving" /\ st'[c] \in {"pausing", "ready"}
      /\ \A d \in Console \ {c} : Same(d)
      /\ UNCHANGED <<node, step, loc, reply, out, pending>>
  BY DEF WriteFile, Return, Goto, Same, BidInv, TypeOK
<1>2. SavedKeys' \subseteq SavedKeys \cup {h \in Credentials(c) : BidReady(c)}
  <2>1. SavedKeys' \subseteq
          SavedKeys \cup {h \in KeysOf(out[c].body) : out[c].body.kind = "bid"}
    BY DiskKeys DEF WriteFile, BidInv
  <2>2. out[c].body.kind = "bid" => BidReady(c)
    BY <1>1 DEF BidReady
  <2>3. BidReady(c) => KeysOf(out[c].body) = Credentials(c)
    BY DEF KeyInv
  <2> QED BY <2>1, <2>2, <2>3
<1>3. NodeHashes' = NodeHashes /\ AbandonedKeys' = AbandonedKeys
  BY <1>1 DEF NodeHashes, AbandonedKeys, OfBid
<1>4. \A d \in Console : Modest(d)
  <2>1. ~BidReady(c)'
    BY <1>1 DEF BidReady
  <2>2. Modest(c)
    BY <1>1, <2>1, IdleModest DEF KeyInv
  <2> QED BY <1>1, <2>2, SameModest DEF KeyInv
<1>5. OwnKeys'
  <2>1. \A m \in pending' : m.live => m \in pending /\ Same(m.from)
    BY <1>1 DEF BidInv, TypeOK, WaitInv
  <2> QED BY <2>1, OwnKeysStable DEF KeyInv, BidInv
<1>6. ~InBid(c)' /\ ~BidReady(c)'
  BY <1>1 DEF InBid, BidReady
<1>7. Credentials(c) \subseteq NodeHashes
  BY DEF KeyInv, Claimed
<1>8. (SavedKeys \cup AbandonedKeys \subseteq NodeHashes)'
  BY <1>2, <1>3, <1>7 DEF KeyInv
<1>9. AbandonedNeverSaved'
  BY <1>2, <1>3 DEF KeyInv, AbandonedNeverSaved
<1>10. \A d \in Console : (Claimed(d) \subseteq NodeHashes /\ KeysDiffer(d))'
  BY <1>3, <1>4 DEF KeyInv, Modest
<1>11. \A d, e \in Console : d # e => Claimed(d)' \cap Claimed(e)' = {}
  BY <1>4 DEF KeyInv, Modest
<1>12. \A d \in Console : InBid(d)' => Claimed(d)' \cap (SavedKeys' \cup AbandonedKeys') = {}
  <2> SUFFICES ASSUME NEW d \in Console, InBid(d)'
               PROVE  Claimed(d)' \cap (SavedKeys' \cup AbandonedKeys') = {}
    OBVIOUS
  <2>1. d # c
    BY <1>6
  <2>2. Claimed(d) \cap Credentials(c) = {}
    BY <2>1 DEF KeyInv, Claimed
  <2>3. Claimed(d)' \subseteq Claimed(d) /\ (InBid(d) \/ Claimed(d)' = {})
    BY <1>4 DEF Modest
  <2>4. InBid(d) => Claimed(d) \cap (SavedKeys \cup AbandonedKeys) = {}
    BY DEF KeyInv
  <2> QED BY <1>2, <1>3, <2>2, <2>3, <2>4
<1>13. \A d \in Console : BidReady(d)' => /\ KeysOf(out'[d].body) = Credentials(d)'
                                          /\ Credentials(d)' \cap AbandonedKeys' = {}
  <2> SUFFICES ASSUME NEW d \in Console, BidReady(d)'
               PROVE  /\ KeysOf(out'[d].body) = Credentials(d)'
                      /\ Credentials(d)' \cap AbandonedKeys' = {}
    OBVIOUS
  <2>1. BidReady(d) /\ out'[d] = out[d] /\ loc'[d] = loc[d]
    BY <1>4 DEF Modest
  <2> QED BY <2>1, <1>3 DEF KeyInv, Credentials
<1> QED BY <1>5, <1>8, <1>9, <1>10, <1>11, <1>12, <1>13 DEF KeyInv, KeysOf

-----------------------------------------------------------------------------
(* Queries *)

\* A query about a key names one: send() has read it.
LEMMA SentKey ==
  ASSUME NEW name \in KeyQueries, NEW params, Accepts(name, params), NEW t, NEW body
  PROVE  /\ command_send(name, params, t, body).args[1] = params[1].val
         /\ params[1].val # None
<1>1. ParamKinds[name][1] = "int256" /\ 1 \in 1 .. Len(ParamKinds[name])
  BY DEF KeyQueries, ParamKinds
<1>2. parse_int256(params[1])
  BY <1>1 DEF Accepts, Reads
<1>3. params[1].val # None
  BY <1>2, NoneAssumption DEF parse_int256
<1>4. command_send(name, params, t, body).args[1] = params[1].val
  <2>1. CASE name \in {"addpermkey", "addtempkey", "addvalidatoraddr"}
    BY <2>1 DEF command_send
  <2>2. CASE name \in {"exportpub", "addadnl", "sign"}
    BY <1>1, <2>2 DEF command_send
  <2> QED BY <2>1, <2>2 DEF KeyQueries
<1> QED BY <1>3, <1>4

\* The key a bid's call names first is its permanent key or its ADNL key.
LEMMA CallKey ==
  ASSUME NEW c, step[c] \in 1 .. 8, BidCall(c).name \in KeyQueries
  PROVE  BidCall(c).params[1].val \in {loc[c].perm, loc[c].adnl}
<1>1. step[c] \notin {1, 5}
  BY BidCallName DEF KeyQueries
<1>2. step[c] \in {2, 3, 4} => BidCall(c).params[1] = Hex(loc[c].perm)
  BY DEF BidCall, PermKeyCall, TempKeyCall, Call
<1>3. step[c] = 6 => BidCall(c).params[1] = Hex(loc[c].adnl)
  BY DEF BidCall, Call
<1>4. step[c] \in {7, 8} => BidCall(c).params[1] = Hex(loc[c].perm)
  BY DEF BidCall, AddressCall, Call
<1> QED BY <1>1, <1>2, <1>3, <1>4 DEF Hex

LEMMA SendQueryKeyInv ==
  ASSUME BidInv, KeyInv, NEW c \in Console, SendQuery(c)
  PROVE  KeyInv'
<1> DEFINE call == CurrentCall(c)
           q == command_send(call.name, call.params, clock, Body(call))
           new == Message(c, TRUE, <<Len(todo[c]), step[c]>>, q)
<1>1. /\ st[c] = "call" /\ st'[c] = "waiting"
      /\ pending' = pending \cup {new}
      /\ Accepts(call.name, call.params)
      /\ UNCHANGED <<node, step, loc, reply, out, disk>>
      /\ \A d \in Console \ {c} : Same(d)
  BY DEF SendQuery, Goto, Same, BidInv, TypeOK
<1>2. step[c] # 0 /\ q.name \in KeyQueries => q.args[1] \in Credentials(c)
  <2> SUFFICES ASSUME step[c] # 0, q.name \in KeyQueries
               PROVE  q.args[1] \in Credentials(c)
    OBVIOUS
  <2>1. step[c] \in 1 .. 8 /\ call = BidCall(c)
    BY DEF CurrentCall, BidInv, TypeOK
  <2>2. q.name = call.name
    BY DEF command_send
  <2>3. q.args[1] = call.params[1].val /\ call.params[1].val # None
    BY <1>1, <2>2, SentKey
  <2>4. call.params[1].val \in {loc[c].perm, loc[c].adnl}
    BY <2>1, <2>2, CallKey
  <2> QED BY <2>3, <2>4 DEF Credentials
<1> HIDE DEF q
<1>3. new.from = c /\ new.live = TRUE /\ new.q = q /\ new.id[2] = step[c]
  BY DEF Message
<1> HIDE DEF new
<1>4. \A m \in pending : m.live => m.from \in Console \ {c}
  BY <1>1 DEF BidInv, WaitInv, TypeOK
<1>5. OwnKeys'
  <2> SUFFICES ASSUME NEW m \in pending', m.live, OfBid(m)
               PROVE  InBid(m.from)' /\ m.q.args[1] \in Credentials(m.from)'
    BY DEF OwnKeys, OfBid
  <2>1. CASE m = new
    BY <1>1, <1>2, <1>3, <2>1 DEF OfBid, InBid, Credentials
  <2>2. CASE m \in pending
    <3>1. Same(m.from)
      BY <1>1, <1>4, <2>2
    <3>2. InBid(m.from) /\ m.q.args[1] \in Credentials(m.from)
      BY <2>2 DEF KeyInv, OwnKeys
    <3> QED BY <3>1, <3>2 DEF InBid, Credentials, Same
  <2> QED BY <1>1, <2>1, <2>2
<1>6. AbandonedKeys' = AbandonedKeys
  BY <1>1, <1>3 DEF AbandonedKeys, OfBid
<1>7. SavedKeys' = SavedKeys /\ NodeHashes' = NodeHashes
  BY <1>1 DEF NodeHashes, SavedKeys, SavedBids, KeysOf, HashOf, Promise!HashOf
<1>8. Modest(c)
  <2>1. ~NewKeyReceived(c)' /\ ~BidReady(c)' /\ (InBid(c)' => InBid(c))
    BY <1>1 DEF NewKeyReceived, BidReady, InBid
  <2>2. Claimed(c)' \subseteq Claimed(c)
    BY <1>1, <2>1 DEF Claimed, Credentials
  <2>3. KeysDiffer(c)'
    BY <1>1, <2>1 DEF KeysDiffer, KeyInv
  <2> QED BY <2>1, <2>2, <2>3 DEF Modest
<1>9. \A d \in Console : Modest(d)
  BY <1>1, <1>8, SameModest DEF KeyInv
<1> QED BY <1>5, <1>6, <1>7, <1>9, ModestInv

\* A bid whose query is abandoned ends with it: its keys are never saved.
LEMMA AbandonKeyInv ==
  ASSUME BidInv, KeyInv, NEW c \in Console, NEW s \in {"killed", "pausing", "ready"},
         Abandon(c), Goto(c, s), UNCHANGED <<node, cmd, step, loc, reply, out, disk>>
  PROVE  KeyInv'
<1>1. st'[c] = s /\ \A d \in Console \ {c} : Same(d)
  BY DEF Goto, Same, BidInv, TypeOK
<1>2. ~InBid(c)' /\ ~BidReady(c)'
  BY <1>1 DEF InBid, BidReady
<1>3. \A d \in Console : Modest(d)
  BY <1>1, <1>2, SameModest, IdleModest DEF KeyInv
<1>4. NodeHashes' = NodeHashes /\ SavedKeys' = SavedKeys
  BY DEF NodeHashes, SavedKeys, SavedBids, KeysOf, HashOf, Promise!HashOf
<1>5. AbandonedKeys' \subseteq AbandonedKeys \cup {h \in Credentials(c) : InBid(c)}
  <2> SUFFICES ASSUME NEW m \in pending', ~m.live, OfBid(m), m.q.args[1] \notin AbandonedKeys
               PROVE  InBid(c) /\ m.q.args[1] \in Credentials(c)
    BY DEF AbandonedKeys, OfBid
  <2>1. m \notin pending
    BY DEF AbandonedKeys
  <2>2. PICK n \in pending : n.from = c /\ m = Message(c, FALSE, n.id, n.q)
    BY <2>1 DEF Abandon, Abandoned
  <2>3. m.q = n.q /\ m.id = n.id
    BY <2>2 DEF Message
  <2>4. OfBid(n)
    BY <2>3 DEF OfBid
  <2>5. n.live
    BY <2>3, <2>4 DEF AbandonedKeys
  <2> QED BY <2>2, <2>3, <2>4, <2>5 DEF KeyInv, OwnKeys
<1>6. OwnKeys'
  <2>1. ASSUME NEW m \in pending', m.live PROVE m \in pending /\ m.from # c
    BY <2>1 DEF Abandon, Abandoned, Message
  <2>2. \A m \in pending' : m.live => m \in pending /\ Same(m.from)
    BY <1>1, <2>1 DEF BidInv, TypeOK
  <2> QED BY <2>2, OwnKeysStable DEF KeyInv, BidInv
<1>7. /\ Credentials(c) \subseteq NodeHashes
      /\ InBid(c) => Credentials(c) \cap SavedKeys = {}
      /\ \A d \in Console \ {c} : Claimed(d) \cap Credentials(c) = {}
  BY DEF KeyInv, Claimed
<1>8. (SavedKeys \cup AbandonedKeys \subseteq NodeHashes)'
  BY <1>4, <1>5, <1>7 DEF KeyInv
<1>9. AbandonedNeverSaved'
  BY <1>4, <1>5, <1>7 DEF KeyInv, AbandonedNeverSaved
<1>10. \A d \in Console : (Claimed(d) \subseteq NodeHashes /\ KeysDiffer(d))'
  BY <1>3, <1>4 DEF KeyInv, Modest
<1>11. \A d, e \in Console : d # e => Claimed(d)' \cap Claimed(e)' = {}
  BY <1>3 DEF KeyInv, Modest
<1>12. \A d \in Console : InBid(d)' => Claimed(d)' \cap (SavedKeys' \cup AbandonedKeys') = {}
  <2> SUFFICES ASSUME NEW d \in Console, InBid(d)'
               PROVE  Claimed(d)' \cap (SavedKeys' \cup AbandonedKeys') = {}
    OBVIOUS
  <2>1. Claimed(d) \cap Credentials(c) = {}
    BY <1>2, <1>7
  <2>2. Claimed(d)' \subseteq Claimed(d) /\ (InBid(d) \/ Claimed(d)' = {})
    BY <1>3 DEF Modest
  <2>3. InBid(d) => Claimed(d) \cap (SavedKeys \cup AbandonedKeys) = {}
    BY DEF KeyInv
  <2> QED BY <1>4, <1>5, <2>1, <2>2, <2>3
<1>13. \A d \in Console : BidReady(d)' => /\ KeysOf(out'[d].body) = Credentials(d)'
                                          /\ Credentials(d)' \cap AbandonedKeys' = {}
  <2> SUFFICES ASSUME NEW d \in Console, BidReady(d)'
               PROVE  /\ KeysOf(out'[d].body) = Credentials(d)'
                      /\ Credentials(d)' \cap AbandonedKeys' = {}
    OBVIOUS
  <2>1. BidReady(d) /\ out'[d] = out[d] /\ loc'[d] = loc[d] /\ d # c
    BY <1>2, <1>3 DEF Modest
  <2>2. Credentials(d) \cap Credentials(c) = {}
    BY <1>7, <2>1 DEF Claimed
  <2>3. Credentials(d)' = Credentials(d)
    BY <2>1 DEF Credentials
  <2> QED BY <2>1, <2>2, <2>3, <1>5 DEF KeyInv
<1> QED BY <1>6, <1>8, <1>9, <1>10, <1>11, <1>12, <1>13 DEF KeyInv, KeysOf

\* The node has handled query m: a key hash that reaches a bid is a new one.
LEMMA HandledKeyInv ==
  ASSUME BidInv, KeyInv, NEW m \in pending, NEW a, pending' = pending \ {m}, Deliver(m, a),
         node.keys \subseteq node'.keys, node'.keys \subseteq Key,
         UNCHANGED <<cmd, step, loc, out, disk>>,
         m.live /\ NewKeyReceived(m.from)' => reply'[m.from].val \in NodeHashes' \ NodeHashes
  PROVE  KeyInv'
<1>1. m.from \in Console /\ m.live \in BOOLEAN
  BY DEF BidInv, TypeOK
<1>2. \A d \in Console : ~(m.live /\ d = m.from) => Same(d)
  BY <1>1 DEF Deliver, Goto, Same, BidInv, TypeOK
<1>3. NodeHashes \subseteq NodeHashes' /\ SavedKeys' = SavedKeys
  BY DEF NodeHashes, SavedKeys, SavedBids, KeysOf, HashOf, Promise!HashOf
<1>4. AbandonedKeys' \subseteq AbandonedKeys
  BY DEF AbandonedKeys, OfBid
<1>5. OwnKeys'
  <2>1. \A n \in pending' : n.live => n \in pending /\ ~(m.live /\ n.from = m.from)
    BY DEF BidInv, WaitInv
  <2>2. \A n \in pending' : n.live => n \in pending /\ Same(n.from)
    BY <1>2, <2>1 DEF BidInv, TypeOK
  <2> QED BY <2>2, OwnKeysStable DEF KeyInv, BidInv
<1>6. CASE ~m.live
  <2>1. \A d \in Console : Modest(d)
    BY <1>2, <1>6, SameModest DEF KeyInv
  <2> QED BY <2>1, <1>3, <1>4, <1>5, ModestInv
<1>7. CASE m.live
  <2> DEFINE c == m.from
  <2>1. st[c] = "waiting" /\ st'[c] = "answered" /\ loc'[c] = loc[c] /\ step'[c] = step[c]
    BY <1>1, <1>7 DEF BidInv, WaitInv, TypeOK, Deliver, Goto
  <2>2. ~BidReady(c)' /\ InBid(c)' = InBid(c) /\ ~NewKeyReceived(c)
    BY <2>1 DEF BidReady, InBid, NewKeyReceived
  <2>3. \A d \in Console \ {c} : Modest(d)
    BY <1>2, SameModest DEF KeyInv
  <2>4. CASE ~NewKeyReceived(c)'
    <3>1. Claimed(c)' \subseteq Claimed(c) /\ KeysDiffer(c)'
      BY <1>1, <2>1, <2>4 DEF Claimed, Credentials, KeysDiffer, KeyInv
    <3>2. Modest(c)
      BY <2>2, <3>1 DEF Modest
    <3> QED BY <2>3, <3>2, <1>3, <1>4, <1>5, ModestInv
  <2>5. CASE NewKeyReceived(c)'
    <3> DEFINE h == reply'[c].val
    <3>1. h \in NodeHashes' /\ h \notin NodeHashes
      BY <1>7, <2>5
    <3>2. Claimed(c)' = Claimed(c) \cup {h}
      BY <2>1, <2>2, <2>5 DEF Claimed, Credentials
    <3> HIDE DEF h
    <3>3. \A d \in Console : Claimed(d) \subseteq NodeHashes
      BY DEF KeyInv
    <3>4. \A d \in Console \ {c} : Claimed(d)' \subseteq Claimed(d)
      BY <2>3 DEF Modest
    <3>5. KeysDiffer(c)'
      <4>1. h \notin {loc[c].perm, loc[c].adnl}
        <5>1. h # None
          BY <3>1, NoneAssumption DEF NodeHashes, Bytes32
        <5> QED BY <1>1, <3>1, <3>3, <5>1 DEF Claimed, Credentials
      <4> QED BY <1>1, <2>1, <4>1 DEF KeysDiffer, KeyInv, h
    <3>6. (SavedKeys \cup AbandonedKeys \subseteq NodeHashes)' /\ AbandonedNeverSaved'
      BY <1>3, <1>4 DEF KeyInv, AbandonedNeverSaved
    <3>7. h \notin SavedKeys \cup AbandonedKeys
      BY <3>1 DEF KeyInv
    <3>8. \A d \in Console : (Claimed(d) \subseteq NodeHashes /\ KeysDiffer(d))'
      BY <1>3, <2>3, <3>1, <3>2, <3>3, <3>4, <3>5 DEF Modest
    <3>9. \A d, e \in Console : d # e => Claimed(d)' \cap Claimed(e)' = {}
      <4>1. \A d \in Console \ {c} : h \notin Claimed(d)'
        BY <3>1, <3>3, <3>4
      <4>2. \A d, e \in Console : d # e => Claimed(d) \cap Claimed(e) = {}
        BY DEF KeyInv
      <4> QED BY <3>2, <3>4, <4>1, <4>2
    <3>10. \A d \in Console :
             InBid(d)' => Claimed(d)' \cap (SavedKeys' \cup AbandonedKeys') = {}
      <4>1. ASSUME InBid(c)' PROVE Claimed(c)' \cap (SavedKeys' \cup AbandonedKeys') = {}
        <5>1. Claimed(c) \cap (SavedKeys \cup AbandonedKeys) = {}
          BY <1>1, <2>2, <4>1 DEF KeyInv
        <5> QED BY <1>3, <1>4, <3>2, <3>7, <5>1
      <4>2. ASSUME NEW d \in Console \ {c}, InBid(d)'
            PROVE  Claimed(d)' \cap (SavedKeys' \cup AbandonedKeys') = {}
        BY <1>3, <1>4, <2>3, <4>2 DEF KeyInv, Modest
      <4> QED BY <4>1, <4>2
    <3>11. \A d \in Console : BidReady(d)' => /\ KeysOf(out'[d].body) = Credentials(d)'
                                              /\ Credentials(d)' \cap AbandonedKeys' = {}
      <4> SUFFICES ASSUME NEW d \in Console, BidReady(d)'
                   PROVE  /\ KeysOf(out'[d].body) = Credentials(d)'
                          /\ Credentials(d)' \cap AbandonedKeys' = {}
        OBVIOUS
      <4>1. BidReady(d) /\ out'[d] = out[d] /\ loc'[d] = loc[d]
        BY <2>2, <2>3 DEF Modest
      <4> QED BY <4>1, <1>4 DEF KeyInv, Credentials
    <3> QED BY <1>5, <3>6, <3>8, <3>9, <3>10, <3>11 DEF KeyInv, KeysOf
  <2> QED BY <2>4, <2>5
<1> QED BY <1>1, <1>6, <1>7

LEMMA ServeKeyInv ==
  ASSUME BidInv, KeyInv, NEW m \in pending, Serve(m)
  PROVE  KeyInv'
<1>1. PICK o \in Outcomes(m.q) :
        /\ node' = o.node /\ pending' = pending \ {m} /\ Deliver(m, o.answer)
        /\ UNCHANGED <<clock, todo, cmd, step, loc, out, failed, disk>>
  BY DEF Serve
<1>2. node.keys \subseteq node'.keys /\ node'.keys \subseteq Key
  BY <1>1, OutcomeGrows DEF BidInv, Grows, NodeFields
<1>3. ASSUME m.live, NewKeyReceived(m.from)'
      PROVE  reply'[m.from].val \in NodeHashes' \ NodeHashes
  <2>1. m.from \in Console /\ st[m.from] = "waiting" /\ step[m.from] \in {1, 5}
    BY <1>1, <1>3 DEF BidInv, WaitInv, TypeOK, NewKeyReceived
  <2>2. Asked(m.from, m.q)
    BY <1>3, <2>1 DEF BidInv, ConsoleInv, InBid
  <2>3. m.q.name = "newkey"
    BY <2>1, <2>2, BidCallName DEF Asked
  <2>4. o \in GenerateKeyPair
    BY <2>3 DEF Outcomes
  <2>5. PICK k \in Key \ node.keys :
          o = [node   |-> [node EXCEPT !.keys = @ \cup {k}],
               answer |-> Answer("KeyHash", KeyHash(k))]
    BY <2>4 DEF GenerateKeyPair
  <2>6. k \in node'.keys
    BY <1>1, <2>5 DEF BidInv, TypeOK, NodeFields
  <2>7. reply'[m.from].val = KeyHash(k)
    BY <1>1, <1>3, <2>1, <2>5 DEF Deliver, Answer, BidInv, TypeOK
  <2>8. \A l : KeyHash(l) = KeyHash(k) => l = k
    BY DEF KeyHash
  <2> QED BY <2>5, <2>6, <2>7, <2>8 DEF NodeHashes
<1> QED BY <1>1, <1>2, <1>3, HandledKeyInv

LEMMA RefuseKeyInv ==
  ASSUME BidInv, KeyInv, NEW m \in pending, Refuse(m)
  PROVE  KeyInv'
<1>1. PICK a \in Refusals :
        /\ pending' = pending \ {m} /\ Deliver(m, a)
        /\ UNCHANGED <<node, clock, todo, cmd, step, loc, out, failed, disk>>
  BY DEF Refuse
<1>2. node.keys \subseteq node'.keys /\ node'.keys \subseteq Key
  BY <1>1 DEF BidInv, TypeOK
<1>3. m.live => ~NewKeyReceived(m.from)'
  <2>1. m.live => reply'[m.from].type \in {"ControlQueryError", "Unexpected"}
    BY <1>1 DEF Deliver, BidInv, TypeOK, Refusals, Answer
  <2> QED BY <2>1 DEF NewKeyReceived
<1> QED BY <1>1, <1>2, <1>3, HandledKeyInv

-----------------------------------------------------------------------------
(* The invariant *)

LEMMA InitKeyInv == Init => KeyInv
<1> SUFFICES ASSUME Init PROVE KeyInv
  OBVIOUS
<1>1. SavedKeys = {} /\ AbandonedKeys = {} /\ OwnKeys
  BY DEF Init, SavedKeys, SavedBids, AbandonedKeys, OwnKeys, NoFile
<1>2. ASSUME NEW c \in Console
      PROVE  Claimed(c) = {} /\ KeysDiffer(c) /\ ~InBid(c) /\ ~BidReady(c)
  BY DEF Init, Claimed, Credentials, NewKeyReceived, KeysDiffer, NoLocals, InBid, BidReady
<1> QED BY <1>1, <1>2 DEF KeyInv, AbandonedNeverSaved

LEMMA ConsoleStepKeyInv ==
  ASSUME BidInv, KeyInv, NEW c \in Console, ConsoleStep(c)
  PROVE  KeyInv'
<1>0. TypeOK /\ st = [st EXCEPT ![c] = st[c]]
  BY DEF BidInv, TypeOK
<1>1. CASE PanicOnBlank(c) \/ Exit(c) \/ Wake(c) \/ SkipLine(c)
  <2>1. Fetches(c) /\ st[c] \in {"ready", "pausing"}
    BY <1>0, <1>1, FetchFetches DEF PanicOnBlank, Exit, Wake, SkipLine, Takes
  <2>2. PICK s \in {"panicked", "exited", "ready"} : Goto(c, s)
    BY <1>0, <1>1 DEF PanicOnBlank, Exit, Wake, SkipLine, Takes, Goto
  <2> QED BY <1>1, <2>1, <2>2, QuietKeyInv DEF PanicOnBlank, Exit, Wake, SkipLine, Intends
<1>2. CASE SplitFails(c) \/ ConfigParamFails(c) \/ BidRejected(c)
  <2>1. Fetches(c) /\ st[c] = "ready"
    BY <1>0, <1>2, FetchFetches DEF SplitFails, ConfigParamFails, BidRejected, Takes
  <2>2. Intends(c)
    BY <1>2 DEF SplitFails, ConfigParamFails, BidRejected, Intends
  <2> QED BY <1>2, <2>1, <2>2, ReturnKeyInv DEF SplitFails, ConfigParamFails, BidRejected
<1>3. CASE StartCommand(c) \/ StartBid(c)
  BY <1>3, StartKeyInv
<1>4. CASE CommandDone(c)
  <2>1. Fetches(c) /\ st[c] = "answered"
    BY <1>0, <1>4, FetchFetches DEF CommandDone, AnswerAccepted
  <2>2. CASE SavesAccount(cmd[c].name, cmd[c].params)
    BY <1>4, <2>1, <2>2, WriteOtherKeyInv DEF CommandDone
  <2>3. CASE ~SavesAccount(cmd[c].name, cmd[c].params)
    BY <1>4, <2>1, <2>3, ReturnKeyInv DEF CommandDone, Intends
  <2> QED BY <2>2, <2>3
<1>5. CASE SendQuery(c)
  BY <1>5, SendQueryKeyInv
<1>6. CASE SendRejected(c) \/ AnswerRejected(c) \/ BidUnverified(c) \/ WriteFails(c)
  <2>1. Fetches(c) /\ st[c] # "waiting"
    BY <1>0, <1>6, FetchFetches
       DEF SendRejected, AnswerRejected, BidUnverified, WriteFails, AnswerAccepted
  <2> QED BY <1>6, <2>1, ReturnKeyInv
          DEF SendRejected, AnswerRejected, BidUnverified, WriteFails, Intends
<1>7. CASE RecoverStake(c)
  <2>1. Fetches(c) /\ st[c] = "ready"
    BY <1>0, <1>7, FetchFetches DEF RecoverStake, Takes
  <2> QED BY <1>7, <2>1, WriteOtherKeyInv DEF RecoverStake
<1>8. CASE ConfigParam(c)
  <2>1. Fetches(c) /\ st[c] = "ready"
    BY <1>0, <1>8, FetchFetches DEF ConfigParam, Takes
  <2> QED BY <1>8, <2>1, WriteOtherKeyInv DEF ConfigParam
<1>9. CASE BidStep(c)
  BY <1>9, BidStepKeyInv
<1>10. CASE BidSigned(c)
  BY <1>10, BidSignedKeyInv
<1>11. CASE OpenFile(c)
  BY <1>11, OpenFileKeyInv
<1>12. CASE WriteFile(c)
  BY <1>12, WriteFileKeyInv
<1> QED BY <1>1, <1>2, <1>3, <1>4, <1>5, <1>6, <1>7, <1>8, <1>9, <1>10, <1>11, <1>12
        DEF ConsoleStep

LEMMA NextKeyInv == BidInv /\ KeyInv /\ [Next]_vars => KeyInv'
<1> SUFFICES ASSUME BidInv, KeyInv, [Next]_vars PROVE KeyInv'
  OBVIOUS
<1>0. TypeOK
  BY DEF BidInv
<1>1. ASSUME NEW c \in Console, Start(c) \/ StartFails(c) PROVE KeyInv'
  <2>1. PICK s \in {"ready", "refused"} : Goto(c, s)
    BY <1>1 DEF Start, StartFails
  <2>2. Fetches(c) /\ st[c] # "waiting"
    BY <1>0, <1>1, FetchFetches DEF Start, StartFails
  <2> QED BY <1>1, <2>1, <2>2, QuietKeyInv DEF Start, StartFails, Intends
<1>2. ASSUME NEW c \in Console, ConsoleStep(c) PROVE KeyInv'
  BY <1>2, ConsoleStepKeyInv
<1>3. ASSUME NEW c \in Console, GiveUp(c) \/ Kill(c) PROVE KeyInv'
  <2>1. PICK s \in {"pausing", "ready", "killed"} : Goto(c, s)
    BY <1>3 DEF GiveUp, Kill, Return
  <2> QED BY <1>3, <2>1, AbandonKeyInv DEF GiveUp, Kill
<1>4. ASSUME NEW m \in pending, Serve(m) \/ Refuse(m) PROVE KeyInv'
  BY <1>4, ServeKeyInv, RefuseKeyInv
<1>5. CASE Tick \/ UNCHANGED vars
  <2>1. UNCHANGED <<node, conVars, pending, disk>>
    BY <1>5 DEF Tick, vars
  <2>2. \A d \in Console : Same(d)
    BY <2>1 DEF Same, conVars
  <2>3. \A d \in Console : Modest(d)
    BY <2>2, SameModest DEF KeyInv
  <2>4. NodeHashes' = NodeHashes /\ SavedKeys' = SavedKeys /\ AbandonedKeys' = AbandonedKeys
    BY <2>1 DEF NodeHashes, SavedKeys, SavedBids, AbandonedKeys, OfBid, KeysOf, HashOf, Promise!HashOf
  <2>5. OwnKeys'
    BY <1>0, <2>1, <2>2, OwnKeysStable DEF KeyInv, TypeOK
  <2> QED BY <2>3, <2>4, <2>5, ModestInv
<1> QED BY <1>1, <1>2, <1>3, <1>4, <1>5 DEF Next

-----------------------------------------------------------------------------
\* Every key that the node generated for a bid stays with that bid, and is
\* either with a bid that may still be saved or with an abandoned query,
\* whatever consoles run side by side and whichever of them are killed.
THEOREM KeyInvariant == Spec => []KeyInv
<1>1. Init => KeyInv
  BY InitKeyInv
<1>2. BidInv /\ KeyInv /\ [Next]_vars => KeyInv'
  BY NextKeyInv
<1> QED BY <1>1, <1>2, BidInvariant, PTL DEF Spec

\* No two consoles' bids use the same key, and no bid uses its permanent key
\* as its ADNL address (process_election_bid asks for two new keys).
THEOREM CredentialsAreUnshared == Spec => []CredentialsUnshared
<1>1. KeyInv => CredentialsUnshared
  BY DEF KeyInv, CredentialsUnshared, KeysDiffer, Claimed
<1> QED BY <1>1, KeyInvariant, PTL

\* A query that a bid gave up on, and that the node may still execute, never
\* concerns a key of a bid on disk.
THEOREM AbandonedAreNeverSaved == Spec => []AbandonedNeverSaved
<1>1. KeyInv => AbandonedNeverSaved
  BY DEF KeyInv
<1> QED BY <1>1, KeyInvariant, PTL

-----------------------------------------------------------------------------
(* The fixed-point factor *)

\* A factor that the check accepts becomes a number between 1 and 100 in
\* 16-bit fixed point, whatever its fraction.
LEMMA FixedRange ==
  ASSUME NEW f \in Int, f >= FactorDen, f <= 100 * FactorDen
  PROVE  FixedFactor(f) >= 65536 /\ FixedFactor(f) <= 100 * 65536
<1> DEFINE n == FixedFactor(f)
<1>1. FactorDen \in Nat \ {0}
  BY ConsoleAssumption
<1>2. PICK a \in Int : a = f * 65536
  OBVIOUS
<1>3. n = a \div FactorDen
  BY <1>2 DEF FixedFactor
<1>4. n \in Int /\ n * FactorDen <= a /\ a < n * FactorDen + FactorDen
  BY <1>1, <1>3
<1> HIDE DEF n
<1>5. n >= 65536
  <2> SUFFICES ASSUME n + 1 <= 65536 PROVE FALSE
    BY <1>4
  <2>1. (n + 1) * FactorDen <= 65536 * FactorDen
    BY <1>1, <1>4
  <2> QED BY <1>1, <1>2, <1>4, <2>1
<1>6. n <= 100 * 65536
  <2> SUFFICES ASSUME 6553601 <= n PROVE FALSE
    BY <1>4
  <2>1. 6553601 * FactorDen <= n * FactorDen
    BY <1>1, <1>4
  <2> QED BY <1>1, <1>2, <1>4, <2>1
<1> QED BY <1>5, <1>6 DEF n

InRange(b) == b.kind = "bid" => b.max_factor >= 65536 /\ b.max_factor <= 100 * 65536

\* Inductive: the limits are checked before the first call of a bid.
FactorInv ==
  /\ \A c \in Console : InBid(c) => FactorOk(Config[c].max_factor)
  /\ \A c \in Console : st[c] \in {"open", "saving"} => InRange(out[c].body)
  /\ \A p \in Path : InRange(disk[p])

\* Console c does not begin a bid or the writing of one.
LEMMA FactorFrame ==
  ASSUME FactorInv, NEW c \in Console,
         \A d \in Console \ {c} : Same(d),
         InBid(c)' => FactorOk(Config[c].max_factor),
         st'[c] \in {"open", "saving"} => InRange(out'[c].body),
         \A p \in Path : disk'[p] = disk[p]
  PROVE  FactorInv'
<1>1. \A d \in Console : InBid(d)' => FactorOk(Config[d].max_factor)
  BY DEF FactorInv, InBid, Same
<1>2. \A d \in Console : st'[d] \in {"open", "saving"} => InRange(out'[d].body)
  BY DEF FactorInv, Same
<1>3. \A p \in Path : InRange(disk'[p])
  BY DEF FactorInv
<1> QED BY <1>1, <1>2, <1>3 DEF FactorInv, InRange

\* The factor of a signed bid is the one that was checked.
LEMMA SignedRange ==
  ASSUME FactorInv, NEW c \in Console, InBid(c)
  PROVE  InRange(BidBody(c))
<1> DEFINE f == Config[c].max_factor
<1>1. f \in Int /\ f >= FactorDen /\ f <= 100 * FactorDen
  BY ConsoleAssumption DEF FactorInv, FactorOk
<1> HIDE DEF f
<1>2. FixedFactor(f) >= 65536 /\ FixedFactor(f) <= 100 * 65536
  BY <1>1, FixedRange
<1>3. BidBody(c).max_factor = FixedFactor(f)
  BY DEF BidBody, max_factor, f
<1> QED BY <1>2, <1>3 DEF InRange

LEMMA ConsoleStepFactor ==
  ASSUME TypeOK, FactorInv, NEW c \in Console, ConsoleStep(c)
  PROVE  FactorInv'
<1>0. /\ st = [st EXCEPT ![c] = st[c]]
      /\ InBid(c) => FactorOk(Config[c].max_factor)
  BY DEF TypeOK, FactorInv
<1>1. CASE \/ PanicOnBlank(c) \/ SplitFails(c) \/ SkipLine(c) \/ Exit(c) \/ Wake(c)
           \/ SendRejected(c) \/ AnswerRejected(c) \/ ConfigParamFails(c)
           \/ BidRejected(c) \/ BidUnverified(c) \/ WriteFails(c)
  <2>1. PICK s \in {"ready", "pausing", "panicked", "exited"} : Goto(c, s)
    BY <1>0, <1>1 DEF PanicOnBlank, SplitFails, SkipLine, Exit, Wake, SendRejected,
       AnswerRejected, ConfigParamFails, BidRejected, BidUnverified, WriteFails, Return,
       Takes, Goto
  <2>2. Fetches(c) /\ Intends(c) /\ UNCHANGED <<step, loc, reply, disk>>
    BY <1>1, FetchFetches DEF PanicOnBlank, SplitFails, SkipLine, Exit, Wake, SendRejected,
       AnswerRejected, ConfigParamFails, BidRejected, BidUnverified, WriteFails, Intends
  <2>3. st'[c] = s /\ \A d \in Console \ {c} : Same(d)
    BY <2>1, <2>2, IntendsOwn DEF Goto, TypeOK, Same, Fetches
  <2> QED BY <2>2, <2>3, FactorFrame DEF InBid
<1>2. CASE StartCommand(c) \/ SendQuery(c) \/ BidStep(c)
  <2>1. /\ st'[c] \in {"call", "waiting"}
        /\ UNCHANGED disk /\ \A d \in Console \ {c} : Same(d)
    <3>1. Intends(c)
      BY <1>2 DEF StartCommand, SendQuery, BidStep, Intends
    <3>2. \A d \in Console \ {c} : out'[d] = out[d]
      BY <3>1, IntendsOwn
    <3>3. CASE StartCommand(c)
      BY <3>2, <3>3 DEF StartCommand, Goto, Fetch, TypeOK, Same
    <3>4. CASE SendQuery(c)
      BY <3>2, <3>4 DEF SendQuery, Goto, TypeOK, Same
    <3>5. CASE BidStep(c)
      BY <3>2, <3>5 DEF BidStep, Goto, TypeOK, Same
    <3> QED BY <1>2, <3>3, <3>4, <3>5
  <2>2. step'[c] # 0 => InBid(c)
    <3>1. CASE StartCommand(c)
      BY <3>1 DEF StartCommand, TypeOK
    <3>2. CASE SendQuery(c)
      BY <3>2 DEF SendQuery, InBid
    <3>3. CASE BidStep(c)
      BY <3>3 DEF BidStep, AnswerAccepted, InBid
    <3> QED BY <1>2, <3>1, <3>2, <3>3
  <2> QED BY <1>0, <2>1, <2>2, FactorFrame DEF InBid
<1>3. CASE StartBid(c)
  <2>1. /\ st'[c] = "call" /\ FactorOk(Config[c].max_factor)
        /\ UNCHANGED disk /\ \A d \in Console \ {c} : Same(d)
    <3>1. Intends(c)
      BY <1>3 DEF StartBid, Intends
    <3>2. \A d \in Console \ {c} : out'[d] = out[d]
      BY <3>1, IntendsOwn
    <3> QED BY <1>3, <3>2 DEF StartBid, BidOk, Goto, Fetch, TypeOK, Same
  <2> QED BY <2>1, FactorFrame
<1>4. ASSUME NEW path, NEW body, BeginWrite(c, path, body), InRange(body), Fetches(c),
             UNCHANGED <<step, loc, reply, disk>>
      PROVE  FactorInv'
  <2>1. st'[c] = "open" /\ out'[c].body = body /\ \A d \in Console \ {c} : Same(d)
    BY <1>4 DEF BeginWrite, Goto, TypeOK, Same, Fetches
  <2> QED BY <1>4, <2>1, FactorFrame DEF InBid
<1>5. CASE CommandDone(c)
  <2>1. Fetches(c) /\ UNCHANGED <<step, loc, reply, disk>>
    BY <1>5, FetchFetches DEF CommandDone
  <2>2. CASE SavesAccount(cmd[c].name, cmd[c].params)
    <3>1. InRange([kind |-> "account"])
      BY DEF InRange
    <3> QED BY <1>4, <1>5, <2>1, <2>2, <3>1 DEF CommandDone
  <2>3. CASE ~SavesAccount(cmd[c].name, cmd[c].params)
    <3>1. /\ st'[c] \in {"ready", "pausing"} /\ UNCHANGED out
          /\ \A d \in Console \ {c} : Same(d)
      BY <1>5, <2>1, <2>3 DEF CommandDone, Return, Goto, TypeOK, Same, Fetches
    <3> QED BY <2>1, <3>1, FactorFrame DEF InBid
  <2> QED BY <2>2, <2>3
<1>6. CASE RecoverStake(c)
  <2>1. InRange([kind |-> "recover", query_id |-> QueryId(clock)])
    BY DEF InRange
  <2> QED BY <1>4, <1>6, <2>1, FetchFetches DEF RecoverStake
<1>7. CASE ConfigParam(c)
  <2>1. InRange([kind |-> "config", index |-> Head(todo[c]).params[1].val])
    BY DEF InRange
  <2> QED BY <1>4, <1>7, <2>1, FetchFetches DEF ConfigParam
<1>8. CASE BidSigned(c)
  <2>1. InRange(BidBody(c))
    BY <1>8, SignedRange DEF BidSigned, AnswerAccepted, InBid
  <2> QED BY <1>4, <1>8, <2>1, FetchFetches DEF BidSigned
<1>9. CASE OpenFile(c) \/ WriteFile(c)
  <2>1. PICK b \in {EmptyFile, out[c].body} : disk' = [disk EXCEPT ![out[c].path] = b]
    BY <1>9 DEF OpenFile, WriteFile
  <2>2. InRange(b)
    <3>1. InRange(EmptyFile)
      BY DEF InRange, EmptyFile
    <3>2. InRange(out[c].body)
      BY <1>9 DEF OpenFile, WriteFile, FactorInv
    <3> QED BY <2>1, <3>1, <3>2
  <2>3. /\ st[c] \in {"open", "saving"} /\ st'[c] \in {"saving", "ready", "pausing"}
        /\ UNCHANGED out /\ \A d \in Console \ {c} : Same(d)
    BY <1>9 DEF OpenFile, WriteFile, Return, Goto, TypeOK, Same
  <2>4. \A p \in Path : InRange(disk'[p])
    BY <2>1, <2>2 DEF FactorInv, TypeOK
  <2>5. \A d \in Console : InBid(d)' => FactorOk(Config[d].max_factor)
    BY <2>3 DEF FactorInv, InBid, Same
  <2>6. \A d \in Console : st'[d] \in {"open", "saving"} => InRange(out'[d].body)
    BY <2>3 DEF FactorInv, Same
  <2> QED BY <2>4, <2>5, <2>6 DEF FactorInv, InRange
<1> QED BY <1>1, <1>2, <1>3, <1>5, <1>6, <1>7, <1>8, <1>9 DEF ConsoleStep

LEMMA NextFactor == BidInv /\ FactorInv /\ [Next]_vars => FactorInv'
<1> SUFFICES ASSUME BidInv, FactorInv, [Next]_vars PROVE FactorInv'
  OBVIOUS
<1>0. TypeOK
  BY DEF BidInv
<1>1. ASSUME NEW c \in Console, Start(c) \/ StartFails(c) \/ GiveUp(c) \/ Kill(c)
      PROVE  FactorInv'
  <2>1. /\ st'[c] \in {"ready", "refused", "pausing", "killed"} /\ UNCHANGED disk
        /\ \A d \in Console \ {c} : Same(d)
    BY <1>0, <1>1 DEF Start, StartFails, GiveUp, Kill, Return, Goto, TypeOK, Same
  <2> QED BY <2>1, FactorFrame DEF InBid
<1>2. ASSUME NEW c \in Console, ConsoleStep(c) PROVE FactorInv'
  BY <1>0, <1>2, ConsoleStepFactor
<1>3. ASSUME NEW m \in pending, Serve(m) \/ Refuse(m) PROVE FactorInv'
  <2>1. m.from \in Console /\ m.live \in BOOLEAN /\ (m.live => st[m.from] = "waiting")
    BY DEF BidInv, WaitInv, TypeOK
  <2>2. PICK a : Deliver(m, a)
    BY <1>3 DEF Serve, Refuse
  <2>3. UNCHANGED <<cmd, step, loc, out, disk>>
    BY <1>3 DEF Serve, Refuse
  <2>4. \A d \in Console \ {m.from} : Same(d)
    BY <1>0, <2>1, <2>2, <2>3 DEF Deliver, Goto, TypeOK, Same
  <2>5. \/ Same(m.from)
        \/ st[m.from] = "waiting" /\ st'[m.from] = "answered"
    BY <1>0, <2>1, <2>2, <2>3 DEF Deliver, Goto, TypeOK, Same
  <2>6. InBid(m.from)' => FactorOk(Config[m.from].max_factor)
    BY <2>1, <2>3, <2>5 DEF InBid, Same, FactorInv
  <2>7. st'[m.from] \in {"open", "saving"} => InRange(out'[m.from].body)
    BY <2>1, <2>3, <2>5 DEF Same, FactorInv
  <2> QED BY <2>1, <2>3, <2>4, <2>6, <2>7, FactorFrame
<1>4. CASE Tick \/ UNCHANGED vars
  <2>1. UNCHANGED <<conVars, disk>>
    BY <1>4 DEF Tick, vars
  <2> QED BY <2>1 DEF conVars, FactorInv, InBid, InRange
<1> QED BY <1>1, <1>2, <1>3, <1>4 DEF Next

\* The fixed-point max_factor of a bid on disk is between 1 and 100, for every
\* configured factor: process_election_bid checks it before the first query.
THEOREM FactorsInRange == Spec => []FactorInRange
<1>1. Init => FactorInv
  <2> SUFFICES ASSUME Init PROVE FactorInv
    OBVIOUS
  <2>1. \A p \in Path : InRange(disk[p])
    BY DEF Init, InRange, NoFile
  <2> QED BY <2>1 DEF Init, FactorInv, InBid
<1>2. BidInv /\ FactorInv /\ [Next]_vars => FactorInv'
  BY NextFactor
<1>3. FactorInv => FactorInRange
  BY DEF FactorInv, FactorInRange, SavedBids, InRange
<1> QED BY <1>1, <1>2, <1>3, BidInvariant, PTL DEF Spec

=============================================================================
