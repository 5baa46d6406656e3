--------------------------- MODULE ConsoleProofs ---------------------------
(***************************************************************************)
(* Proofs about bin/console.rs: a complete election bid on disk is always  *)
(* backed by the node, for any number of consoles, keys, commands, files   *)
(* and any bound on the clock below 2^32.                                  *)
(***************************************************************************)
EXTENDS ConsoleSafety, TLAPS

-----------------------------------------------------------------------------
(* 32-bit arithmetic *)

\* The difference of two ton::int values is wrapped back into ton::int.
LEMMA WrapRange ==
  ASSUME NEW a \in TonInt, NEW b \in TonInt
  PROVE  Wrap(a - b) \in TonInt
BY IntMaxAssumption DEF TonInt, Wrap, IntMin, Modulus

\* now() is a ton::int at every reading of the clock.
LEMMA NowRange ==
  ASSUME NEW t \in FirstClock .. MaxClock
  PROVE  Now(t) \in TonInt
BY IntMaxAssumption, ConsoleAssumption DEF TonInt, Wrap, Now, IntMin, Modulus

\* A time to live computed as "expire_at - now()" reaches at least expire_at
\* when counted from the clock that now() has read, also past 2038.
LEMMA TtlLongEnough ==
  ASSUME NEW t \in FirstClock .. MaxClock, NEW x \in 1 .. IntMax
  PROVE  t + Wrap(x - Now(t)) >= x
BY IntMaxAssumption, ConsoleAssumption DEF Wrap, Now, IntMin, Modulus

\* The permanent key's time to live is computed without wrapping.
LEMMA WrapExact ==
  ASSUME NEW e \in 1 .. IntMax, NEW x \in e + 1 .. IntMax
  PROVE  Wrap(x - e) = x - e
BY IntMaxAssumption DEF Wrap, IntMin, Modulus

-----------------------------------------------------------------------------
(* The node never forgets *)

Grows == \A f \in NodeFields : node[f] \subseteq node'[f]

\* Executing a query only adds to the node's collections.
LEMMA OutcomeGrows ==
  ASSUME TypeOK, NEW q, NEW o \in Outcomes(q), node' = o.node
  PROVE  /\ Grows
         /\ DOMAIN node' = NodeFields
         /\ node'.keys \subseteq Key
<1>1. ASSUME NEW field \in NodeFields, NEW e,
             node' = [node EXCEPT ![field] = @ \cup {e}],
             field = "keys" => e \in Key
      PROVE  Grows /\ DOMAIN node' = NodeFields /\ node'.keys \subseteq Key
  BY <1>1 DEF TypeOK, Grows, NodeFields
<1>2. ASSUME node' = node
      PROVE  Grows /\ DOMAIN node' = NodeFields /\ node'.keys \subseteq Key
  BY <1>2 DEF TypeOK, Grows
<1>3. CASE q.name = "newkey"
  <2>1. o \in GenerateKeyPair
    BY <1>3 DEF Outcomes
  <2>2. PICK k \in Key : o = [node |-> [node EXCEPT !["keys"] = @ \cup {k}],
                             answer |-> Answer("KeyHash", KeyHash(k))]
    BY <2>1 DEF GenerateKeyPair
  <2>3. node' = [node EXCEPT !["keys"] = @ \cup {k}]
    BY <2>2
  <2> QED BY <2>3, <1>1 DEF NodeFields
<1>4. CASE q.name \in {"exportpub", "sign"}
  <2>1. node' = node
    BY <1>4 DEF Outcomes, ExportPublicKey, Sign
  <2> QED BY <2>1, <1>2
<1>5. CASE q.name \in {"addpermkey", "addtempkey", "addadnl", "addvalidatoraddr"}
  <2>1. o \in Registered(q)
    BY <1>5 DEF Outcomes
  <2>2. PICK field \in NodeFields \ {"keys"} : \E e : o \in Added(field, e)
    BY <1>5, <2>1 DEF Registered, NodeFields
  <2>3. PICK e : o = [node |-> [node EXCEPT ![field] = @ \cup {e}], answer |-> Success]
    BY <2>2 DEF Added
  <2>4. node' = [node EXCEPT ![field] = @ \cup {e}]
    BY <2>3
  <2> QED BY <2>4, <1>1
<1>6. CASE q.name = "sendmessage"
  <2>1. node' = [node EXCEPT !["messages"] = @ \cup {q.args[1]}]
    BY <1>6 DEF Outcomes, Added
  <2> QED BY <2>1, <1>1 DEF NodeFields
<1>7. CASE q.name \notin {"newkey", "exportpub", "sign", "addpermkey", "addtempkey",
                          "addadnl", "addvalidatoraddr", "sendmessage"}
  <2>1. node' = node
    BY <1>7 DEF Outcomes, Reported
  <2> QED BY <2>1, <1>2
<1> QED BY <1>3, <1>4, <1>5, <1>6, <1>7

\* What makes a bid good stays true as the node's collections grow.
LEMMA GoodStable ==
  ASSUME NEW b, Good(b), Grows
  PROVE  Good(b)'
<1> SUFFICES ASSUME b.kind = "bid" PROVE Backed(b)' /\ Lasting(b)'
  BY DEF Good
<1>1. Backed(b) /\ Lasting(b)
  BY DEF Good
<1>2. Backed(b)'
  BY <1>1 DEF Backed, Promise!Backed, Grows, NodeFields
<1>3. Lasting(b)'
  BY <1>1 DEF Lasting, Promise!Lasting, Promise!HashOf, Grows, NodeFields
<1> QED BY <1>2, <1>3

-----------------------------------------------------------------------------
(* Steps that leave a console alone *)

Same(d) ==
  /\ st'[d] = st[d] /\ cmd'[d] = cmd[d] /\ step'[d] = step[d]
  /\ loc'[d] = loc[d] /\ reply'[d] = reply[d] /\ out'[d] = out[d]

\* The name of each call of a bid.
LEMMA BidCallName ==
  ASSUME NEW c
  PROVE  /\ step[c] \in {1, 5} => BidCall(c).name = "newkey"
         /\ step[c] = 2 => BidCall(c).name = "exportpub"
         /\ step[c] = 3 => BidCall(c).name = "addpermkey"
         /\ step[c] = 4 => BidCall(c).name = "addtempkey"
         /\ step[c] = 6 => BidCall(c).name = "addadnl"
         /\ step[c] = 7 => BidCall(c).name = "addvalidatoraddr"
         /\ step[c] = 8 => BidCall(c).name = "sign"
BY DEF BidCall, Call, PermKeyCall, TempKeyCall, AddressCall

\* The calls completed so far stay in effect while the node grows.
LEMMA CompletedStable ==
  ASSUME NEW c, NEW n, Completed(c, n), Grows, Same(c)
  PROVE  Completed(c, n)'
<1>1. \A f \in NodeFields : node[f] \subseteq node'[f]
  BY DEF Grows
<1>2. PermRegistered(c) => PermRegistered(c)'
  BY <1>1 DEF Same, PermRegistered, NodeFields, elect_time, expire_time
<1>3. TempRegistered(c) => TempRegistered(c)'
  BY <1>1 DEF Same, TempRegistered, NodeFields, expire_time
<1>4. AdnlRegistered(c) => AdnlRegistered(c)'
  BY <1>1 DEF Same, AdnlRegistered, NodeFields
<1>5. AddressRegistered(c) => AddressRegistered(c)'
  BY <1>1 DEF Same, AddressRegistered, NodeFields, elect_time
<1> QED BY <1>1, <1>2, <1>3, <1>4, <1>5 DEF Completed, Same, NodeFields

\* A received answer keeps its meaning while the node grows.
LEMMA AnsweredStable ==
  ASSUME NEW c, Answered(c), Grows, Same(c)
  PROVE  Answered(c)'
<1>1. \A f \in NodeFields : node[f] \subseteq node'[f]
  BY DEF Grows
<1>2. PermRegistered(c) => PermRegistered(c)'
  BY <1>1 DEF Same, PermRegistered, NodeFields, elect_time, expire_time
<1>3. TempRegistered(c) => TempRegistered(c)'
  BY <1>1 DEF Same, TempRegistered, NodeFields, expire_time
<1>4. AdnlRegistered(c) => AdnlRegistered(c)'
  BY <1>1 DEF Same, AdnlRegistered, NodeFields
<1>5. AddressRegistered(c) => AddressRegistered(c)'
  BY <1>1 DEF Same, AddressRegistered, NodeFields, elect_time
<1>6. BidCall(c)' = BidCall(c)
  BY DEF Same, BidCall, PermKeyCall, TempKeyCall, AddressCall, DataToSign,
         elect_time, expire_time, max_factor
<1> QED BY <1>1, <1>2, <1>3, <1>4, <1>5, <1>6 DEF Answered, Same, NodeFields

\* A query on its way keeps its meaning while time passes.
LEMMA AskedStable ==
  ASSUME TypeOK, TypeOK', NEW c, BidChecked(c), NEW m \in pending,
         Asked(c, m.q), Same(c), clock' >= clock
  PROVE  Asked(c, m.q)'
<1>1. BidCall(c)' = BidCall(c)
  BY DEF Same, BidCall, PermKeyCall, TempKeyCall, AddressCall, DataToSign,
         elect_time, expire_time, max_factor
<1>2. step[c] \in {4, 7} => m.q.args[3] \in Int
  BY BidCallName, IntMaxAssumption DEF TypeOK, Asked, TtlQueries, TonInt, IntMin
<1>3. clock \in Int /\ clock' \in Int
  BY ConsoleAssumption DEF TypeOK
<1>4. elect_time(c) \in Int /\ expire_time(c) \in Int
  BY IntMaxAssumption DEF BidChecked
<1>5. elect_time(c)' = elect_time(c) /\ expire_time(c)' = expire_time(c)
  BY DEF Same, elect_time, expire_time
<1> QED BY <1>1, <1>2, <1>3, <1>4, <1>5 DEF Asked, Same

LEMMA Frame ==
  ASSUME TypeOK, TypeOK', NEW d \in Console, ConsoleInv(d), Same(d), Grows,
         clock' >= clock,
         \A m \in pending' : m.live /\ m.from = d => m \in pending
  PROVE  ConsoleInv(d)'
<1>1. InBid(d)' = InBid(d)
  BY DEF InBid, Same
<1>2. InBid(d)' => (BidChecked(d) /\ Completed(d, step[d] - 1))'
  <2>1. BidChecked(d) => BidChecked(d)'
    BY DEF BidChecked, Same, elect_time, expire_time
  <2>2. Completed(d, step[d] - 1) => Completed(d, step[d] - 1)'
    BY CompletedStable DEF Same
  <2> QED BY <1>1, <2>1, <2>2 DEF ConsoleInv, Same
<1>3. (InBid(d) /\ st[d] = "waiting" =>
         \A m \in pending : m.live /\ m.from = d => Asked(d, m.q))'
  BY <1>1, AskedStable DEF ConsoleInv, Same
<1>4. (InBid(d) /\ st[d] = "answered" => Answered(d))'
  BY <1>1, AnsweredStable DEF ConsoleInv, Same
<1>5. (st[d] \in {"open", "saving"} => Good(out[d].body))'
  <2>1. Good(out[d].body) => Good(out[d].body)'
    BY GoodStable DEF Same
  <2> QED BY <2>1 DEF ConsoleInv, Same
<1> QED BY <1>2, <1>3, <1>4, <1>5 DEF ConsoleInv

-----------------------------------------------------------------------------
(* One console moves *)

\* A step of console c that concerns neither the node, nor the queries on
\* their way, nor a file.
LocalStep(c) ==
  /\ node' = node /\ clock' = clock /\ pending' = pending /\ disk' = disk
  /\ st[c] # "waiting"
  /\ \A d \in Console \ {c} : Same(d)

LEMMA LocalInv ==
  ASSUME BidInv, NEW c \in Console, LocalStep(c), TypeOK', ConsoleInv(c)'
  PROVE  BidInv'
<1>1. Grows
  BY DEF LocalStep, Grows
<1>2. clock' >= clock
  BY ConsoleAssumption DEF LocalStep, BidInv, TypeOK
<1>3. WaitInv'
  <2>1. ASSUME NEW m \in pending, m.live PROVE m.from \in Console \ {c}
    BY <2>1 DEF BidInv, WaitInv, TypeOK, LocalStep
  <2> QED BY <2>1 DEF BidInv, WaitInv, LocalStep, Same
<1>4. ASSUME NEW d \in Console PROVE ConsoleInv(d)'
  <2>1. CASE d = c
    BY <2>1
  <2>2. CASE d # c
    BY <2>2, <1>1, <1>2, Frame DEF BidInv, LocalStep
  <2> QED BY <2>1, <2>2
<1>5. ASSUME NEW p \in Path PROVE Good(disk[p])'
  <2>1. Good(disk[p]) /\ disk'[p] = disk[p]
    BY DEF BidInv, LocalStep
  <2> QED BY <2>1, <1>1, GoodStable
<1> QED BY <1>3, <1>4, <1>5 DEF BidInv

\* A console whose state asks for nothing satisfies its invariant.
LEMMA IdleInv ==
  ASSUME NEW c, st[c] \notin {"call", "waiting", "answered", "open", "saving"}
  PROVE  ConsoleInv(c)
BY DEF ConsoleInv, InBid

\* As soon as c stops waiting, or does not wait, its queries are not live.
LEMMA AbandonInv ==
  ASSUME BidInv, NEW c \in Console, NEW s \in {"killed", "pausing", "ready"},
         Abandon(c), Goto(c, s), TypeOK',
         node' = node, clock' = clock, disk' = disk,
         UNCHANGED <<cmd, step, loc, reply, out>>
  PROVE  BidInv'
<1>1. Grows /\ clock' >= clock
  BY ConsoleAssumption DEF Grows, BidInv, TypeOK
<1>2. ASSUME NEW m \in pending', m.live PROVE m \in pending /\ m.from # c
  BY <1>2 DEF Abandon, Abandoned, Message
<1>3. \A d \in Console \ {c} : Same(d)
  BY DEF Same, Goto, BidInv, TypeOK
<1>4. st'[c] = s
  BY DEF Goto, BidInv, TypeOK
<1>5. WaitInv'
  BY <1>2, <1>3 DEF BidInv, WaitInv, TypeOK, Same
<1>6. ASSUME NEW d \in Console PROVE ConsoleInv(d)'
  <2>1. CASE d = c
    BY <2>1, <1>4 DEF ConsoleInv, InBid
  <2>2. CASE d # c
    BY <2>2, <1>1, <1>2, <1>3, Frame DEF BidInv
  <2> QED BY <2>1, <2>2
<1>7. ASSUME NEW p \in Path PROVE Good(disk[p])'
  <2>1. Good(disk[p]) /\ disk'[p] = disk[p]
    BY DEF BidInv
  <2> QED BY <2>1, <1>1, GoodStable
<1> QED BY <1>5, <1>6, <1>7 DEF BidInv

\* Only the files change.
LEMMA DiskInv ==
  ASSUME BidInv, NEW c \in Console, NEW s \in {"saving", "pausing", "ready"},
         NEW b, Good(b), st[c] \in {"open", "saving"}, Goto(c, s), TypeOK',
         disk' = [disk EXCEPT ![out[c].path] = b],
         node' = node, clock' = clock,
         UNCHANGED <<cmd, step, loc, reply, out, pending>>
  PROVE  BidInv'
<1>1. Grows /\ clock' >= clock
  BY ConsoleAssumption DEF Grows, BidInv, TypeOK
<1>2. \A d \in Console \ {c} : Same(d)
  BY DEF Same, Goto, BidInv, TypeOK
<1>3. st'[c] = s
  BY DEF Goto, BidInv, TypeOK
<1>4. WaitInv'
  <2>1. ASSUME NEW m \in pending, m.live PROVE m.from \in Console \ {c}
    BY <2>1 DEF BidInv, WaitInv, TypeOK
  <2> QED BY <2>1, <1>2 DEF BidInv, WaitInv, Same
<1>5. ASSUME NEW d \in Console PROVE ConsoleInv(d)'
  <2>1. CASE d = c
    <3>1. Good(out[c].body)
      BY DEF BidInv, ConsoleInv
    <3>2. Good(out[c].body)'
      BY <3>1, <1>1, GoodStable
    <3> QED BY <2>1, <1>3, <3>2 DEF ConsoleInv, InBid
  <2>2. CASE d # c
    BY <2>2, <1>1, <1>2, Frame DEF BidInv
  <2> QED BY <2>1, <2>2
<1>6. ASSUME NEW p \in Path PROVE Good(disk[p])'
  <2>1. Good(disk'[p])
    BY DEF BidInv, TypeOK
  <2> QED BY <2>1, <1>1, GoodStable
<1> QED BY <1>4, <1>5, <1>6 DEF BidInv

\* Console c fetches a command, or not.
Fetches(c) ==
  /\ DOMAIN todo' = Console /\ DOMAIN cmd' = Console
  /\ \A d \in Console \ {c} : cmd'[d] = cmd[d]

LEMMA FetchFetches ==
  ASSUME TypeOK, NEW c \in Console,
         Fetch(c) \/ UNCHANGED <<todo, cmd>>
  PROVE  Fetches(c)
BY DEF TypeOK, Fetch, Fetches

\* Console c begins a command that is to write a file, or not.
Intends(c) == (\E path : Intend(c, path)) \/ UNCHANGED out

LEMMA IntendsOwn ==
  ASSUME TypeOK, NEW c \in Console, Intends(c)
  PROVE  DOMAIN out' = Console /\ \A d \in Console \ {c} : out'[d] = out[d]
BY DEF TypeOK, Intends, Intend

\* A command ends, or the console does.
LEMMA QuietInv ==
  ASSUME BidInv, NEW c \in Console,
         NEW s \in {"ready", "pausing", "exited", "refused", "panicked"},
         st[c] # "waiting", Goto(c, s), Fetches(c), failed' \in [Console -> BOOLEAN],
         Intends(c), UNCHANGED <<node, clock, step, loc, reply, pending, disk>>
  PROVE  BidInv'
<1>0. DOMAIN out' = Console /\ \A d \in Console \ {c} : out'[d] = out[d]
  BY IntendsOwn DEF BidInv
<1>1. st'[c] = s
  BY DEF Goto, BidInv, TypeOK
<1>2. TypeOK'
  BY <1>0 DEF Goto, BidInv, TypeOK, Fetches, Running, Over
<1>3. LocalStep(c)
  BY <1>0 DEF Goto, BidInv, TypeOK, LocalStep, Same, Fetches
<1>4. ConsoleInv(c)'
  BY <1>1 DEF ConsoleInv, InBid
<1> QED BY <1>2, <1>3, <1>4, LocalInv

LEMMA ReturnInv ==
  ASSUME BidInv, NEW c \in Console, NEW ok \in BOOLEAN, st[c] # "waiting",
         Return(c, ok), Fetches(c), Intends(c),
         UNCHANGED <<node, clock, step, loc, reply, pending, disk>>
  PROVE  BidInv'
<1>1. PICK s \in {"ready", "pausing"} : Goto(c, s)
  BY DEF Return
<1>2. failed' \in [Console -> BOOLEAN]
  BY DEF Return, BidInv, TypeOK
<1> QED BY <1>1, <1>2, QuietInv

\* A command begins to write a file that is no bid, or a good one.
LEMMA BeginWriteInv ==
  ASSUME BidInv, NEW c \in Console, st[c] # "waiting", NEW path, NEW body,
         BeginWrite(c, path, body), Good(body), Fetches(c),
         UNCHANGED <<node, clock, step, loc, reply, failed, pending, disk>>
  PROVE  BidInv'
<1>1. st'[c] = "open" /\ out'[c].body = body
  BY DEF BeginWrite, Goto, BidInv, TypeOK
<1>2. TypeOK'
  BY DEF BeginWrite, Goto, BidInv, TypeOK, Fetches, Running, Over
<1>3. LocalStep(c)
  BY DEF BeginWrite, Goto, BidInv, TypeOK, LocalStep, Same, Fetches
<1>4. ConsoleInv(c)'
  <2>1. Grows
    BY DEF Grows
  <2>2. Good(body)'
    BY <2>1, GoodStable
  <2> QED BY <1>1, <2>2 DEF ConsoleInv, InBid
<1> QED BY <1>2, <1>3, <1>4, LocalInv

-----------------------------------------------------------------------------
(* The steps of an election bid *)

\* The checks before the first query establish BidChecked.
LEMMA StartBidInv ==
  ASSUME BidInv, NEW c \in Console, StartBid(c)
  PROVE  BidInv'
<1>0. DOMAIN out' = Console /\ \A d \in Console \ {c} : out'[d] = out[d]
  <2>1. Intends(c)
    BY DEF StartBid, Intends
  <2> QED BY <2>1, IntendsOwn DEF BidInv
<1>1. st[c] = "ready" /\ st'[c] = "call" /\ step'[c] = 1 /\ cmd'[c] = Head(todo[c])
  BY DEF StartBid, Takes, Goto, Fetch, BidInv, TypeOK
<1>2. TypeOK'
  <2>1. NoLocals \in Locals
    BY DEF NoLocals, Locals
  <2> QED BY <1>0, <2>1 DEF StartBid, Goto, Fetch, BidInv, TypeOK, Running
<1>3. LocalStep(c)
  BY <1>0, <1>1 DEF StartBid, Goto, Fetch, BidInv, TypeOK, LocalStep, Same
<1>4. BidChecked(c)'
  <2>1. BidOk(c, Head(todo[c]).params)
    BY DEF StartBid
  <2>2. /\ elect_time(c)' = Head(todo[c]).params[1].val
        /\ expire_time(c)' = Head(todo[c]).params[2].val
    BY <1>1 DEF elect_time, expire_time
  <2>3. /\ elect_time(c)' \in TonInt /\ expire_time(c)' \in TonInt
        /\ elect_time(c)' > 0 /\ elect_time(c)' < expire_time(c)'
    BY <2>1, <2>2 DEF BidOk, parse_int
  <2>4. ASSUME NEW e \in TonInt, NEW x \in TonInt, e > 0, e < x
        PROVE  e \in 1 .. IntMax /\ x \in e + 1 .. IntMax
    BY <2>4, IntMaxAssumption DEF TonInt, IntMin
  <2> QED BY <2>3, <2>4 DEF BidChecked
<1>5. Completed(c, step[c] - 1)'
  BY <1>1 DEF Completed
<1>6. ConsoleInv(c)'
  BY <1>1, <1>4, <1>5 DEF ConsoleInv
<1> QED BY <1>2, <1>3, <1>6, LocalInv

\* Any other command of the table starts outside of a bid.
LEMMA StartCommandInv ==
  ASSUME BidInv, NEW c \in Console, StartCommand(c)
  PROVE  BidInv'
<1>0. DOMAIN out' = Console /\ \A d \in Console \ {c} : out'[d] = out[d]
  <2>1. Intends(c)
    BY DEF StartCommand, Intends
  <2> QED BY <2>1, IntendsOwn DEF BidInv
<1>1. st[c] = "ready" /\ st'[c] = "call" /\ step'[c] = 0
  BY DEF StartCommand, Goto, BidInv, TypeOK
<1>2. TypeOK'
  BY <1>0 DEF StartCommand, Goto, Fetch, BidInv, TypeOK, Running
<1>3. LocalStep(c)
  BY <1>0, <1>1 DEF StartCommand, Goto, Fetch, BidInv, TypeOK, LocalStep, Same
<1>4. ConsoleInv(c)'
  BY <1>1 DEF ConsoleInv, InBid
<1> QED BY <1>2, <1>3, <1>4, LocalInv

\* The answer to the n-th call is stored, and the call counts as completed.
LEMMA BidStepInv ==
  ASSUME BidInv, NEW c \in Console, BidStep(c)
  PROVE  BidInv'
<1>1. /\ step[c] \in 1 .. 7 /\ st[c] = "answered"
      /\ st'[c] = "call" /\ step'[c] = step[c] + 1 /\ loc'[c] = StoredAnswer(c)
      /\ cmd' = cmd /\ node' = node
  BY DEF BidStep, AnswerAccepted, Goto, BidInv, TypeOK
<1>2. InBid(c) /\ BidChecked(c) /\ Completed(c, step[c] - 1) /\ Answered(c)
  BY <1>1 DEF InBid, BidInv, ConsoleInv
<1>3. reply[c].type = AnswerType(BidCall(c).name)
  BY <1>1 DEF BidStep, AnswerAccepted, command_receive, CurrentCall
<1>4. loc[c] \in Locals /\ StoredAnswer(c) \in Locals
  <2>1. loc[c] \in Locals
    BY DEF BidInv, TypeOK
  <2>2. step[c] \in {1, 5} => reply[c].val \in Hashes
    BY <1>2, <1>3 DEF Answered, BidInv, TypeOK, Hashes
  <2>3. step[c] = 2 => reply[c].val \in {PubKey(k) : k \in Key}
    BY <1>2, <1>3 DEF Answered, BidInv, TypeOK
  <2> QED BY <1>1, <2>1, <2>2, <2>3 DEF StoredAnswer, Locals
<1>5. TypeOK'
  BY <1>1, <1>4 DEF BidStep, Goto, BidInv, TypeOK, Running
<1>6. LocalStep(c)
  BY <1>1 DEF BidStep, Goto, BidInv, TypeOK, LocalStep, Same
<1>7. BidChecked(c)'
  BY <1>1, <1>2 DEF BidChecked, elect_time, expire_time
<1>8. Completed(c, step[c] - 1)'
  <2>1. PICK n \in 1 .. 7 : n = step[c]
    BY <1>1
  <2> SUFFICES Completed(c, n)'
    BY <1>1, <2>1 DEF Completed
  <2>2. CASE step[c] = 1
    BY <1>1, <1>2, <1>3, <1>4, <2>1, <2>2
       DEF Completed, Answered, StoredAnswer, Locals
  <2>3. CASE step[c] = 2
    BY <1>1, <1>2, <1>3, <1>4, <2>1, <2>3
       DEF Completed, Answered, StoredAnswer, Locals
  <2>4. CASE step[c] \in {3, 4, 6, 7}
    BY <1>1, <1>2, <1>3, <1>4, <2>1, <2>4
       DEF Completed, Answered, StoredAnswer, PermRegistered, TempRegistered,
           AdnlRegistered, AddressRegistered, elect_time, expire_time
  <2>5. CASE step[c] = 5
    BY <1>1, <1>2, <1>3, <1>4, <2>1, <2>5
       DEF Completed, Answered, StoredAnswer, PermRegistered, TempRegistered,
           elect_time, expire_time, Locals
  <2> QED BY <1>1, <2>2, <2>3, <2>4, <2>5
<1>9. ConsoleInv(c)'
  BY <1>1, <1>7, <1>8 DEF ConsoleInv
<1> QED BY <1>5, <1>6, <1>9, LocalInv

\* A bid that has come this far is good.
LEMMA SignedGood ==
  ASSUME BidInv, NEW c \in Console, BidSigned(c)
  PROVE  Backed(BidBody(c)) /\ Lasting(BidBody(c))
<1>1. step[c] = 8 /\ st[c] = "answered"
  BY DEF BidSigned, AnswerAccepted
<1>2. BidChecked(c) /\ Completed(c, 7)
  BY <1>1 DEF InBid, BidInv, ConsoleInv
<1>3. PICK k \in node.keys : loc[c].perm = KeyHash(k) /\ loc[c].pub = PubKey(k)
  BY <1>2 DEF Completed
<1>4. /\ PermRegistered(c) /\ TempRegistered(c)
      /\ AdnlRegistered(c) /\ AddressRegistered(c)
  BY <1>2 DEF Completed
<1>5. /\ elect_time(c) \in Int /\ expire_time(c) \in Int
      /\ expire_time(c) - elect_time(c) > 0
  BY <1>2, IntMaxAssumption DEF BidChecked
<1>6. HashOf(BidBody(c).pub_key) = KeyHash(k)
  BY <1>3 DEF HashOf, Promise!HashOf, BidBody, PubKey, KeyHash
<1>7. Lasting(BidBody(c))
  BY <1>3, <1>4, <1>5, <1>6
     DEF Lasting, Promise!Lasting, HashOf, BidBody, PermRegistered, TempRegistered,
         AddressRegistered
<1>8. Backed(BidBody(c))
  BY <1>3, <1>4 DEF BidSigned, Verified, DataToSign, Backed, Promise!Backed, BidBody,
     KeyHash, PubKey, PermRegistered, TempRegistered, AdnlRegistered, AddressRegistered
<1> QED BY <1>7, <1>8

LEMMA BidSignedInv ==
  ASSUME BidInv, NEW c \in Console, BidSigned(c)
  PROVE  BidInv'
<1>1. step[c] = 8 /\ st[c] = "answered"
  BY DEF BidSigned, AnswerAccepted
<1>2. Good(BidBody(c))
  BY SignedGood DEF Good
<1>3. Fetches(c)
  BY FetchFetches DEF BidSigned, BidInv
<1> QED BY <1>1, <1>2, <1>3, BeginWriteInv DEF BidSigned

-----------------------------------------------------------------------------
(* Queries *)

\* The times to live that send() computes are ton::int values.
LEMMA SentTtl ==
  ASSUME NEW name \in TtlQueries, NEW params, Accepts(name, params),
         NEW t \in FirstClock .. MaxClock, NEW body
  PROVE  command_send(name, params, t, body).args[3] \in TonInt
<1>1. params[3].val \in TonInt
  <2>1. Len(ParamKinds[name]) = 3 /\ ParamKinds[name][3] = "int"
    BY DEF TtlQueries, ParamKinds
  <2>2. Reads("int", params[3])
    BY <2>1 DEF Accepts
  <2> QED BY <2>2 DEF Reads, parse_int
<1>2. CASE name = "addpermkey"
  <2>1. params[2].val \in TonInt
    BY <1>2 DEF Accepts, ParamKinds, Reads, parse_int
  <2>2. command_send(name, params, t, body).args[3] = Wrap(params[3].val - params[2].val)
    BY <1>2 DEF command_send
  <2> QED BY <1>1, <2>1, <2>2, WrapRange
<1>3. CASE name \in {"addtempkey", "addvalidatoraddr"}
  <2>1. command_send(name, params, t, body).args[3] = Wrap(params[3].val - Now(t))
    BY <1>3 DEF command_send
  <2> QED BY <1>1, <2>1, NowRange, WrapRange
<1> QED BY <1>2, <1>3 DEF TtlQueries

\* What a bid's call asks of the node.
LEMMA SentBid ==
  ASSUME NEW c, step[c] \in 1 .. 8, BidChecked(c), clock \in FirstClock .. MaxClock,
         NEW body
  PROVE  Asked(c, command_send(BidCall(c).name, BidCall(c).params, clock, body))
<1> DEFINE call == BidCall(c)
           q == command_send(call.name, call.params, clock, body)
<1>1. q.name = call.name
  BY DEF command_send
<1>2. step[c] = 2 => q.args[1] = loc[c].perm
  <2>1. step[c] = 2 => call = Call("exportpub", <<Hex(loc[c].perm)>>)
    BY DEF BidCall
  <2> QED BY <2>1 DEF Call, Hex, command_send, ParamKinds
<1>3. step[c] = 3 => /\ q.args[1] = loc[c].perm /\ q.args[2] = elect_time(c)
                     /\ q.args[3] = expire_time(c) - elect_time(c)
  <2>1. step[c] = 3 => call = PermKeyCall(c)
    BY DEF BidCall
  <2>2. step[c] = 3 => /\ call.name = "addpermkey"
                       /\ call.params[1].val = loc[c].perm
                       /\ call.params[2].val = elect_time(c)
                       /\ call.params[3].val = expire_time(c)
    BY <2>1 DEF PermKeyCall, Call, Hex, Dec
  <2>3. Wrap(expire_time(c) - elect_time(c)) = expire_time(c) - elect_time(c)
    BY WrapExact DEF BidChecked
  <2> HIDE DEF call
  <2> QED BY <2>2, <2>3 DEF command_send
<1>4. step[c] = 4 => /\ q.args[1] = loc[c].perm /\ q.args[2] = loc[c].perm
                     /\ clock + q.args[3] >= expire_time(c)
  <2>1. step[c] = 4 => call = TempKeyCall(c)
    BY DEF BidCall
  <2>2. step[c] = 4 => /\ call.name = "addtempkey"
                       /\ call.params[1].val = loc[c].perm
                       /\ call.params[2].val = loc[c].perm
                       /\ call.params[3].val = expire_time(c)
    BY <2>1 DEF TempKeyCall, Call, Hex, Dec
  <2>3. clock + Wrap(expire_time(c) - Now(clock)) >= expire_time(c)
    BY TtlLongEnough, IntMaxAssumption DEF BidChecked
  <2> HIDE DEF call
  <2> QED BY <2>2, <2>3 DEF command_send
<1>5. step[c] = 6 => q.args[1] = loc[c].adnl
  <2>1. step[c] = 6 => call = Call("addadnl", <<Hex(loc[c].adnl), Dec(0)>>)
    BY DEF BidCall
  <2> QED BY <2>1 DEF Call, Hex, command_send, ParamKinds
<1>6. step[c] = 7 => /\ q.args[1] = loc[c].perm /\ q.args[2] = loc[c].adnl
                     /\ clock + q.args[3] >= elect_time(c)
  <2>1. step[c] = 7 => call = AddressCall(c)
    BY DEF BidCall
  <2>2. step[c] = 7 => /\ call.name = "addvalidatoraddr"
                       /\ call.params[1].val = loc[c].perm
                       /\ call.params[2].val = loc[c].adnl
                       /\ call.params[3].val = elect_time(c)
    BY <2>1 DEF AddressCall, Call, Hex, Dec
  <2>3. clock + Wrap(elect_time(c) - Now(clock)) >= elect_time(c)
    BY TtlLongEnough DEF BidChecked
  <2> HIDE DEF call
  <2> QED BY <2>2, <2>3 DEF command_send
<1> QED BY <1>1, <1>2, <1>3, <1>4, <1>5, <1>6 DEF Asked

LEMMA SendQueryInv ==
  ASSUME BidInv, NEW c \in Console, SendQuery(c)
  PROVE  BidInv'
<1> DEFINE call == CurrentCall(c)
           q == command_send(call.name, call.params, clock, Body(call))
           new == Message(c, TRUE, <<Len(todo[c]), step[c]>>, q)
<1>1. /\ st[c] = "call" /\ st'[c] = "waiting"
      /\ pending' = pending \cup {new}
      /\ Accepts(call.name, call.params)
      /\ UNCHANGED <<node, clock, todo, cmd, step, loc, reply, out, failed, disk>>
      /\ st' = [st EXCEPT ![c] = "waiting"]
  BY DEF SendQuery, Goto, BidInv, TypeOK
<1>2. q.name = call.name
  BY DEF command_send
<1>3. clock \in FirstClock .. MaxClock
  BY DEF BidInv, TypeOK
<1>4. q.name \in TtlQueries => q.args[3] \in TonInt
  BY <1>1, <1>2, <1>3, SentTtl
<1>5. call.name \in CommandName
  BY <1>1 DEF Accepts
<1>6. InBid(c) => Asked(c, q)
  <2>1. InBid(c) => BidChecked(c) /\ call = BidCall(c) /\ step[c] \in 1 .. 8
    BY DEF BidInv, ConsoleInv, InBid, CurrentCall, TypeOK
  <2> QED BY <2>1, <1>3, SentBid
<1> HIDE DEF call, q
<1>7. new.from = c /\ new.live = TRUE /\ new.q = q /\ new = Message(c, new.live, new.id, q)
  BY DEF Message
<1> HIDE DEF new
<1>8. TypeOK'
  <2>1. \A m \in pending' :
          /\ m = Message(m.from, m.live, m.id, m.q)
          /\ m.from \in Console /\ m.live \in BOOLEAN
          /\ m.q.name \in CommandName
          /\ m.q.name \in TtlQueries => m.q.args[3] \in TonInt
    BY <1>1, <1>2, <1>4, <1>5, <1>7 DEF BidInv, TypeOK
  <2> QED BY <1>1, <2>1 DEF BidInv, TypeOK, Running
<1>9. \A d \in Console \ {c} : Same(d)
  BY <1>1 DEF Same, BidInv, TypeOK
<1>10. \A m \in pending : m.live => m.from \in Console \ {c}
  BY <1>1 DEF BidInv, WaitInv, TypeOK
<1>11. WaitInv'
  BY <1>1, <1>7, <1>9, <1>10 DEF BidInv, WaitInv, Same
<1>12. Grows /\ clock' >= clock
  BY <1>1, <1>3, ConsoleAssumption DEF Grows
<1>13. ConsoleInv(c)'
  <2>1. InBid(c)' => InBid(c)
    BY <1>1 DEF InBid
  <2>2. InBid(c) => (BidChecked(c) /\ Completed(c, step[c] - 1))'
    BY <1>1 DEF BidInv, ConsoleInv, BidChecked, elect_time, expire_time, Completed,
       PermRegistered, TempRegistered, AdnlRegistered, AddressRegistered
  <2>3. ASSUME InBid(c), NEW m \in pending', m.live, m.from = c
        PROVE  Asked(c, m.q)'
    <3>1. m.q = q
      BY <2>3, <1>1, <1>7, <1>10
    <3>2. Asked(c, m.q)
      BY <2>3, <3>1, <1>6
    <3> QED BY <3>2, <1>1 DEF Asked, BidCall, PermKeyCall, TempKeyCall, AddressCall,
               DataToSign, elect_time, expire_time, max_factor
  <2> QED BY <1>1, <2>1, <2>2, <2>3 DEF ConsoleInv
<1>14. ASSUME NEW d \in Console PROVE ConsoleInv(d)'
  <2>1. CASE d # c
    BY <2>1, <1>1, <1>7, <1>8, <1>9, <1>12, Frame DEF BidInv
  <2> QED BY <2>1, <1>13
<1>15. ASSUME NEW p \in Path PROVE Good(disk[p])'
  <2>1. Good(disk[p]) /\ disk'[p] = disk[p]
    BY <1>1 DEF BidInv
  <2> QED BY <2>1, <1>12, GoodStable
<1> QED BY <1>8, <1>11, <1>14, <1>15 DEF BidInv

\* The node has handled query m; what is left to show of the console that
\* waits for it is that the answer means what it says.
LEMMA HandledInv ==
  ASSUME BidInv, NEW m \in pending, NEW a, pending' = pending \ {m}, Deliver(m, a),
         Grows, DOMAIN node' = NodeFields, node'.keys \subseteq Key,
         UNCHANGED <<clock, todo, cmd, step, loc, out, failed, disk>>,
         m.live /\ InBid(m.from) => Answered(m.from)'
  PROVE  BidInv'
<1>1. m.from \in Console /\ m.live \in BOOLEAN
  BY DEF BidInv, TypeOK
<1>2. TypeOK'
  BY <1>1 DEF BidInv, TypeOK, Deliver, Goto, Running
<1>3. clock' >= clock
  BY ConsoleAssumption DEF BidInv, TypeOK
<1>4. \A d \in Console : ~(m.live /\ d = m.from) => Same(d)
  BY <1>1 DEF Deliver, Goto, Same, BidInv, TypeOK
<1>5. \A n \in pending' : n.live => n \in pending /\ ~(m.live /\ n.from = m.from)
  BY DEF BidInv, WaitInv
<1>6. WaitInv'
  <2>1. \A n \in pending' : n.live => st'[n.from] = "waiting"
    BY <1>4, <1>5 DEF Same, BidInv, WaitInv, TypeOK
  <2> QED BY <2>1, <1>5 DEF BidInv, WaitInv
<1>7. ASSUME NEW d \in Console PROVE ConsoleInv(d)'
  <2>1. CASE m.live /\ d = m.from
    <3>1. st[d] = "waiting" /\ st'[d] = "answered" /\ step'[d] = step[d]
      BY <2>1 DEF BidInv, WaitInv, Deliver, Goto, TypeOK
    <3>2. CASE step[d] = 0
      BY <3>1, <3>2 DEF ConsoleInv, InBid
    <3>3. CASE step[d] # 0
      <4>1. InBid(d)
        BY <3>1, <3>3 DEF InBid
      <4>2. BidChecked(d)'
        BY <4>1 DEF BidInv, ConsoleInv, BidChecked, elect_time, expire_time
      <4>3. Completed(d, step[d] - 1)'
        <5>1. Completed(d, step[d] - 1)
          BY <4>1 DEF BidInv, ConsoleInv
        <5> QED BY <5>1 DEF Grows, Completed, NodeFields, PermRegistered, TempRegistered,
                   AdnlRegistered, AddressRegistered, elect_time, expire_time
      <4> QED BY <2>1, <3>1, <4>1, <4>2, <4>3 DEF ConsoleInv
    <3> QED BY <3>2, <3>3
  <2>2. CASE ~(m.live /\ d = m.from)
    BY <2>2, <1>2, <1>3, <1>4, <1>5, Frame DEF BidInv
  <2> QED BY <2>1, <2>2
<1>8. ASSUME NEW p \in Path PROVE Good(disk[p])'
  <2>1. Good(disk[p]) /\ disk'[p] = disk[p]
    BY DEF BidInv
  <2> QED BY <2>1, GoodStable
<1> QED BY <1>2, <1>6, <1>7, <1>8 DEF BidInv

\* Executing the query of a bid's current call has the effect that the next
\* calls rely on.
LEMMA ServedBid ==
  ASSUME BidInv, NEW m \in pending, m.live, InBid(m.from),
         NEW o \in Outcomes(m.q), node' = o.node, reply'[m.from] = o.answer,
         UNCHANGED <<clock, cmd, step, loc>>
  PROVE  Answered(m.from)'
<1> DEFINE c == m.from
           q == m.q
<1>1. c \in Console /\ st[c] = "waiting" /\ step[c] \in 1 .. 8
  BY DEF BidInv, WaitInv, TypeOK, InBid
<1>2. Asked(c, q) /\ Completed(c, step[c] - 1)
  BY <1>1 DEF BidInv, ConsoleInv
<1>3. q.name = BidCall(c).name
  BY <1>2 DEF Asked
<1>4. BidCall(c)' = BidCall(c)
  BY DEF BidCall, PermKeyCall, TempKeyCall, AddressCall, DataToSign,
         elect_time, expire_time, max_factor
<1>5. DOMAIN node = NodeFields
  BY DEF BidInv, TypeOK
<1> HIDE DEF c, q
<1>6. step[c] \in {1, 5} => \E k \in node'.keys : reply'[c].val = KeyHash(k)
  <2> SUFFICES ASSUME step[c] \in {1, 5}
               PROVE  \E k \in node'.keys : reply'[c].val = KeyHash(k)
    OBVIOUS
  <2>1. o \in GenerateKeyPair
    BY <1>3, BidCallName DEF Outcomes, q
  <2>2. PICK k \in Key : o = [node |-> [node EXCEPT !.keys = @ \cup {k}],
                             answer |-> Answer("KeyHash", KeyHash(k))]
    BY <2>1 DEF GenerateKeyPair
  <2>3. k \in node'.keys
    BY <2>2, <1>5 DEF NodeFields
  <2>4. reply'[c].val = KeyHash(k)
    BY <2>2 DEF Answer, c
  <2> QED BY <2>3, <2>4
<1>7. step[c] = 2 => \E k \in node'.keys : /\ loc[c].perm = KeyHash(k)
                                           /\ reply'[c].val = PubKey(k)
  <2> SUFFICES ASSUME step[c] = 2
               PROVE  \E k \in node'.keys : /\ loc[c].perm = KeyHash(k)
                                            /\ reply'[c].val = PubKey(k)
    OBVIOUS
  <2>1. o \in ExportPublicKey(loc[c].perm)
    BY <1>2, <1>3, BidCallName DEF Outcomes, Asked, q
  <2>2. PICK k \in node.keys : /\ KeyHash(k) = loc[c].perm
                               /\ o = [node |-> node, answer |-> Answer("PublicKey", PubKey(k))]
    BY <2>1 DEF ExportPublicKey
  <2> QED BY <2>2 DEF Answer, c
<1>8. step[c] \in {3, 4, 6, 7} => o \in Registered(q)
  BY <1>3, BidCallName DEF Outcomes, q
<1>9. ASSUME NEW field \in NodeFields, NEW e, o \in Added(field, e)
      PROVE  e \in node'[field]
  BY <1>5, <1>9 DEF Added
<1>10. step[c] = 3 => PermRegistered(c)'
  <2> SUFFICES ASSUME step[c] = 3 PROVE PermRegistered(c)'
    OBVIOUS
  <2> DEFINE e == [key |-> q.args[1], election_date |-> q.args[2], ttl |-> q.args[3]]
  <2>1. o \in Added("permKeys", e)
    BY <1>3, <1>8, BidCallName DEF Registered
  <2>2. e \in node'["permKeys"]
    BY <2>1, <1>9 DEF NodeFields
  <2> QED BY <1>2, <2>2 DEF Asked, PermRegistered, elect_time, expire_time
<1>11. step[c] = 4 => TempRegistered(c)'
  <2> SUFFICES ASSUME step[c] = 4 PROVE TempRegistered(c)'
    OBVIOUS
  <2> DEFINE e == [perm |-> q.args[1], key |-> q.args[2], expires |-> clock + q.args[3]]
  <2>1. o \in Added("tempKeys", e)
    BY <1>3, <1>8, BidCallName DEF Registered
  <2>2. e \in node'["tempKeys"]
    BY <2>1, <1>9 DEF NodeFields
  <2> QED BY <1>2, <2>2 DEF Asked, TempRegistered, expire_time
<1>12. step[c] = 6 => AdnlRegistered(c)'
  <2> SUFFICES ASSUME step[c] = 6 PROVE AdnlRegistered(c)'
    OBVIOUS
  <2> DEFINE e == [key |-> q.args[1], category |-> q.args[2]]
  <2>1. o \in Added("adnlIds", e)
    BY <1>3, <1>8, BidCallName DEF Registered
  <2>2. e \in node'["adnlIds"]
    BY <2>1, <1>9 DEF NodeFields
  <2> QED BY <1>2, <2>2 DEF Asked, AdnlRegistered
<1>13. step[c] = 7 => AddressRegistered(c)'
  <2> SUFFICES ASSUME step[c] = 7 PROVE AddressRegistered(c)'
    OBVIOUS
  <2> DEFINE e == [perm |-> q.args[1], key |-> q.args[2], expires |-> clock + q.args[3]]
  <2>1. o \in Added("validatorAddrs", e)
    BY <1>3, <1>8, BidCallName DEF Registered
  <2>2. e \in node'["validatorAddrs"]
    BY <2>1, <1>9 DEF NodeFields
  <2> QED BY <1>2, <2>2 DEF Asked, AddressRegistered, elect_time
<1> SUFFICES Answered(c)'
  BY DEF c
<1> QED BY <1>6, <1>7, <1>10, <1>11, <1>12, <1>13 DEF Answered

LEMMA ServeInv ==
  ASSUME BidInv, NEW m \in pending, Serve(m)
  PROVE  BidInv'
<1>1. PICK o \in Outcomes(m.q) :
        /\ node' = o.node /\ pending' = pending \ {m} /\ Deliver(m, o.answer)
        /\ UNCHANGED <<clock, todo, cmd, step, loc, out, failed, disk>>
  BY DEF Serve
<1>2. Grows /\ DOMAIN node' = NodeFields /\ node'.keys \subseteq Key
  BY <1>1, OutcomeGrows DEF BidInv
<1>3. m.live /\ InBid(m.from) => Answered(m.from)'
  <2>1. m.live => reply'[m.from] = o.answer
    BY <1>1 DEF Deliver, BidInv, TypeOK
  <2> QED BY <1>1, <2>1, ServedBid
<1> QED BY <1>1, <1>2, <1>3, HandledInv

LEMMA RefuseInv ==
  ASSUME BidInv, NEW m \in pending, Refuse(m)
  PROVE  BidInv'
<1>1. PICK a \in Refusals :
        /\ pending' = pending \ {m} /\ Deliver(m, a)
        /\ UNCHANGED <<node, clock, todo, cmd, step, loc, out, failed, disk>>
  BY DEF Refuse
<1>2. Grows /\ DOMAIN node' = NodeFields /\ node'.keys \subseteq Key
  BY <1>1 DEF BidInv, TypeOK, Grows
<1>3. m.live /\ InBid(m.from) => Answered(m.from)'
  <2>1. m.live => reply'[m.from].type \in {"ControlQueryError", "Unexpected"}
    BY <1>1 DEF Deliver, BidInv, TypeOK, Refusals, Answer
  <2>2. \A n : AnswerType(n) \notin {"ControlQueryError", "Unexpected"}
    BY DEF AnswerType
  <2> QED BY <2>1, <2>2 DEF Answered
<1> QED BY <1>1, <1>2, <1>3, HandledInv

-----------------------------------------------------------------------------
(* The invariant *)

LEMMA InitBidInv == Init => BidInv
<1> SUFFICES ASSUME Init PROVE BidInv
  OBVIOUS
<1>1. TypeOK
  <2>1. NoLocals \in Locals
    BY DEF NoLocals, Locals
  <2>2. DOMAIN node = NodeFields /\ node.keys \subseteq Key
    BY DEF Init, NodeInit, NodeFields
  <2>3. clock \in FirstClock .. MaxClock
    BY ConsoleAssumption DEF Init
  <2> QED BY <2>1, <2>2, <2>3 DEF Init, TypeOK
<1>2. WaitInv
  BY DEF Init, WaitInv
<1>3. ASSUME NEW c \in Console PROVE ConsoleInv(c)
  BY IdleInv DEF Init
<1>4. ASSUME NEW p \in Path PROVE Good(disk[p])
  BY DEF Init, Good, NoFile
<1> QED BY <1>1, <1>2, <1>3, <1>4 DEF BidInv

\* Files that are no bid are good.
LEMMA NoBidGood ==
  ASSUME NEW b, b.kind # "bid"
  PROVE  Good(b)
BY DEF Good

LEMMA ConsoleStepInv ==
  ASSUME BidInv, NEW c \in Console, ConsoleStep(c)
  PROVE  BidInv'
<1>0. TypeOK /\ st[c] \in {"off"} \cup Running \cup Over
      /\ st = [st EXCEPT ![c] = st[c]]
  BY DEF BidInv, TypeOK
<1>1. CASE PanicOnBlank(c)
  <2>1. Fetches(c) /\ failed' \in [Console -> BOOLEAN] /\ st[c] = "ready"
    BY <1>0, <1>1, FetchFetches DEF PanicOnBlank, TypeOK, Takes
  <2> QED BY <1>1, <2>1, QuietInv DEF PanicOnBlank, Intends
<1>2. CASE SplitFails(c)
  <2>1. Fetches(c) /\ st[c] = "ready"
    BY <1>0, <1>2, FetchFetches DEF SplitFails, Takes
  <2> QED BY <1>2, <2>1, ReturnInv DEF SplitFails, Intends
<1>3. CASE SkipLine(c)
  <2>1. Fetches(c) /\ failed' \in [Console -> BOOLEAN] /\ st[c] = "ready" /\ Goto(c, "ready")
    BY <1>0, <1>3, FetchFetches DEF SkipLine, TypeOK, Takes, Goto
  <2> QED BY <1>3, <2>1, QuietInv DEF SkipLine, Intends
<1>4. CASE Exit(c)
  <2>1. Fetches(c) /\ failed' \in [Console -> BOOLEAN] /\ st[c] = "ready"
    BY <1>0, <1>4, FetchFetches DEF Exit, TypeOK, Takes
  <2> QED BY <1>4, <2>1, QuietInv DEF Exit, Intends
<1>5. CASE Wake(c)
  <2>1. Fetches(c) /\ failed' \in [Console -> BOOLEAN]
    BY <1>0, <1>5, FetchFetches DEF Wake, TypeOK
  <2> QED BY <1>5, <2>1, QuietInv DEF Wake, Intends
<1>6. CASE StartCommand(c)
  BY <1>6, StartCommandInv
<1>7. CASE CommandDone(c)
  <2>1. Fetches(c) /\ st[c] = "answered"
    BY <1>0, <1>7, FetchFetches DEF CommandDone, AnswerAccepted
  <2>2. CASE SavesAccount(cmd[c].name, cmd[c].params)
    <3>1. Good([kind |-> "account"])
      BY NoBidGood
    <3> QED BY <1>7, <2>1, <2>2, <3>1, BeginWriteInv DEF CommandDone
  <2>3. CASE ~SavesAccount(cmd[c].name, cmd[c].params)
    BY <1>7, <2>1, <2>3, ReturnInv DEF CommandDone, Intends
  <2> QED BY <2>2, <2>3
<1>8. CASE SendQuery(c)
  BY <1>8, SendQueryInv
<1>9. CASE SendRejected(c)
  <2>1. Fetches(c) /\ st[c] = "call"
    BY <1>0, <1>9, FetchFetches DEF SendRejected
  <2> QED BY <1>9, <2>1, ReturnInv DEF SendRejected, Intends
<1>10. CASE AnswerRejected(c)
  <2>1. Fetches(c) /\ st[c] = "answered"
    BY <1>0, <1>10, FetchFetches DEF AnswerRejected
  <2> QED BY <1>10, <2>1, ReturnInv DEF AnswerRejected, Intends
<1>11. CASE RecoverStake(c)
  <2>1. Fetches(c) /\ st[c] = "ready"
    BY <1>0, <1>11, FetchFetches DEF RecoverStake, Takes
  <2>2. Good([kind |-> "recover", query_id |-> QueryId(clock)])
    BY NoBidGood
  <2> QED BY <1>11, <2>1, <2>2, BeginWriteInv DEF RecoverStake
<1>12. CASE ConfigParam(c)
  <2>1. Fetches(c) /\ st[c] = "ready"
    BY <1>0, <1>12, FetchFetches DEF ConfigParam, Takes
  <2>2. Good([kind |-> "config", index |-> Head(todo[c]).params[1].val])
    BY NoBidGood
  <2> QED BY <1>12, <2>1, <2>2, BeginWriteInv DEF ConfigParam
<1>13. CASE ConfigParamFails(c)
  <2>1. Fetches(c) /\ st[c] = "ready"
    BY <1>0, <1>13, FetchFetches DEF ConfigParamFails, Takes
  <2>2. Intends(c)
    BY <1>13 DEF ConfigParamFails, Intends
  <2> QED BY <1>13, <2>1, <2>2, ReturnInv DEF ConfigParamFails
<1>14. CASE StartBid(c)
  BY <1>14, StartBidInv
<1>15. CASE BidRejected(c)
  <2>1. Fetches(c) /\ st[c] = "ready"
    BY <1>0, <1>15, FetchFetches DEF BidRejected, Takes
  <2>2. Intends(c)
    BY <1>15 DEF BidRejected, Intends
  <2> QED BY <1>15, <2>1, <2>2, ReturnInv DEF BidRejected
<1>16. CASE BidStep(c)
  BY <1>16, BidStepInv
<1>17. CASE BidSigned(c)
  BY <1>17, BidSignedInv
<1>18. CASE BidUnverified(c)
  <2>1. Fetches(c) /\ st[c] = "answered"
    BY <1>0, <1>18, FetchFetches DEF BidUnverified, AnswerAccepted
  <2> QED BY <1>18, <2>1, ReturnInv DEF BidUnverified, Intends
<1>19. CASE OpenFile(c)
  <2>1. TypeOK'
    BY <1>0, <1>19 DEF OpenFile, Goto, TypeOK, Running
  <2>2. Good(EmptyFile)
    BY NoBidGood DEF EmptyFile
  <2> QED BY <1>19, <2>1, <2>2, DiskInv DEF OpenFile
<1>20. CASE WriteFile(c)
  <2>1. PICK s \in {"pausing", "ready"} : Goto(c, s)
    BY <1>20 DEF WriteFile, Return
  <2>2. TypeOK'
    BY <1>0, <1>20, <2>1 DEF WriteFile, Return, Goto, TypeOK, Running
  <2>3. Good(out[c].body)
    BY <1>20 DEF WriteFile, BidInv, ConsoleInv
  <2> QED BY <1>20, <2>1, <2>2, <2>3, DiskInv DEF WriteFile
<1>21. CASE WriteFails(c)
  <2>1. Fetches(c) /\ st[c] # "waiting"
    BY <1>0, <1>21, FetchFetches DEF WriteFails
  <2> QED BY <1>21, <2>1, ReturnInv DEF WriteFails, Intends
<1> QED BY <1>1, <1>2, <1>3, <1>4, <1>5, <1>6, <1>7, <1>8, <1>9, <1>10, <1>11, <1>12,
           <1>13, <1>14, <1>15, <1>16, <1>17, <1>18, <1>19, <1>20, <1>21 DEF ConsoleStep

\* A console stops waiting for its query.
LEMMA AbandonTypeOK ==
  ASSUME TypeOK, NEW c \in Console, NEW s \in {"killed", "pausing", "ready"},
         Abandon(c), Goto(c, s), failed' \in [Console -> BOOLEAN],
         UNCHANGED <<node, clock, todo, cmd, step, loc, reply, out, disk>>
  PROVE  TypeOK'
<1>1. \A m \in pending' :
        /\ m = Message(m.from, m.live, m.id, m.q)
        /\ m.from \in Console /\ m.live \in BOOLEAN
        /\ m.q.name \in CommandName
        /\ m.q.name \in TtlQueries => m.q.args[3] \in TonInt
  <2>1. ASSUME NEW n \in pending, n.from = c
        PROVE  LET m == Message(c, FALSE, n.id, n.q)
               IN  m.from = c /\ m.live = FALSE /\ m.q = n.q /\ m.id = n.id
    BY DEF Message
  <2>2. ASSUME NEW m \in pending' PROVE m \in pending \/ m \in Abandoned(c)
    BY DEF Abandon
  <2>3. ASSUME NEW m \in Abandoned(c)
        PROVE  \E n \in pending : n.from = c /\ m = Message(c, FALSE, n.id, n.q)
    BY DEF Abandoned
  <2>4. ASSUME NEW m \in Abandoned(c)
        PROVE  /\ m = Message(m.from, m.live, m.id, m.q)
               /\ m.from = c /\ m.live = FALSE
               /\ \E n \in pending : m.q = n.q
    <3>1. PICK n \in pending : n.from = c /\ m = Message(c, FALSE, n.id, n.q)
      BY <2>3, <2>4
    <3>2. m.from = c /\ m.live = FALSE /\ m.q = n.q /\ m.id = n.id
      BY <2>1, <3>1
    <3> QED BY <3>1, <3>2
  <2>5. ASSUME NEW m \in pending
        PROVE  /\ m = Message(m.from, m.live, m.id, m.q)
               /\ m.from \in Console /\ m.live \in BOOLEAN
               /\ m.q.name \in CommandName
               /\ m.q.name \in TtlQueries => m.q.args[3] \in TonInt
    BY DEF TypeOK
  <2> QED BY <2>2, <2>4, <2>5
<1> QED BY <1>1 DEF TypeOK, Goto, Running, Over

LEMMA NextBidInv == BidInv /\ [Next]_vars => BidInv'
<1> SUFFICES ASSUME BidInv, [Next]_vars PROVE BidInv'
  OBVIOUS
<1>0. TypeOK
  BY DEF BidInv
<1>1. ASSUME NEW c \in Console, Start(c) \/ StartFails(c) PROVE BidInv'
  <2>1. PICK s \in {"ready", "refused"} : Goto(c, s)
    BY <1>1 DEF Start, StartFails
  <2>2. Fetches(c) /\ failed' \in [Console -> BOOLEAN] /\ st[c] # "waiting"
    BY <1>0, <1>1, FetchFetches DEF Start, StartFails, TypeOK
  <2> QED BY <1>1, <2>1, <2>2, QuietInv DEF Start, StartFails, Intends
<1>2. ASSUME NEW c \in Console, ConsoleStep(c) PROVE BidInv'
  BY <1>2, ConsoleStepInv
<1>3. ASSUME NEW c \in Console, GiveUp(c) PROVE BidInv'
  <2>1. PICK s \in {"pausing", "ready"} : Goto(c, s)
    BY <1>3 DEF GiveUp, Return
  <2>2. failed' \in [Console -> BOOLEAN]
    BY <1>0, <1>3 DEF GiveUp, Return, TypeOK
  <2> QED BY <1>0, <1>3, <2>1, <2>2, AbandonTypeOK, AbandonInv DEF GiveUp
<1>4. ASSUME NEW c \in Console, Kill(c) PROVE BidInv'
  <2>1. failed' \in [Console -> BOOLEAN]
    BY <1>0, <1>4 DEF Kill, TypeOK
  <2> QED BY <1>0, <1>4, <2>1, AbandonTypeOK, AbandonInv DEF Kill
<1>5. ASSUME NEW m \in pending, Serve(m) \/ Refuse(m) PROVE BidInv'
  BY <1>5, ServeInv, RefuseInv
<1>6. CASE Tick \/ UNCHANGED vars
  <2>1. UNCHANGED <<node, conVars, pending, disk>>
    BY <1>6 DEF Tick, vars
  <2>2. clock' >= clock /\ TypeOK'
    BY <1>0, <1>6, <2>1, ConsoleAssumption DEF Tick, TypeOK, conVars, vars
  <2>3. Grows /\ \A d \in Console : Same(d)
    BY <2>1 DEF Grows, Same, conVars
  <2>4. WaitInv'
    BY <2>1 DEF BidInv, WaitInv, conVars
  <2>5. ASSUME NEW d \in Console PROVE ConsoleInv(d)'
    BY <1>0, <2>1, <2>2, <2>3, Frame DEF BidInv
  <2>6. ASSUME NEW p \in Path PROVE Good(disk[p])'
    <3>1. Good(disk[p]) /\ disk'[p] = disk[p]
      BY <2>1 DEF BidInv
    <3> QED BY <3>1, <2>3, GoodStable
  <2> QED BY <2>2, <2>4, <2>5, <2>6 DEF BidInv
<1> QED BY <1>1, <1>2, <1>3, <1>4, <1>5, <1>6 DEF Next

-----------------------------------------------------------------------------
\* Every bid on disk or about to be written, and every bid under way, has had
\* all its calls so far executed by the node, whatever other consoles, lost
\* answers, late executions, crashes and the clock do.
THEOREM BidInvariant == Spec => []BidInv
<1>1. Init => BidInv
  BY InitBidInv
<1>2. BidInv /\ [Next]_vars => BidInv'
  BY NextBidInv
<1> QED BY <1>1, <1>2, PTL DEF Spec

\* The types of console.rs' state, and that the times to live sent to the
\* node are 32-bit integers.
THEOREM TypeCorrect == Spec => []TypeOK
<1>1. BidInv => TypeOK
  BY DEF BidInv
<1> QED BY <1>1, BidInvariant, PTL

\* A complete validator-query.boc is always backed by the node: its keys and
\* its address are registered and its signature is the permanent key's, over
\* this bid (process_election_bid).
THEOREM BidsBacked == Spec => []BidBacked
<1>1. BidInv => BidBacked
  BY DEF BidInv, BidBacked, SavedBids, Good
<1> QED BY <1>1, BidInvariant, PTL

\* The registrations behind a saved bid last as long as they should, with the
\* 32-bit arithmetic of console.rs, as long as the clock is below 2^32.
THEOREM BidsLast == Spec => []BidLasting
<1>1. BidInv => BidLasting
  BY DEF BidInv, BidLasting, SavedBids, Good
<1> QED BY <1>1, BidInvariant, PTL

=============================================================================
