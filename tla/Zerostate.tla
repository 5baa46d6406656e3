----------------------------- MODULE Zerostate -----------------------------
(***************************************************************************)
(* bin/zerostate.rs: runs of the tool in one directory.  Each builds the   *)
(* zero states of the workchains and of the masterchain, writes each into  *)
(* a file named after the hash of its bytes, and then config.json, which   *)
(* names the masterchain's.  Nodes are launched from these files.          *)
(*                                                                         *)
(* std::fs::write is two steps, the truncation and the write.  A run may   *)
(* fail (each error ends in a panic) or be killed at any point, and leaves *)
(* its files behind.                                                       *)
(***************************************************************************)
EXTENDS Integers, Functions

CONSTANTS
  Run,          \* runs of the tool; each is started once
  Inputs,       \* the zerostate.json files and options a run may be given
  Workchain,    \* workchain ids
  None          \* no value

\* An input: its workchains; time, the gen_time and global_id that all its
\* states share; rest, all else that goes into the masterchain state (the
\* config, the contracts and their updates); sound, whether the state
\* built from it passes the checks of write_zero_state.
ASSUME ZerostateAssumption ==
  /\ None \notin Run \cup {"boc", "config"}
  /\ \A i \in Inputs : i.workchains \subseteq Workchain /\ i.sound \in BOOLEAN

VARIABLES
  pc,       \* pc[r]: where run r is
  input,    \* input[r]: what it was given
  left,     \* left[r]: workchains whose state it has not built
  descr,    \* descr[r]: the hashes in its workchain descriptions
  dest,     \* dest[r]: the kind of file it is writing, or None
  body,     \* body[r]: the state it wrote last or is writing
  boc,      \* boc[h]: the .boc file whose name is the hash h in hex
  config,   \* the file config.json
  last,     \* history: the run that was started last
  alone     \* history: no other run was under way at that time

history == <<last, alone>>
vars == <<pc, input, left, descr, dest, body, boc, config, history>>

Over == {"done", "dead"}
UnderWay(r) == pc[r] \notin {"off"} \cup Over

-----------------------------------------------------------------------------
(* States, hashes and files *)

\* repr_hash of the root cell and calc_file_hash of the bytes of state s,
\* which differ between different states.
RootHash(s) == [cell |-> s]
FileHash(s) == [bytes |-> s]

Ids(s) == [root_hash |-> RootHash(s), file_hash |-> FileHash(s)]

EmptyFile == [kind |-> "empty"]
NoFile == [kind |-> "absent"]

\* ShardStateUnsplit::with_ident(shard) and what is set in it.
WorkchainState(r, w) == [kind |-> "workchain", id |-> w, time |-> input[r].time]

\* The masterchain state with the descriptions of its workchains.
MasterState(r) ==
  [kind |-> "masterchain", workchains |-> descr[r], time |-> input[r].time,
   rest |-> input[r].rest, sound |-> input[r].sound]

ConfigOf(s) == [kind |-> "config", zero_state |-> Ids(s)]

\* The content of the .boc files once that of state s is f.
WithBoc(s, f) ==
  [h \in DOMAIN boc \cup {FileHash(s)} |-> IF h = FileHash(s) THEN f ELSE boc[h]]

Init ==
  /\ pc = [r \in Run |-> "off"]
  /\ input \in [Run -> Inputs]
  /\ left = [r \in Run |-> {}]
  /\ descr = [r \in Run |-> <<>>]
  /\ dest = [r \in Run |-> None]
  /\ body = [r \in Run |-> EmptyFile]
  /\ boc = <<>>
  /\ config = NoFile
  /\ last = None
  /\ alone = TRUE

Goto(r, s) == pc' = [pc EXCEPT ![r] = s]

-----------------------------------------------------------------------------
(* import_zerostate *)

ImportedWorkchains_WithMaster(r) == input[r].workchains \cup {-1}

\* extra.config.workchains()
ImportedWorkchains(r) == input[r].workchains

\* The json is read; the hashes in its workchain descriptions mean nothing.
Import(r) ==
  /\ pc[r] = "off"
  /\ Goto(r, "workchains")
  /\ left' = [left EXCEPT ![r] = ImportedWorkchains(r)]
  /\ descr' = [descr EXCEPT ![r] = [w \in ImportedWorkchains(r) |-> Ids(NoFile)]]
  /\ last' = r
  /\ alone' = \A q \in Run : ~UnderWay(q)
  /\ UNCHANGED <<input, dest, body, boc, config>>

OpenBoc(r, s) ==
  /\ dest' = [dest EXCEPT ![r] = "boc"]
  /\ body' = [body EXCEPT ![r] = s]
  /\ boc' = WithBoc(s, EmptyFile)

Described_Unchanged(r, w) == descr[r]

\* workchains.set(&workchain_id, &descr)
Described(r, w) == [descr[r] EXCEPT ![w] = Ids(WorkchainState(r, w))]

\* One turn of iterate_with_keys, up to the truncation of the file.  The
\* order of the workchains makes no difference.
BuildWorkchain(r) ==
  /\ pc[r] = "workchains"
  /\ dest[r] = None
  /\ \E w \in left[r] :
       /\ descr' = [descr EXCEPT ![r] = Described(r, w)]
       /\ left' = [left EXCEPT ![r] = @ \ {w}]
       /\ OpenBoc(r, WorkchainState(r, w))
  /\ UNCHANGED <<pc, input, config, history>>

FinishImport_Early(r) ==
  /\ pc[r] = "workchains"
  /\ dest[r] = None
  /\ Goto(r, "masterchain")
  /\ UNCHANGED <<input, left, descr, dest, body, boc, config, history>>

\* The rest of import_zerostate, and the contracts updated by main.
FinishImport(r) ==
  /\ pc[r] = "workchains"
  /\ dest[r] = None
  /\ left[r] = {}
  /\ Goto(r, "masterchain")
  /\ UNCHANGED <<input, left, descr, dest, body, boc, config, history>>

-----------------------------------------------------------------------------
(* write_zero_state *)

OpenMasterchain(r) ==
  /\ pc[r] = "masterchain"
  /\ dest[r] = None
  /\ OpenBoc(r, MasterState(r))
  /\ UNCHANGED <<pc, input, left, descr, config, history>>

\* The write of a .boc file; after the masterchain's the checks follow.
WriteBoc(r) ==
  /\ dest[r] = "boc"
  /\ UnderWay(r)
  /\ boc' = WithBoc(body[r], body[r])
  /\ dest' = [dest EXCEPT ![r] = None]
  /\ IF pc[r] = "masterchain" THEN Goto(r, "check") ELSE UNCHANGED pc
  /\ UNCHANGED <<input, left, descr, body, config, history>>

CheckState_Skipped(r) ==
  /\ pc[r] = "check"
  /\ Goto(r, "config")
  /\ UNCHANGED <<input, left, descr, dest, body, boc, config, history>>

\* The bytes are read back; each expect() that is not met panics.
CheckState(r) ==
  /\ pc[r] = "check"
  /\ Goto(r, IF body[r].sound THEN "config" ELSE "dead")
  /\ UNCHANGED <<input, left, descr, dest, body, boc, config, history>>

OpenConfig_IfAbsent(r) ==
  /\ pc[r] = "config"
  /\ dest[r] = None
  /\ IF config = NoFile
     THEN /\ config' = EmptyFile
          /\ dest' = [dest EXCEPT ![r] = "config"]
          /\ UNCHANGED pc
     ELSE Goto(r, "done") /\ UNCHANGED <<config, dest>>
  /\ UNCHANGED <<input, left, descr, body, boc, history>>

OpenConfig(r) ==
  /\ pc[r] = "config"
  /\ dest[r] = None
  /\ config' = EmptyFile
  /\ dest' = [dest EXCEPT ![r] = "config"]
  /\ UNCHANGED <<pc, input, left, descr, body, boc, history>>

\* The write of config.json; what was written is printed.  All configs have
\* the same length, so of two writes at the same time the later one remains.
WriteConfig(r) ==
  /\ pc[r] = "config"
  /\ dest[r] = "config"
  /\ config' = ConfigOf(body[r])
  /\ dest' = [dest EXCEPT ![r] = None]
  /\ Goto(r, "done")
  /\ UNCHANGED <<input, left, descr, body, boc, history>>

-----------------------------------------------------------------------------
\* An unwrap, an expect or a ? fails, or the process is killed.
Die(r) ==
  /\ UnderWay(r)
  /\ Goto(r, "dead")
  /\ UNCHANGED <<input, left, descr, dest, body, boc, config, history>>

Step(r) ==
  \/ Import(r) \/ BuildWorkchain(r) \/ FinishImport(r)
  \/ OpenMasterchain(r) \/ WriteBoc(r) \/ CheckState(r)
  \/ OpenConfig(r) \/ WriteConfig(r)

Next == \E r \in Run : Step(r) \/ Die(r)

Spec == Init /\ [][Next]_vars

-----------------------------------------------------------------------------
(* Properties *)

\* The states a network needs: that of the masterchain and, by the
\* descriptions in it, those of its workchains.
Needed(s) == {FileHash(s)} \cup {s.workchains[w].file_hash : w \in DOMAIN s.workchains}

\* The state that config.json names.
Named == config.zero_state.file_hash.bytes

Intact(h) == h \in DOMAIN boc /\ boc[h] = h.bytes

\* A run has truncated the file and has not written it, or died in between.
Torn(h) == \E r \in Run : dest[r] = "boc" /\ FileHash(body[r]) = h

Launchable(s) == \A h \in Needed(s) : Intact(h)

\* Type invariant.
TypeOK ==
  /\ pc \in [Run -> {"off", "workchains", "masterchain", "check", "config"} \cup Over]
  /\ input \in [Run -> Inputs]
  /\ left \in [Run -> SUBSET Workchain]
  /\ dest \in [Run -> {None, "boc", "config"}]
  /\ DOMAIN descr = Run /\ DOMAIN body = Run
  /\ last \in Run \cup {None} /\ alone \in BOOLEAN
  /\ config.kind \in {"absent", "empty", "config"}

\* What config.json names exists: the file of the masterchain state, with the
\* root hash given beside it, and the file of each workchain it describes,
\* complete unless a run that writes this very file again was cut short.
\* Runs before, after or at the same time, and failures of any of them, do
\* not change that.
ConfigBacked ==
  config.kind = "config" =>
    /\ config = ConfigOf(Named)
    /\ \A h \in Needed(Named) :
         h \in DOMAIN boc /\ (boc[h] = h.bytes \/ (boc[h] = EmptyFile /\ Torn(h)))

\* config.json names only states that passed the checks of write_zero_state,
\* although the file of a state that fails them is left in the directory.
ConfigChecked == config.kind = "config" => Named.sound

\* After runs that all succeeded, side by side or not, a network can be
\* launched from config.json, and it is that of one of them.
SuccessLaunchable ==
  /\ \A r \in Run : pc[r] \in {"off", "done"}
  /\ \E r \in Run : pc[r] = "done"
  => /\ config.kind = "config" /\ Launchable(Named)
     /\ \E r \in Run : pc[r] = "done" /\ Named = MasterState(r)

\* A run that succeeded, with no other one under way at the same time and none
\* started since, determines config.json, and its files are complete whatever
\* earlier runs left there.
LastRunLaunchable ==
  last # None /\ alone /\ pc[last] = "done" =>
    config = ConfigOf(MasterState(last)) /\ Launchable(MasterState(last))

-----------------------------------------------------------------------------
(* The inductive invariant *)

\* What has been written of the files is whole or was cut short.
FilesSound ==
  \A h \in DOMAIN boc : boc[h] = h.bytes \/ (boc[h] = EmptyFile /\ Torn(h))

\* r has built its masterchain state.
MasterBuilt(r) ==
  pc[r] \in {"check", "config", "done"} \/ (pc[r] = "masterchain" /\ dest[r] = "boc")

\* The states of r that have been built, up to the present one.
Built(r) ==
  {WorkchainState(r, w) : w \in input[r].workchains \ left[r]} \cup
  {s \in {MasterState(r)} : MasterBuilt(r)}

\* What a run writes when, and that it describes the workchains it has built.
RunSound(r) ==
  /\ dest[r] = "boc" => pc[r] \in {"workchains", "masterchain", "dead"}
  /\ dest[r] = "config" => pc[r] \in {"config", "dead"}
  /\ pc[r] # "off" =>
       /\ left[r] \subseteq input[r].workchains
       /\ DOMAIN descr[r] = input[r].workchains
       /\ \A w \in input[r].workchains \ left[r] : descr[r][w] = Ids(WorkchainState(r, w))
       /\ \A s \in Built(r) : FileHash(s) \in DOMAIN boc
  /\ pc[r] \in {"masterchain", "check", "config", "done"} => left[r] = {}
  /\ MasterBuilt(r) => body[r] = MasterState(r)
  /\ pc[r] \in {"config", "done"} => input[r].sound

\* config.json is what a run that is done has written last, or was cut short.
ConfigSound ==
  \/ config = NoFile /\ \A r \in Run : pc[r] # "done"
  \/ config = EmptyFile /\ \E r \in Run : dest[r] = "config"
  \/ \E r \in Run : pc[r] = "done" /\ config = ConfigOf(MasterState(r))

\* A run that was started last and alone has stayed alone, and has written
\* each of its files again, up to the present one.
LastSound ==
  /\ last = None => \A r \in Run : pc[r] = "off"
  /\ \A r \in Run : last = r /\ alone =>
       /\ pc[r] # "off"
       /\ \A q \in Run \ {r} : ~UnderWay(q)
       /\ \A s \in Built(r) : Intact(FileHash(s)) \/ (dest[r] = "boc" /\ body[r] = s)
       /\ pc[r] = "done" => config = ConfigOf(MasterState(r))

ZeroInv ==
  /\ TypeOK
  /\ FilesSound
  /\ \A r \in Run : RunSound(r)
  /\ ConfigSound
  /\ LastSound

=============================================================================
