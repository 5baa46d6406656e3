-------------------------- MODULE ZerostateProofs --------------------------
(***************************************************************************)
(* Proofs about bin/zerostate.rs, for any set of runs in a directory, any  *)
(* inputs and any workchains.                                              *)
(***************************************************************************)
EXTENDS Zerostate, TLAPS

-----------------------------------------------------------------------------
(* Files and frames *)

\* The files after the truncation or the write of one.
LEMMA WithBocFiles ==
  ASSUME NEW s, NEW f, boc' = WithBoc(s, f)
  PROVE  /\ DOMAIN boc' = DOMAIN boc \cup {FileHash(s)}
         /\ boc'[FileHash(s)] = f
         /\ \A h \in DOMAIN boc : h # FileHash(s) => boc'[h] = boc[h]
BY DEF WithBoc

LEMMA FileHashInjective ==
  ASSUME NEW s, NEW t
  PROVE  /\ FileHash(s).bytes = s
         /\ FileHash(s) = FileHash(t) => s = t
BY DEF FileHash

\* Nothing of run q changes.
Same(q) ==
  /\ pc'[q] = pc[q] /\ left'[q] = left[q] /\ descr'[q] = descr[q]
  /\ dest'[q] = dest[q] /\ body'[q] = body[q] /\ input'[q] = input[q]

LEMMA OthersSame ==
  ASSUME TypeOK, NEW r \in Run, Step(r) \/ Die(r), NEW q \in Run, q # r
  PROVE  Same(q)
BY DEF TypeOK, Step, Die, Import, BuildWorkchain, FinishImport, OpenMasterchain, OpenBoc,
       WriteBoc, CheckState, OpenConfig, WriteConfig, Goto, Same

\* No file disappears.
LEMMA FilesRemain ==
  ASSUME NEW r \in Run, Step(r) \/ Die(r)
  PROVE  DOMAIN boc \subseteq DOMAIN boc'
<1>1. CASE BuildWorkchain(r) \/ OpenMasterchain(r) \/ WriteBoc(r)
  <2>1. PICK s, f : boc' = WithBoc(s, f)
    BY <1>1 DEF BuildWorkchain, OpenMasterchain, OpenBoc, WriteBoc
  <2> QED BY <2>1, WithBocFiles
<1>2. CASE ~(BuildWorkchain(r) \/ OpenMasterchain(r) \/ WriteBoc(r))
  BY <1>2 DEF Step, Die, Import, FinishImport, CheckState, OpenConfig, WriteConfig
<1> QED BY <1>1, <1>2

LEMMA SameStates ==
  ASSUME NEW q \in Run, Same(q)
  PROVE  /\ MasterState(q)' = MasterState(q)
         /\ \A w : WorkchainState(q, w)' = WorkchainState(q, w)
         /\ MasterBuilt(q)' = MasterBuilt(q)
         /\ Built(q)' = Built(q)
BY DEF Same, MasterState, WorkchainState, MasterBuilt, Built

LEMMA SameRunSound ==
  ASSUME NEW q \in Run, Same(q), RunSound(q), DOMAIN boc \subseteq DOMAIN boc'
  PROVE  RunSound(q)'
<1>1. /\ MasterState(q)' = MasterState(q)
      /\ \A w : WorkchainState(q, w)' = WorkchainState(q, w)
      /\ MasterBuilt(q)' = MasterBuilt(q)
      /\ Built(q)' = Built(q)
  BY SameStates
<1>2. \A s \in Built(q)' : pc[q] # "off" => FileHash(s) \in DOMAIN boc'
  BY <1>1 DEF RunSound
<1>3. \A w \in input[q].workchains \ left[q] :
        pc[q] # "off" => descr'[q][w] = Ids(WorkchainState(q, w)')
  BY <1>1 DEF RunSound, Same
<1> QED BY <1>1, <1>2, <1>3 DEF RunSound, Same, Ids, FileHash, RootHash

-----------------------------------------------------------------------------
(* The files *)

\* A step that neither opens nor writes a .boc file.
LEMMA FilesSoundStay ==
  ASSUME FilesSound, UNCHANGED <<boc, body>>,
         \A q \in Run : dest[q] = "boc" => dest'[q] = "boc"
  PROVE  FilesSound'
BY DEF FilesSound, Torn

\* A truncated file is one that a run is writing.
LEMMA OpenBocFiles ==
  ASSUME TypeOK, FilesSound, NEW r \in Run, NEW s, dest[r] = None, OpenBoc(r, s)
  PROVE  /\ FilesSound'
         /\ DOMAIN boc' = DOMAIN boc \cup {FileHash(s)}
         /\ dest'[r] = "boc" /\ body'[r] = s
         /\ \A h : Intact(h) => Intact(h)' \/ h = FileHash(s)
<1>1. boc' = WithBoc(s, EmptyFile)
  BY DEF OpenBoc
<1>2. /\ DOMAIN boc' = DOMAIN boc \cup {FileHash(s)}
      /\ boc'[FileHash(s)] = EmptyFile
      /\ \A h \in DOMAIN boc : h # FileHash(s) => boc'[h] = boc[h]
  BY <1>1, WithBocFiles
<1>3. dest'[r] = "boc" /\ body'[r] = s
  BY DEF OpenBoc, TypeOK
<1>4. \A q \in Run \ {r} : dest'[q] = dest[q] /\ body'[q] = body[q]
  BY DEF OpenBoc, TypeOK
<1>5. dest[r] # "boc"
  BY ZerostateAssumption
<1>6. \A h : Torn(h) => Torn(h)'
  BY <1>4, <1>5 DEF Torn
<1>7. Torn(FileHash(s))'
  BY <1>3 DEF Torn
<1>8. FilesSound'
  BY <1>2, <1>6, <1>7 DEF FilesSound
<1> QED BY <1>2, <1>3, <1>8 DEF Intact

\* A file is whole once it is written, whoever else is writing it.
LEMMA WriteBocFiles ==
  ASSUME TypeOK, FilesSound, NEW r \in Run, WriteBoc(r)
  PROVE  /\ FilesSound'
         /\ Intact(FileHash(body[r]))'
         /\ \A h : Intact(h) => Intact(h)'
<1>1. boc' = WithBoc(body[r], body[r]) /\ body' = body
  BY DEF WriteBoc
<1>2. /\ DOMAIN boc' = DOMAIN boc \cup {FileHash(body[r])}
      /\ boc'[FileHash(body[r])] = body[r]
      /\ \A h \in DOMAIN boc : h # FileHash(body[r]) => boc'[h] = boc[h]
  BY <1>1, WithBocFiles
<1>3. FileHash(body[r]).bytes = body[r]
  BY FileHashInjective
<1>4. \A q \in Run \ {r} : dest'[q] = dest[q]
  BY DEF WriteBoc, TypeOK
<1>5. \A h : Torn(h) => Torn(h)' \/ h = FileHash(body[r])
  BY <1>1, <1>4 DEF Torn
<1>6. FilesSound'
  BY <1>2, <1>3, <1>5 DEF FilesSound
<1>7. FileHash(body[r])' = FileHash(body[r])
  BY <1>1 DEF FileHash
<1> QED BY <1>1, <1>2, <1>3, <1>6, <1>7 DEF Intact

LEMMA FilesInv ==
  ASSUME ZeroInv, NEW r \in Run, Step(r) \/ Die(r)
  PROVE  FilesSound'
<1>0. TypeOK /\ FilesSound /\ None # "boc" /\ None # "config"
  BY ZerostateAssumption DEF ZeroInv
<1>1. CASE BuildWorkchain(r)
  BY <1>0, <1>1, OpenBocFiles DEF BuildWorkchain
<1>2. CASE OpenMasterchain(r)
  BY <1>0, <1>2, OpenBocFiles DEF OpenMasterchain
<1>3. CASE WriteBoc(r)
  BY <1>0, <1>3, WriteBocFiles
<1>4. CASE Import(r) \/ FinishImport(r) \/ CheckState(r) \/ Die(r)
  BY <1>0, <1>4, FilesSoundStay DEF Import, FinishImport, CheckState, Die
<1>5. CASE OpenConfig(r) \/ WriteConfig(r)
  <2>1. dest[r] # "boc" /\ UNCHANGED <<boc, body>>
    BY <1>0, <1>5 DEF OpenConfig, WriteConfig
  <2>2. \A q \in Run \ {r} : dest'[q] = dest[q]
    BY <1>0, <1>5 DEF OpenConfig, WriteConfig, TypeOK
  <2> QED BY <1>0, <2>1, <2>2, FilesSoundStay
<1> QED BY <1>1, <1>2, <1>3, <1>4, <1>5 DEF Step

-----------------------------------------------------------------------------
(* The run that takes the step *)

LEMMA TypesInv ==
  ASSUME ZeroInv, NEW r \in Run, Step(r) \/ Die(r)
  PROVE  TypeOK'
<1>0. TypeOK /\ input[r].workchains \subseteq Workchain
  BY ZerostateAssumption DEF ZeroInv, TypeOK
<1>1. CASE Import(r)
  BY <1>0, <1>1 DEF Import, ImportedWorkchains, Goto, TypeOK
<1>2. CASE BuildWorkchain(r) \/ OpenMasterchain(r)
  <2>1. /\ dest' \in [Run -> {None, "boc", "config"}]
        /\ DOMAIN body' = Run
    <3>1. PICK s : OpenBoc(r, s)
      BY <1>2 DEF BuildWorkchain, OpenMasterchain
    <3> QED BY <1>0, <3>1 DEF OpenBoc, TypeOK
  <2>2. left' \in [Run -> SUBSET Workchain] /\ DOMAIN descr' = Run
    <3>1. CASE BuildWorkchain(r)
      BY <1>0, <3>1 DEF BuildWorkchain, TypeOK
    <3>2. CASE OpenMasterchain(r)
      BY <1>0, <3>2 DEF OpenMasterchain, TypeOK
    <3> QED BY <1>2, <3>1, <3>2
  <2>3. UNCHANGED <<pc, input, config, last, alone>>
    BY <1>2 DEF BuildWorkchain, OpenMasterchain, history
  <2> QED BY <1>0, <2>1, <2>2, <2>3 DEF TypeOK
<1>3. CASE FinishImport(r) \/ CheckState(r) \/ Die(r)
  BY <1>0, <1>3 DEF FinishImport, CheckState, Die, Goto, TypeOK, history, Over
<1>4. CASE WriteBoc(r)
  BY <1>0, <1>4 DEF WriteBoc, Goto, TypeOK, history
<1>5. CASE OpenConfig(r) \/ WriteConfig(r)
  <2>1. config'.kind \in {"empty", "config"}
    BY <1>5 DEF OpenConfig, WriteConfig, EmptyFile, ConfigOf
  <2> QED BY <1>0, <1>5, <2>1 DEF OpenConfig, WriteConfig, Goto, TypeOK, history, Over
<1> QED BY <1>1, <1>2, <1>3, <1>4, <1>5 DEF Step

LEMMA ImportRunSound ==
  ASSUME ZeroInv, NEW r \in Run, Import(r)
  PROVE  RunSound(r)' /\ Built(r)' = {} /\ pc'[r] = "workchains"
<1>1. TypeOK /\ RunSound(r)
  BY DEF ZeroInv
<1>2. /\ pc'[r] = "workchains" /\ left'[r] = input[r].workchains
      /\ DOMAIN descr'[r] = input[r].workchains
      /\ UNCHANGED <<input, dest, body, boc>>
  BY <1>1 DEF Import, ImportedWorkchains, Goto, TypeOK
<1>3. dest[r] # "boc" /\ dest[r] # "config"
  BY <1>1 DEF Import, RunSound
<1>4. Built(r)' = {} /\ ~MasterBuilt(r)'
  BY <1>2 DEF Built, MasterBuilt
<1> QED BY <1>2, <1>3, <1>4 DEF RunSound

LEMMA BuildWorkchainRunSound ==
  ASSUME ZeroInv, NEW r \in Run, BuildWorkchain(r)
  PROVE  /\ RunSound(r)' /\ pc'[r] = "workchains"
         /\ \E s : OpenBoc(r, s) /\ Built(r)' = Built(r) \cup {s}
<1>1. TypeOK /\ RunSound(r) /\ FilesSound
  BY DEF ZeroInv
<1>2. PICK w \in left[r] :
        /\ descr' = [descr EXCEPT ![r] = Described(r, w)]
        /\ left' = [left EXCEPT ![r] = @ \ {w}]
        /\ OpenBoc(r, WorkchainState(r, w))
  BY DEF BuildWorkchain
<1>3. pc[r] = "workchains" /\ dest[r] = None /\ UNCHANGED <<pc, input>>
  BY DEF BuildWorkchain
<1> DEFINE s == WorkchainState(r, w)
           wcs == input[r].workchains
<1>4. dest'[r] = "boc" /\ body'[r] = s /\ DOMAIN boc' = DOMAIN boc \cup {FileHash(s)}
  BY <1>1, <1>2, <1>3, OpenBocFiles
<1>5. /\ left[r] \subseteq wcs /\ DOMAIN descr[r] = wcs
      /\ \A v \in wcs \ left[r] : descr[r][v] = Ids(WorkchainState(r, v))
      /\ \A t \in Built(r) : FileHash(t) \in DOMAIN boc
  BY <1>1, <1>3 DEF RunSound
<1>6. left'[r] = left[r] \ {w} /\ descr'[r] = [descr[r] EXCEPT ![w] = Ids(s)]
  BY <1>1, <1>2 DEF TypeOK, Described
<1>7. DOMAIN descr'[r] = wcs /\ \A v \in wcs \ left'[r] : descr'[r][v] = Ids(WorkchainState(r, v))
  BY <1>5, <1>6
<1>8. \A v : WorkchainState(r, v)' = WorkchainState(r, v)
  BY <1>3 DEF WorkchainState
<1>9. wcs \ left'[r] = (wcs \ left[r]) \cup {w} /\ left'[r] \subseteq wcs
  BY <1>2, <1>5, <1>6
<1>10. ~MasterBuilt(r) /\ ~MasterBuilt(r)'
  BY <1>3 DEF MasterBuilt
<1>11. Built(r)' = Built(r) \cup {s}
  <2>1. Built(r) = {WorkchainState(r, v) : v \in wcs \ left[r]}
    BY <1>10 DEF Built
  <2>2. Built(r)' = {WorkchainState(r, v)' : v \in wcs \ left'[r]}
    BY <1>3, <1>10 DEF Built
  <2>3. Built(r)' = {WorkchainState(r, v) : v \in wcs \ left'[r]}
    BY <1>8, <2>2
  <2> HIDE DEF s
  <2>4. s = WorkchainState(r, w)
    BY DEF s
  <2> QED BY <1>9, <2>1, <2>3, <2>4
<1>12. \A t \in Built(r)' : FileHash(t) \in DOMAIN boc'
  BY <1>4, <1>5, <1>11
<1>13. \A v \in wcs \ left'[r] : descr'[r][v] = Ids(WorkchainState(r, v))'
  BY <1>7, <1>8 DEF Ids, FileHash, RootHash
<1>14. RunSound(r)'
  BY <1>3, <1>4, <1>7, <1>9, <1>10, <1>12, <1>13 DEF RunSound
<1> QED BY <1>2, <1>3, <1>11, <1>14

LEMMA OpenMasterchainRunSound ==
  ASSUME ZeroInv, NEW r \in Run, OpenMasterchain(r)
  PROVE  /\ RunSound(r)' /\ pc'[r] = "masterchain"
         /\ \E s : OpenBoc(r, s) /\ Built(r)' = Built(r) \cup {s}
<1>1. TypeOK /\ RunSound(r) /\ FilesSound
  BY DEF ZeroInv
<1>2. /\ pc[r] = "masterchain" /\ dest[r] = None /\ OpenBoc(r, MasterState(r))
      /\ UNCHANGED <<pc, input, left, descr>>
  BY DEF OpenMasterchain
<1>3. /\ dest'[r] = "boc" /\ body'[r] = MasterState(r)
      /\ DOMAIN boc' = DOMAIN boc \cup {FileHash(MasterState(r))}
  BY <1>1, <1>2, OpenBocFiles
<1>4. /\ \A v : WorkchainState(r, v)' = WorkchainState(r, v)
      /\ MasterState(r)' = MasterState(r)
  BY <1>2 DEF WorkchainState, MasterState
<1>5. ~MasterBuilt(r) /\ MasterBuilt(r)'
  BY <1>2, <1>3, ZerostateAssumption DEF MasterBuilt
<1>6. Built(r)' = Built(r) \cup {MasterState(r)}
  BY <1>2, <1>4, <1>5 DEF Built
<1>7. \A t \in Built(r)' : FileHash(t) \in DOMAIN boc'
  BY <1>1, <1>2, <1>3, <1>6 DEF RunSound
<1>8. \A v \in input[r].workchains \ left[r] : descr[r][v] = Ids(WorkchainState(r, v))'
  BY <1>1, <1>2, <1>4 DEF RunSound, Ids, FileHash, RootHash
<1>9. RunSound(r)'
  BY <1>1, <1>2, <1>3, <1>4, <1>7, <1>8 DEF RunSound
<1> QED BY <1>2, <1>6, <1>9

\* A step of r after which nothing more is built.
LEMMA QuietRunSound ==
  ASSUME ZeroInv, NEW r \in Run,
         FinishImport(r) \/ WriteBoc(r) \/ CheckState(r) \/ OpenConfig(r) \/ WriteConfig(r) \/ Die(r)
  PROVE  /\ RunSound(r)' /\ Built(r)' \subseteq Built(r)
         /\ MasterState(r)' = MasterState(r) /\ pc'[r] # "off"
<1>1. TypeOK /\ RunSound(r) /\ None # "boc" /\ None # "config"
  BY ZerostateAssumption DEF ZeroInv
<1>2. UnderWay(r) /\ UNCHANGED <<input, left, descr, body>>
  BY DEF UnderWay, Over, FinishImport, WriteBoc, CheckState, OpenConfig, WriteConfig, Die
<1>3. /\ \A v : WorkchainState(r, v)' = WorkchainState(r, v)
      /\ MasterState(r)' = MasterState(r)
  BY <1>2 DEF WorkchainState, MasterState
<1>4. /\ pc[r] # "off" /\ pc'[r] # "off" /\ (MasterBuilt(r)' => MasterBuilt(r))
      /\ dest'[r] = "boc" => pc'[r] \in {"workchains", "masterchain", "dead"}
      /\ dest'[r] = "config" => pc'[r] \in {"config", "dead"}
      /\ pc'[r] \in {"masterchain", "check", "config", "done"} => left[r] = {}
  BY <1>1, <1>2 DEF UnderWay, Over, FinishImport, WriteBoc, CheckState, OpenConfig, WriteConfig,
                    Die, Goto, TypeOK, RunSound, MasterBuilt
<1>5. pc'[r] \in {"config", "done"} => input[r].sound
  <2>1. CASE CheckState(r)
    <3>1. body[r].sound = input[r].sound
      BY <1>1, <2>1 DEF CheckState, RunSound, MasterBuilt, MasterState
    <3> QED BY <1>1, <2>1, <3>1 DEF CheckState, Goto, TypeOK
  <2>2. CASE ~CheckState(r)
    BY <1>1, <2>2 DEF FinishImport, WriteBoc, OpenConfig, WriteConfig, Die, Goto, TypeOK, RunSound
  <2> QED BY <2>1, <2>2
<1>6. Built(r)' \subseteq Built(r)
  BY <1>2, <1>3, <1>4 DEF Built
<1>7. DOMAIN boc \subseteq DOMAIN boc'
  BY FilesRemain DEF Step
<1>8. \A t \in Built(r)' : FileHash(t) \in DOMAIN boc'
  BY <1>1, <1>4, <1>6, <1>7 DEF RunSound
<1>9. \A v \in input[r].workchains \ left[r] : descr[r][v] = Ids(WorkchainState(r, v))'
  BY <1>1, <1>3, <1>4 DEF RunSound, Ids, FileHash, RootHash
<1>10. RunSound(r)'
  BY <1>1, <1>2, <1>3, <1>4, <1>5, <1>8, <1>9 DEF RunSound
<1> QED BY <1>3, <1>4, <1>6, <1>10

LEMMA RunsInv ==
  ASSUME ZeroInv, NEW r \in Run, Step(r) \/ Die(r), NEW q \in Run
  PROVE  RunSound(q)'
<1>1. CASE q = r
  <2>1. RunSound(r)'
    BY ImportRunSound, BuildWorkchainRunSound, OpenMasterchainRunSound, QuietRunSound DEF Step
  <2> QED BY <1>1, <2>1
<1>2. CASE q # r
  <2>1. Same(q) /\ RunSound(q) /\ DOMAIN boc \subseteq DOMAIN boc'
    BY <1>2, OthersSame, FilesRemain DEF ZeroInv
  <2> QED BY <2>1, SameRunSound
<1> QED BY <1>1, <1>2

-----------------------------------------------------------------------------
(* config.json and the last run *)

LEMMA WriteConfigNames ==
  ASSUME ZeroInv, NEW r \in Run, WriteConfig(r)
  PROVE  pc'[r] = "done" /\ config' = ConfigOf(MasterState(r))'
<1>1. RunSound(r) /\ TypeOK
  BY DEF ZeroInv
<1>2. body[r] = MasterState(r)
  BY <1>1 DEF WriteConfig, RunSound, MasterBuilt
<1>3. MasterState(r)' = MasterState(r)
  BY QuietRunSound
<1>4. ConfigOf(MasterState(r))' = ConfigOf(MasterState(r))
  BY <1>3 DEF ConfigOf, Ids, RootHash, FileHash
<1> QED BY <1>1, <1>2, <1>4 DEF WriteConfig, Goto, TypeOK

LEMMA ConfigInv ==
  ASSUME ZeroInv, NEW r \in Run, Step(r) \/ Die(r)
  PROVE  ConfigSound'
<1>1. CASE WriteConfig(r)
  BY <1>1, WriteConfigNames DEF ConfigSound
<1>2. CASE OpenConfig(r)
  <2>1. config' = EmptyFile' /\ dest'[r] = "config"
    BY <1>2 DEF OpenConfig, ZeroInv, TypeOK, EmptyFile
  <2> QED BY <2>1 DEF ConfigSound
<1>3. CASE ~WriteConfig(r) /\ ~OpenConfig(r)
  <2>1. config' = config /\ pc[r] # "done" /\ pc'[r] # "done"
    BY <1>3 DEF ZeroInv, TypeOK, Step, Die, UnderWay, Over, Import, BuildWorkchain, FinishImport,
                OpenMasterchain, WriteBoc, CheckState, Goto
  <2>2. dest[r] = "config" => dest'[r] = "config"
    BY <1>3, ZerostateAssumption
       DEF ZeroInv, TypeOK, Step, Die, Import, BuildWorkchain, FinishImport, OpenMasterchain,
           WriteBoc, CheckState
  <2>3. \A q \in Run \ {r} : Same(q)
    BY OthersSame DEF ZeroInv
  <2>4. CASE config = NoFile /\ \A q \in Run : pc[q] # "done"
    BY <2>1, <2>3, <2>4 DEF ConfigSound, Same, NoFile
  <2>5. CASE config = EmptyFile /\ \E q \in Run : dest[q] = "config"
    BY <2>1, <2>2, <2>3, <2>5 DEF ConfigSound, Same, EmptyFile
  <2>6. CASE \E q \in Run : pc[q] = "done" /\ config = ConfigOf(MasterState(q))
    <3>1. PICK q \in Run : pc[q] = "done" /\ config = ConfigOf(MasterState(q))
      BY <2>6
    <3>2. Same(q)
      BY <2>1, <2>3, <3>1
    <3>3. pc'[q] = "done" /\ ConfigOf(MasterState(q))' = ConfigOf(MasterState(q))
      BY <3>1, <3>2, SameStates DEF Same, ConfigOf, Ids, RootHash, FileHash
    <3> QED BY <2>1, <3>1, <3>3 DEF ConfigSound
  <2> QED BY <2>4, <2>5, <2>6 DEF ZeroInv, ConfigSound
<1> QED BY <1>1, <1>2, <1>3

\* The files of a run that is alone: what it has built is whole, but for the
\* file it is writing.
Complete(r) ==
  \A s \in Built(r) : Intact(FileHash(s)) \/ (dest[r] = "boc" /\ body[r] = s)

LEMMA AloneComplete ==
  ASSUME ZeroInv, NEW r \in Run, Step(r) \/ Die(r), ~Import(r), Complete(r)
  PROVE  Complete(r)'
<1>0. TypeOK /\ FilesSound /\ None # "boc" /\ None # "config"
  BY ZerostateAssumption DEF ZeroInv
<1>1. CASE BuildWorkchain(r) \/ OpenMasterchain(r)
  <2>1. dest[r] = None
    BY <1>1 DEF BuildWorkchain, OpenMasterchain
  <2>2. PICK s : OpenBoc(r, s) /\ Built(r)' = Built(r) \cup {s}
    BY <1>1, BuildWorkchainRunSound, OpenMasterchainRunSound
  <2>3. /\ dest'[r] = "boc" /\ body'[r] = s
        /\ \A h : Intact(h) => Intact(h)' \/ h = FileHash(s)
    BY <1>0, <2>1, <2>2, OpenBocFiles
  <2>4. ASSUME NEW t \in Built(r)
        PROVE  Intact(FileHash(t))' \/ t = s
    <3>1. Intact(FileHash(t))
      BY <1>0, <2>1 DEF Complete
    <3>2. PICK h : h = FileHash(t)
      OBVIOUS
    <3>3. Intact(h)' \/ h = FileHash(s)
      BY <2>3, <3>1, <3>2
    <3>4. Intact(h)' => Intact(FileHash(t))'
      BY <3>2 DEF Intact, FileHash
    <3> QED BY <3>2, <3>3, <3>4, FileHashInjective
  <2> QED BY <2>2, <2>3, <2>4 DEF Complete
<1>2. CASE WriteBoc(r)
  <2>1. /\ Intact(FileHash(body[r]))' /\ \A h : Intact(h) => Intact(h)'
    BY <1>0, <1>2, WriteBocFiles
  <2>2. Built(r)' \subseteq Built(r) /\ body' = body
    BY <1>2, QuietRunSound DEF WriteBoc
  <2>3. ASSUME NEW t \in Built(r)
        PROVE  Intact(FileHash(t))'
    <3>1. CASE Intact(FileHash(t))
      BY <2>1, <3>1 DEF Intact, FileHash
    <3>2. CASE body[r] = t
      BY <2>1, <2>2, <3>2 DEF Intact, FileHash
    <3> QED BY <3>1, <3>2 DEF Complete
  <2> QED BY <2>2, <2>3 DEF Complete
<1>3. CASE FinishImport(r) \/ CheckState(r) \/ OpenConfig(r) \/ WriteConfig(r) \/ Die(r)
  <2>1. Built(r)' \subseteq Built(r) /\ boc' = boc /\ body' = body
    BY <1>3, QuietRunSound DEF FinishImport, CheckState, OpenConfig, WriteConfig, Die
  <2>2. dest[r] = "boc" => dest'[r] = "boc"
    BY <1>0, <1>3 DEF FinishImport, CheckState, OpenConfig, WriteConfig, Die
  <2> QED BY <2>1, <2>2 DEF Complete, Intact, FileHash
<1> QED BY <1>1, <1>2, <1>3 DEF Step

LEMMA LastInv ==
  ASSUME ZeroInv, NEW r \in Run, Step(r) \/ Die(r)
  PROVE  LastSound'
<1>0. /\ TypeOK /\ LastSound /\ None \notin Run
      /\ \A q \in Run \ {r} : pc'[q] = pc[q] /\ (UnderWay(q)' = UnderWay(q))
  BY ZerostateAssumption, OthersSame DEF ZeroInv, Same, UnderWay, Over
<1>1. CASE Import(r)
  <2>1. last' = r /\ alone' = (\A q \in Run : ~UnderWay(q))
    BY <1>1 DEF Import
  <2>2. Built(r)' = {} /\ pc'[r] = "workchains"
    BY <1>1, ImportRunSound
  <2> QED BY <1>0, <2>1, <2>2 DEF LastSound
<1>2. CASE ~Import(r)
  <2>1. UnderWay(r) /\ UNCHANGED <<last, alone>>
    BY <1>2 DEF Step, Die, UnderWay, Over, BuildWorkchain, FinishImport, OpenMasterchain,
                WriteBoc, CheckState, OpenConfig, WriteConfig, history
  <2>2. pc'[r] # "off"
    BY <1>2, BuildWorkchainRunSound, OpenMasterchainRunSound, QuietRunSound DEF Step
  <2>3. last # None
    BY <1>0, <2>1 DEF LastSound, UnderWay
  <2> SUFFICES ASSUME NEW q \in Run, last' = q, alone'
               PROVE  /\ pc'[q] # "off"
                      /\ \A p \in Run \ {q} : ~UnderWay(p)'
                      /\ Complete(q)'
                      /\ pc'[q] = "done" => config' = ConfigOf(MasterState(q))'
    BY <2>1, <2>3 DEF LastSound, Complete
  <2>4. q = r
    BY <1>0, <2>1 DEF LastSound
  <2>5. Complete(r) /\ \A p \in Run \ {r} : ~UnderWay(p)
    BY <1>0, <2>1, <2>4 DEF LastSound, Complete
  <2>6. Complete(r)'
    BY <1>2, <2>5, AloneComplete
  <2>7. pc'[r] = "done" => WriteConfig(r)
    BY <1>0, <1>2, <2>1
       DEF TypeOK, Step, Die, UnderWay, Over, BuildWorkchain, FinishImport, OpenMasterchain,
           WriteBoc, CheckState, OpenConfig, Goto
  <2>8. pc'[r] = "done" => config' = ConfigOf(MasterState(r))'
    BY <2>7, WriteConfigNames
  <2> QED BY <1>0, <2>2, <2>4, <2>5, <2>6, <2>8
<1> QED BY <1>1, <1>2

-----------------------------------------------------------------------------
LEMMA InitZeroInv == Init => ZeroInv
<1> SUFFICES ASSUME Init PROVE ZeroInv
  OBVIOUS
<1>1. TypeOK
  BY DEF Init, TypeOK, NoFile
<1>2. DOMAIN boc = {}
  BY DEF Init
<1>3. FilesSound
  BY <1>2 DEF FilesSound
<1>4. ASSUME NEW r \in Run PROVE RunSound(r)
  BY ZerostateAssumption DEF Init, RunSound, MasterBuilt
<1>5. ConfigSound /\ LastSound
  BY ZerostateAssumption DEF Init, ConfigSound, LastSound
<1> QED BY <1>1, <1>3, <1>4, <1>5 DEF ZeroInv

LEMMA NextZeroInv == ZeroInv /\ [Next]_vars => ZeroInv'
<1> SUFFICES ASSUME ZeroInv, [Next]_vars PROVE ZeroInv'
  OBVIOUS
<1>1. CASE Next
  <2>1. PICK r \in Run : Step(r) \/ Die(r)
    BY <1>1 DEF Next
  <2>2. TypeOK' /\ FilesSound' /\ ConfigSound' /\ LastSound'
    BY <2>1, TypesInv, FilesInv, ConfigInv, LastInv
  <2>3. \A q \in Run : RunSound(q)'
    BY <2>1, RunsInv
  <2> QED BY <2>2, <2>3 DEF ZeroInv
<1>2. CASE UNCHANGED vars
  <2>1. /\ UNCHANGED <<pc, input, left, descr, dest, body, boc, config, last, alone>>
        /\ \A q \in Run : Same(q)
    BY <1>2 DEF vars, history, Same
  <2>2. TypeOK' /\ FilesSound'
    BY <2>1 DEF ZeroInv, TypeOK, FilesSound, Torn
  <2>3. \A q \in Run : RunSound(q)'
    BY <2>1, SameRunSound DEF ZeroInv
  <2>4. ConfigSound'
    BY <2>1 DEF ZeroInv, ConfigSound, MasterState
  <2>5. LastSound'
    BY <2>1 DEF ZeroInv, LastSound, UnderWay, Built, MasterBuilt, WorkchainState, MasterState, Intact
  <2> QED BY <2>2, <2>3, <2>4, <2>5 DEF ZeroInv
<1> QED BY <1>1, <1>2

-----------------------------------------------------------------------------
\* The invariant of any number of runs in one directory.
THEOREM ZeroInvariant == Spec => []ZeroInv
<1>1. Init => ZeroInv
  BY InitZeroInv
<1>2. ZeroInv /\ [Next]_vars => ZeroInv'
  BY NextZeroInv
<1> QED BY <1>1, <1>2, PTL DEF Spec

\* A finished run has built all states that its network needs.
LEMMA NeededBuilt ==
  ASSUME ZeroInv, NEW r \in Run, pc[r] = "done", NEW h \in Needed(MasterState(r))
  PROVE  /\ \E s \in Built(r) : h = FileHash(s)
         /\ h \in DOMAIN boc
<1>1. /\ RunSound(r) /\ left[r] = {} /\ DOMAIN descr[r] = input[r].workchains
      /\ \A w \in input[r].workchains : descr[r][w] = Ids(WorkchainState(r, w))
  BY DEF ZeroInv, RunSound
<1>2. MasterState(r).workchains = descr[r]
  BY DEF MasterState
<1>3. CASE h = FileHash(MasterState(r))
  BY <1>1, <1>3 DEF Built, MasterBuilt, RunSound
<1>4. CASE \E w \in DOMAIN descr[r] : h = descr[r][w].file_hash
  <2>1. PICK w \in input[r].workchains : h = Ids(WorkchainState(r, w)).file_hash
    BY <1>1, <1>4
  <2>2. h = FileHash(WorkchainState(r, w)) /\ WorkchainState(r, w) \in Built(r)
    BY <1>1, <2>1 DEF Ids, Built
  <2> QED BY <1>1, <2>2 DEF RunSound
<1> QED BY <1>2, <1>3, <1>4 DEF Needed

\* What a complete config.json names is the state of a run that is done.
LEMMA NamedByRun ==
  ASSUME ZeroInv, config.kind = "config"
  PROVE  \E r \in Run : /\ pc[r] = "done" /\ config = ConfigOf(MasterState(r))
                         /\ Named = MasterState(r) /\ input[r].sound
<1>1. config # NoFile /\ config # EmptyFile
  BY DEF NoFile, EmptyFile
<1>2. PICK r \in Run : pc[r] = "done" /\ config = ConfigOf(MasterState(r))
  BY <1>1 DEF ZeroInv, ConfigSound
<1>3. config.zero_state.file_hash.bytes = MasterState(r)
  BY <1>2 DEF ConfigOf, Ids, FileHash
<1> QED BY <1>2, <1>3 DEF Named, ZeroInv, RunSound

\* Type correctness of the runs' variables.
THEOREM ZeroTypes == Spec => []TypeOK
<1>1. ZeroInv => TypeOK
  BY DEF ZeroInv
<1> QED BY <1>1, ZeroInvariant, PTL

\* Whatever is killed when, config.json never names a file that is not there.
THEOREM ConfigIsBacked == Spec => []ConfigBacked
<1>1. ZeroInv => ConfigBacked
  <2> SUFFICES ASSUME ZeroInv, config.kind = "config"
               PROVE  /\ config = ConfigOf(Named)
                      /\ \A h \in Needed(Named) :
                           /\ h \in DOMAIN boc
                           /\ boc[h] = h.bytes \/ (boc[h] = EmptyFile /\ Torn(h))
    BY DEF ConfigBacked
  <2>1. PICK r \in Run : /\ pc[r] = "done" /\ config = ConfigOf(MasterState(r))
                         /\ Named = MasterState(r)
    BY NamedByRun
  <2>2. \A h \in Needed(Named) : h \in DOMAIN boc
    BY <2>1, NeededBuilt
  <2> QED BY <2>1, <2>2 DEF ZeroInv, FilesSound
<1> QED BY <1>1, ZeroInvariant, PTL

\* No run makes config.json name a state that failed the checks.
THEOREM ConfigIsChecked == Spec => []ConfigChecked
<1>1. ZeroInv => ConfigChecked
  <2> SUFFICES ASSUME ZeroInv, config.kind = "config" PROVE Named.sound
    BY DEF ConfigChecked
  <2>1. PICK r \in Run : Named = MasterState(r) /\ input[r].sound
    BY NamedByRun
  <2> QED BY <2>1 DEF MasterState
<1> QED BY <1>1, ZeroInvariant, PTL

\* Runs that all succeed leave a network that can be launched, in whatever
\* order their steps were taken.
THEOREM SuccessIsLaunchable == Spec => []SuccessLaunchable
<1>1. ZeroInv => SuccessLaunchable
  <2> SUFFICES ASSUME ZeroInv, \A r \in Run : pc[r] \in {"off", "done"},
                      \E r \in Run : pc[r] = "done"
               PROVE  /\ config.kind = "config" /\ Launchable(Named)
                      /\ \E r \in Run : pc[r] = "done" /\ Named = MasterState(r)
    BY DEF SuccessLaunchable
  <2>1. \A r \in Run : dest[r] # "boc" /\ dest[r] # "config"
    BY DEF ZeroInv, RunSound
  <2>2. config.kind = "config"
    BY <2>1 DEF ZeroInv, ConfigSound, ConfigOf
  <2>3. PICK r \in Run : pc[r] = "done" /\ Named = MasterState(r)
    BY <2>2, NamedByRun
  <2>4. \A h \in Needed(Named) : h \in DOMAIN boc
    BY <2>3, NeededBuilt
  <2>5. \A h \in DOMAIN boc : boc[h] = h.bytes
    BY <2>1 DEF ZeroInv, FilesSound, Torn
  <2> QED BY <2>2, <2>3, <2>4, <2>5 DEF Launchable, Intact
<1> QED BY <1>1, ZeroInvariant, PTL

\* A run that is started when no other is under way repairs what earlier runs
\* left half-written, and its network is the one that config.json names.
THEOREM LastRunIsLaunchable == Spec => []LastRunLaunchable
<1>1. ZeroInv => LastRunLaunchable
  <2> SUFFICES ASSUME ZeroInv, last # None, alone, pc[last] = "done"
               PROVE  /\ config = ConfigOf(MasterState(last))
                      /\ Launchable(MasterState(last))
    BY DEF LastRunLaunchable
  <2>1. PICK r \in Run : r = last
    BY DEF ZeroInv, TypeOK
  <2>2. /\ config = ConfigOf(MasterState(r))
        /\ \A s \in Built(r) : Intact(FileHash(s)) \/ (dest[r] = "boc" /\ body[r] = s)
    BY <2>1 DEF ZeroInv, LastSound
  <2>3. dest[r] # "boc"
    BY <2>1 DEF ZeroInv, RunSound
  <2>4. \A h \in Needed(MasterState(r)) : \E s \in Built(r) : h = FileHash(s)
    BY <2>1, NeededBuilt
  <2> QED BY <2>1, <2>2, <2>3, <2>4 DEF Launchable
<1> QED BY <1>1, ZeroInvariant, PTL

=============================================================================
