------------------------ MODULE ServerRegistryProofs ------------------------
(***************************************************************************)
(* What TLAPS proves of ServerRegistry for all sets of servers, requests   *)
(* and settings: its types, that neither a created server is lost nor a    *)
(* deleted one comes back, and that backup settings come true.             *)
(***************************************************************************)
EXTENDS ServerRegistry, SequenceFacts, WellFoundedInduction

Labels == {"idle", "mkdir", "openjson", "filljson", "openfile", "fillfile", "read",
           "insert", "reply", "load", "apply", "rm"}

Job == [op : OpKinds \cup {"none"}, server : Servers, at : Labels]

-----------------------------------------------------------------------------
(* Lemmas on texts and on the steps of a slot *)

\* First is the first backup block of a text that has one.
LEMMA FirstBackup ==
  ASSUME NEW t \in Texts, Has(t, "backup")
  PROVE  /\ First(t, "backup") \in 1 .. Len(t)
         /\ t[First(t, "backup")].kind = "backup"
         /\ \A j \in 1 .. Len(t) : t[j].kind = "backup" => First(t, "backup") <= j
<1>. DEFINE T == {i \in DOMAIN t : t[i].kind = "backup"}
<1>1. DOMAIN t = 1 .. Len(t) /\ Len(t) \in Nat
  BY LenProperties DEF Texts
<1>2. T # {} /\ T \subseteq Nat
  BY <1>1 DEF Has
<1>3. \E i \in T : \A j \in T : i <= j
  <2>. HIDE DEF T
  <2>1. PICK i \in T : \A j \in T : ~(<<j, i>> \in OpToRel(<, Nat))
    BY <1>2, NatLessThanWellFounded, WFMin
  <2>2. \A j \in T : ~(j < i) /\ j \in Nat /\ i \in Nat
    BY <1>2, <2>1 DEF OpToRel
  <2>. QED
    BY <2>2
<1>. QED
  BY <1>1, <1>3 DEF First

\* The rewritten texts are texts.
LEMMA TextFacts ==
  /\ <<>> \in Texts
  /\ \A opencl \in BOOLEAN : <<Template(opencl)>> \in Texts /\ Regenerate(opencl) \in Texts
  /\ \A t \in Texts : CutOff(t) \in Texts /\ Edits(t) \subseteq Texts
  /\ \A t \in Texts, b \in Backups : WithBackup(t, b) \in Texts
<1>1. /\ <<>> \in Texts /\ Own \in Blocks /\ Remnant \in Blocks
      /\ \A opencl \in BOOLEAN : Template(opencl) \in Blocks
      /\ \A cfg \in Configs : Sidecar(cfg) \in Blocks
  BY DEF Texts, Blocks
<1>2. \A b \in Blocks : <<b>> \in Texts
  BY DEF Texts
<1>3. \A t \in Texts, b \in Blocks : Append(t, b) \in Texts
  BY AppendProperties DEF Texts
<1>4. ASSUME NEW t \in Texts PROVE StripBackup(t) \in Texts
  <2>1. CASE ~Has(t, "backup")
    BY <2>1 DEF StripBackup
  <2>2. CASE Has(t, "backup")
    <3>. DEFINE n == First(t, "backup")
    <3>1. DOMAIN t = 1 .. Len(t) /\ Len(t) \in Nat
      BY LenProperties DEF Texts
    <3>2. n \in DOMAIN t
      BY <2>2, <3>1, FirstBackup
    <3>3. n - 1 \in 0 .. Len(t)
      <4>. HIDE DEF n
      <4>. QED
        BY <3>1, <3>2
    <3>4. \A i \in 1 .. n - 1 : t[i] \in Blocks
      <4>1. \A i \in DOMAIN t : t[i] \in Blocks
        BY SeqElements DEF Texts
      <4>. HIDE DEF n
      <4>. QED
        BY <3>1, <3>3, <4>1
    <3>5. SubSeq(t, 1, n - 1) \in Seq(Blocks)
      <4>. HIDE DEF n
      <4>1. 1 \in Int /\ n - 1 \in Int /\ 1 \in 1 .. Len(t) + 1
        BY <3>1, <3>3
      <4>. QED
        BY <3>1, <3>3, <3>4, <4>1, SubSeqProperties DEF Texts
    <3>. QED
      BY <2>2, <3>5 DEF StripBackup, Texts
  <2>. QED
    BY <2>1, <2>2
<1>5. \A opencl \in BOOLEAN : <<Template(opencl)>> \in Texts /\ Regenerate(opencl) \in Texts
  BY <1>1, <1>2 DEF Regenerate
<1>6. \A t \in Texts : CutOff(t) \in Texts /\ Edits(t) \subseteq Texts
  BY <1>1, <1>2, <1>3 DEF CutOff, Edits
<1>7. \A t \in Texts, b \in Backups : WithBackup(t, b) \in Texts
  BY <1>1, <1>3, <1>4 DEF WithBackup
<1>. QED
  BY <1>1, <1>5, <1>6, <1>7

\* The sidecars of a text are settings that enable one.
LEMMA SidecarFacts ==
  ASSUME NEW t \in Texts
  PROVE  Sidecars(t) \subseteq Configs
<1>. SUFFICES ASSUME NEW i \in DOMAIN t, t[i].kind = "backup"
              PROVE  t[i].cfg \in Configs
  BY DEF Sidecars
<1>1. t[i] \in Blocks
  BY SeqElements DEF Texts
<1>. QED
  BY <1>1 DEF Blocks, Template, Sidecar, Own, Remnant

\* docker compose leaves a container of a text's sidecar, or the one that was there.
LEMMA OutcomeFacts ==
  ASSUME NEW h \in Slots, NEW now \in Containers, NEW found, found \subseteq Configs
  PROVE  Outcomes(h, now, found) \subseteq Containers
<1>1. Awake(now) \in Containers
  BY DEF Awake, Containers, Halted
<1>2. now \in Configs => Halted(now) \in Containers
  BY DEF Containers
<1>3. Off \in Containers /\ Configs \subseteq Containers
  BY DEF Containers
<1>. QED
  BY <1>1, <1>2, <1>3 DEF Outcomes

\* The other slots stay where they are.
Elsewhere(h) == \A k \in Slots \ {h} : job'[k] = job[k]

LEMMA GotoShape ==
  ASSUME job \in [Slots -> Job], NEW h \in Slots, NEW label \in Labels, Goto(h, label)
  PROVE  /\ job' \in [Slots -> Job] /\ Elsewhere(h)
         /\ job'[h].op = job[h].op /\ job'[h].server = job[h].server /\ job'[h].at = label
BY DEF Goto, Job, Elsewhere

LEMMA IdleJob == Idle \in Job /\ Idle.at = "idle" /\ NewDef \in Defs
<1>1. (CHOOSE s \in Servers : TRUE) \in Servers
  BY ServersAssumption
<1>. QED
  BY <1>1 DEF Idle, Job, Labels, NewDef, Defs, Backups

LEMMA LeaveShape ==
  ASSUME job \in [Slots -> Job], def \in [Slots -> Defs], text \in [Slots -> Texts],
         NEW h \in Slots, Leave(h)
  PROVE  /\ job' \in [Slots -> Job] /\ Elsewhere(h) /\ job'[h].at = "idle"
         /\ def' \in [Slots -> Defs] /\ text' \in [Slots -> Texts] /\ lone' = lone \ {h}
BY IdleJob, TextFacts DEF Leave, Elsewhere

LEMMA AcceptShape ==
  ASSUME job \in [Slots -> Job], def \in [Slots -> Defs], text \in [Slots -> Texts],
         NEW h \in Slots, NEW op \in OpKinds, NEW s \in Servers, NEW at \in Labels,
         NEW newDef \in Defs, NEW newText \in Texts,
         Accept(h, op, s, at, newDef, newText)
  PROVE  /\ job' \in [Slots -> Job] /\ Elsewhere(h) /\ ~Busy(h)
         /\ job'[h].op = op /\ job'[h].server = s /\ job'[h].at = at
         /\ def' \in [Slots -> Defs] /\ text' \in [Slots -> Texts]
BY DEF Accept, Job, Elsewhere

-----------------------------------------------------------------------------
(* Type correctness *)

\* A server no request was ever accepted for is nowhere.
IdsKnown ==
  \A s \in Servers : s \notin issued =>
    /\ ~Listed(s) /\ dir[s] = "none"
    /\ \A h \in Slots : Busy(h) => job[h].server # s

\* A file that is about to be filled is there.
FilesOpened ==
  \A h \in Slots :
    /\ At(h, "filljson") => json[job[h].server] # Absent
    /\ At(h, "fillfile") => file[job[h].server] # Absent

TypeInv == TypeOK /\ IdsKnown /\ FilesOpened

\* What is no definition and no text.
LEMMA Values ==
  /\ NoServer \notin Defs /\ Absent \notin Defs /\ Empty \notin Defs /\ Torn \notin Defs
  /\ Absent # Empty /\ Absent # Torn /\ Empty # Torn /\ Absent \notin Texts
BY ValueAssumption

LEMMA JobType ==
  ASSUME TypeOK
  PROVE  /\ job \in [Slots -> Job] /\ def \in [Slots -> Defs] /\ text \in [Slots -> Texts]
         /\ \A h \in Slots : job[h] \in Job /\ job[h].server \in Servers
         /\ \A h \in Slots : job[h].op \in OpKinds \cup {"none"} /\ job[h].at \in Labels
<1>1. job \in [Slots -> Job]
  BY DEF TypeOK, Job, Labels
<1>2. \A h \in Slots : job[h] \in Job
  BY <1>1
<1>. QED
  BY <1>1, <1>2 DEF TypeOK, Job

LEMMA TypeInit == Init => TypeInv
<1>1. Idle \in Job /\ Idle.at = "idle" /\ NewDef \in Defs /\ <<>> \in Texts
  BY IdleJob, TextFacts
<1>. SUFFICES ASSUME Init PROVE TypeInv
  OBVIOUS
<1>2. job \in [Slots -> Job] /\ \A h \in Slots : job[h].at = "idle"
  BY <1>1 DEF Init
<1>3. TypeOK
  BY <1>1, <1>2 DEF Init, TypeOK, Job, Labels, Backups, Busy, Containers
<1>4. IdsKnown /\ FilesOpened
  BY <1>2 DEF Init, IdsKnown, FilesOpened, Listed, Busy, At
<1>. QED
  BY <1>3, <1>4 DEF TypeInv

\* A request that is accepted takes a free slot and changes no file.
LEMMA BeginShape ==
  ASSUME TypeInv, NEW h \in Slots, NEW s \in Servers,
         \/ BeginCreate(h, s) \/ BeginDelete(h, s) \/ BeginOpencl(h, s)
         \/ BeginBackup(h, s) \/ BeginConfig(h, s) \/ BeginCompose(h, s)
  PROVE  /\ job' \in [Slots -> Job] /\ Elsewhere(h) /\ ~Busy(h)
         /\ job'[h].server = s
         /\ job'[h].at \in {"mkdir", "rm", "openjson", "read", "openfile", "load"}
         /\ def' \in [Slots -> Defs] /\ text' \in [Slots -> Texts]
         /\ lone' \subseteq lone \cup {h}
         /\ asked' = [asked EXCEPT ![s] = Unset] /\ begun' \in Nat
         /\ UNCHANGED <<disk, sidecar, damaged, skipped, gone>>
         /\ \/ /\ BeginCreate(h, s) /\ issued' = issued \cup {s} /\ s \notin issued
               /\ UNCHANGED <<servers, kept>>
               /\ job'[h].op = "create" /\ job'[h].at = "mkdir"
            \/ /\ BeginDelete(h, s) /\ issued' = issued /\ Listed(s) /\ kept' = kept \ {s}
               /\ servers' = [servers EXCEPT ![s] = NoServer]
               /\ job'[h].op = "delete" /\ job'[h].at = "rm"
            \/ /\ issued' = issued /\ Listed(s) /\ UNCHANGED <<servers, kept>>
               /\ job'[h].op \in {"opencl", "backup", "config", "start", "stop", "restart"}
               /\ job'[h].at # "rm"
<1>0. /\ TypeOK /\ job \in [Slots -> Job] /\ def \in [Slots -> Defs] /\ text \in [Slots -> Texts]
      /\ begun \in Nat /\ NewDef \in Defs /\ <<>> \in Texts
  BY JobType, IdleJob, TextFacts DEF TypeInv, TypeOK
<1>1. ASSUME NEW op \in OpKinds, NEW at \in Labels, NEW d \in Defs, NEW t \in Texts,
             Accept(h, op, s, at, d, t)
      PROVE  /\ job' \in [Slots -> Job] /\ Elsewhere(h) /\ ~Busy(h)
             /\ job'[h].op = op /\ job'[h].server = s /\ job'[h].at = at
             /\ def' \in [Slots -> Defs] /\ text' \in [Slots -> Texts]
             /\ lone' \subseteq lone \cup {h}
             /\ asked' = [asked EXCEPT ![s] = Unset] /\ begun' \in Nat
  <2>1. /\ job' \in [Slots -> Job] /\ Elsewhere(h) /\ ~Busy(h)
        /\ job'[h].op = op /\ job'[h].server = s /\ job'[h].at = at
        /\ def' \in [Slots -> Defs] /\ text' \in [Slots -> Texts]
    BY <1>0, <1>1, AcceptShape
  <2>2. /\ lone' \subseteq lone \cup {h} /\ asked' = [asked EXCEPT ![s] = Unset]
        /\ begun' \in Nat
    BY <1>0, <1>1 DEF Accept, Unsettle
  <2>. QED
    BY <2>1, <2>2
<1>2. CASE BeginCreate(h, s)
  <2>1. PICK opencl \in BOOLEAN :
          Accept(h, "create", s, "mkdir", [NewDef EXCEPT !.opencl = opencl], <<Template(opencl)>>)
    BY <1>2 DEF BeginCreate
  <2>2. [NewDef EXCEPT !.opencl = opencl] \in Defs /\ <<Template(opencl)>> \in Texts
    BY <1>0, TextFacts DEF Defs
  <2>. QED
    BY <1>1, <1>2, <2>1, <2>2 DEF BeginCreate, OpKinds, Labels
<1>3. CASE BeginDelete(h, s)
  BY <1>0, <1>1, <1>3 DEF BeginDelete, OpKinds, Labels
<1>4. CASE BeginOpencl(h, s)
  <2>1. PICK enabled \in BOOLEAN :
          Accept(h, "opencl", s, "openjson", [servers[s] EXCEPT !.opencl = enabled], <<>>)
    BY <1>4 DEF BeginOpencl
  <2>2. servers[s] \in Defs
    BY <1>0, <1>4 DEF BeginOpencl, Listed, TypeOK
  <2>3. [servers[s] EXCEPT !.opencl = enabled] \in Defs
    BY <2>2 DEF Defs
  <2>. QED
    BY <1>0, <1>1, <1>4, <2>1, <2>3 DEF BeginOpencl, OpKinds, Labels
<1>5. CASE BeginBackup(h, s)
  <2>1. PICK cfg \in Configs \cup {Off} :
          Accept(h, "backup", s, IF cfg = Off THEN "read" ELSE "mkdir",
                 [servers[s] EXCEPT !.backup = cfg], <<>>)
    BY <1>5 DEF BeginBackup
  <2>2. servers[s] \in Defs
    BY <1>0, <1>5 DEF BeginBackup, Listed, TypeOK
  <2>3. [servers[s] EXCEPT !.backup = cfg] \in Defs
    BY <2>2 DEF Defs, Backups
  <2>. QED
    BY <1>0, <1>1, <1>5, <2>1, <2>3 DEF BeginBackup, OpKinds, Labels
<1>6. CASE BeginConfig(h, s)
  <2>1. PICK edited \in Edits(file[s]) : Accept(h, "config", s, "openfile", NewDef, edited)
    BY <1>6 DEF BeginConfig
  <2>2. edited \in Texts
    BY <1>0, <1>6, <2>1, TextFacts DEF BeginConfig, TypeOK
  <2>. QED
    BY <1>0, <1>1, <1>6, <2>1, <2>2 DEF BeginConfig, OpKinds, Labels
<1>7. CASE BeginCompose(h, s)
  <2>1. PICK op \in {"start", "stop", "restart"} : Accept(h, op, s, "load", NewDef, <<>>)
    BY <1>7 DEF BeginCompose
  <2>. QED
    BY <1>0, <1>1, <1>7, <2>1 DEF BeginCompose, OpKinds, Labels
<1>. QED
  BY <1>2, <1>3, <1>4, <1>5, <1>6, <1>7

LEMMA AfterFacts ==
  ASSUME NEW op
  PROVE  /\ After(op, "mkdir") = IF op = "create" THEN "openjson" ELSE "read"
         /\ After(op, "openjson") = "filljson"
         /\ op = "create" => After(op, "filljson") = "openfile"
         /\ op # "create" => After(op, "filljson") \in {"read", "reply"}
         /\ After(op, "openfile") = "fillfile"
         /\ op = "create" => After(op, "fillfile") = "insert"
         /\ op # "create" => After(op, "fillfile") \in {"openjson", "reply"}
BY DEF After

\* A request keeps its slot until it leaves it, and goes through its steps.
LEMMA ServeShape ==
  ASSUME TypeInv, NEW h \in Slots, Serve(h)
  PROVE  /\ job' \in [Slots -> Job] /\ Elsewhere(h) /\ Busy(h) /\ UNCHANGED taken
         /\ \/ job'[h].at = "idle"
            \/ job'[h].server = job[h].server /\ job'[h].op = job[h].op
         /\ def' \in [Slots -> Defs] /\ text' \in [Slots -> Texts]
         /\ lone' \subseteq lone /\ (job'[h].at = "idle" => h \notin lone')
<1>. DEFINE s == job[h].server
<1>0. /\ TypeOK /\ job \in [Slots -> Job] /\ def \in [Slots -> Defs] /\ text \in [Slots -> Texts]
      /\ s \in Servers
  BY JobType DEF TypeInv
<1>1. ASSUME NEW label \in Labels \ {"idle"}, Goto(h, label)
      PROVE  /\ job' \in [Slots -> Job] /\ Elsewhere(h) /\ job'[h].at # "idle"
             /\ job'[h].server = job[h].server /\ job'[h].op = job[h].op
  BY <1>0, <1>1, GotoShape
<1>2. ASSUME Leave(h)
      PROVE  /\ job' \in [Slots -> Job] /\ Elsewhere(h) /\ job'[h].at = "idle"
             /\ def' \in [Slots -> Defs] /\ text' \in [Slots -> Texts] /\ lone' = lone \ {h}
  BY <1>0, <1>2, LeaveShape
<1>3. Busy(h)
  BY DEF Serve, MakeDir, OpenJson, FillJson, OpenFile, FillFile, ReadToRegenerate, ReadToAppend,
     NotFound, Insert, Reply, Load, Apply, RemoveJson, RemoveFile, RemoveBackups, RemoveDir,
     At, Busy
<1>4. CASE MakeDir(h) \/ OpenJson(h) \/ FillJson(h) \/ OpenFile(h) \/ FillFile(h)
  <2>1. GoOn(h) /\ UNCHANGED <<def, text, lone>> /\ UNCHANGED taken
    BY <1>4 DEF MakeDir, OpenJson, FillJson, OpenFile, FillFile, ghosts, taken
  <2>2. job[h].at \in {"mkdir", "openjson", "filljson", "openfile", "fillfile"}
    BY <1>4 DEF MakeDir, OpenJson, FillJson, OpenFile, FillFile, At
  <2>3. After(job[h].op, job[h].at) \in Labels \ {"idle"}
    BY <2>2, AfterFacts DEF Labels
  <2>. QED
    BY <1>0, <1>1, <1>3, <2>1, <2>3 DEF GoOn
<1>5. CASE ReadToRegenerate(h)
  <2>1. PICK label \in {"openfile", "reply"} : Goto(h, label)
    BY <1>5 DEF ReadToRegenerate
  <2>2. def[h].opencl \in BOOLEAN
    BY <1>0 DEF Defs
  <2>3. text' \in [Slots -> Texts] /\ label \in Labels \ {"idle"}
    BY <1>0, <1>5, <2>2, TextFacts DEF ReadToRegenerate, Labels
  <2>. QED
    BY <1>0, <1>1, <1>3, <1>5, <2>1, <2>3 DEF ReadToRegenerate, ghosts, taken
<1>6. CASE ReadToAppend(h)
  <2>1. file[s] \in Texts /\ def[h].backup \in Backups
    BY <1>0, <1>6 DEF ReadToAppend, TypeOK, Defs
  <2>2. text' \in [Slots -> Texts] /\ Goto(h, "openfile") /\ "openfile" \in Labels \ {"idle"}
    BY <1>0, <1>6, <2>1, TextFacts DEF ReadToAppend, Labels
  <2>. QED
    BY <1>0, <1>1, <1>3, <1>6, <2>2 DEF ReadToAppend, ghosts, taken
<1>7. CASE NotFound(h) \/ Apply(h) \/ RemoveDir(h)
  <2>1. Leave(h) /\ UNCHANGED taken
    BY <1>7 DEF NotFound, Apply, RemoveDir
  <2>. QED
    BY <1>2, <1>3, <2>1
<1>8. CASE Insert(h) \/ Reply(h)
  <2>1. UNCHANGED taken /\ "load" \in Labels \ {"idle"}
    BY <1>8 DEF Insert, Reply, Labels
  <2>2. CASE Goto(h, "load") /\ UNCHANGED <<def, text, lone>>
    BY <1>0, <1>1, <1>3, <2>1, <2>2
  <2>3. CASE Leave(h)
    BY <1>2, <1>3, <2>1, <2>3
  <2>. QED
    BY <1>8, <2>2, <2>3 DEF Insert, Reply
<1>9. CASE Load(h)
  <2>1. Goto(h, "apply") /\ UNCHANGED <<def, lone>> /\ UNCHANGED taken
        /\ "apply" \in Labels \ {"idle"}
    BY <1>9 DEF Load, ghosts, Labels
  <2>2. text' \in [Slots -> Texts]
    BY <1>0, <1>9 DEF Load, TypeOK
  <2>. QED
    BY <1>0, <1>1, <1>3, <2>1, <2>2
<1>10. CASE RemoveJson(h) \/ RemoveFile(h) \/ RemoveBackups(h)
  <2>1. UNCHANGED work /\ UNCHANGED <<lone>> /\ UNCHANGED taken
    BY <1>10 DEF RemoveJson, RemoveFile, RemoveBackups, ghosts
  <2>. QED
    BY <1>0, <1>3, <2>1 DEF Elsewhere, Busy, work
<1>. QED
  BY <1>4, <1>5, <1>6, <1>7, <1>8, <1>9, <1>10 DEF Serve

\* Where a request is after a step on a file of its server.
LEMMA FileSteps ==
  ASSUME TypeInv, NEW h \in Slots
  PROVE  /\ MakeDir(h) => job'[h].at \in {"openjson", "read"}
         /\ OpenJson(h) => job'[h].at = "filljson"
         /\ FillJson(h) => job'[h].at \in {"openfile", "read", "reply"}
         /\ OpenFile(h) => job'[h].at = "fillfile"
         /\ FillFile(h) => job'[h].at \in {"insert", "openjson", "reply"}
<1>1. job \in [Slots -> Job] /\ job[h] \in Job
  BY JobType DEF TypeInv
<1>2. ASSUME NEW label, Goto(h, label) PROVE job'[h].at = label
  BY <1>1, <1>2 DEF Goto, Job
<1>3. MakeDir(h) => job'[h].at \in {"openjson", "read"}
  BY <1>2, AfterFacts DEF MakeDir, GoOn, At
<1>4. OpenJson(h) => job'[h].at = "filljson"
  BY <1>2, AfterFacts DEF OpenJson, GoOn, At
<1>5. FillJson(h) => job'[h].at \in {"openfile", "read", "reply"}
  BY <1>2, AfterFacts DEF FillJson, GoOn, At
<1>6. OpenFile(h) => job'[h].at = "fillfile"
  BY <1>2, AfterFacts DEF OpenFile, GoOn, At
<1>7. FillFile(h) => job'[h].at \in {"insert", "openjson", "reply"}
  BY <1>2, AfterFacts DEF FillFile, GoOn, At
<1>. QED
  BY <1>3, <1>4, <1>5, <1>6, <1>7

\* The types of what lies on disk and in the map, and of the history.
FilesTyped ==
  /\ servers \in [Servers -> Defs \cup {NoServer}]
  /\ dir \in [Servers -> {"none", "made", "backups"}]
  /\ json \in [Servers -> Defs \cup {Absent, Empty, Torn}]
  /\ file \in [Servers -> Texts \cup {Absent}]
  /\ \A s \in Servers : dir[s] = "none" => json[s] = Absent /\ file[s] = Absent
  /\ sidecar \in [Servers -> Containers]

GhostsTyped ==
  /\ kept \subseteq issued /\ damaged \subseteq issued
  /\ skipped \subseteq issued /\ gone \subseteq issued
  /\ asked \in [Servers -> Backups]

LEMMA FilesStep ==
  ASSUME TypeInv, NEW h \in Slots, Serve(h)
  PROVE  FilesTyped'
<1>. DEFINE s == job[h].server
<1>0. /\ FilesTyped /\ s \in Servers /\ def[h] \in Defs /\ text[h] \in Texts
      /\ At(h, "filljson") => json[s] # Absent
      /\ At(h, "fillfile") => file[s] # Absent
  BY JobType DEF TypeInv, TypeOK, FilesTyped, FilesOpened
<1>. HIDE DEF s
<1>1. CASE MakeDir(h)
  <2>1. UNCHANGED <<servers, json, file, sidecar>>
        /\ dir' = [dir EXCEPT ![s] = IF job[h].op = "backup" THEN "backups" ELSE "made"]
    BY <1>1 DEF MakeDir, s
  <2>. QED
    BY <1>0, <2>1 DEF FilesTyped
<1>2. CASE OpenJson(h)
  <2>1. UNCHANGED <<servers, dir, file, sidecar>> /\ dir[s] # "none"
        /\ json' = [json EXCEPT ![s] = Empty]
    BY <1>2 DEF OpenJson, s
  <2>. QED
    BY <1>0, <2>1 DEF FilesTyped
<1>3. CASE FillJson(h)
  <2>1. /\ UNCHANGED <<servers, dir, file, sidecar>> /\ dir[s] # "none"
        /\ \E now \in {def[h], Torn} : json' = [json EXCEPT ![s] = now]
    BY <1>0, <1>3 DEF FillJson, FilesTyped, Overlaid, s
  <2>. QED
    BY <1>0, <2>1 DEF FilesTyped
<1>4. CASE OpenFile(h)
  <2>1. UNCHANGED <<servers, dir, json, sidecar>> /\ dir[s] # "none"
        /\ file' = [file EXCEPT ![s] = <<>>]
    BY <1>4 DEF OpenFile, s
  <2>. QED
    BY <1>0, <2>1, TextFacts DEF FilesTyped
<1>5. CASE FillFile(h)
  <2>1. /\ UNCHANGED <<servers, dir, json, sidecar>> /\ dir[s] # "none"
        /\ \E now \in {text[h], CutOff(text[h])} : file' = [file EXCEPT ![s] = now]
    BY <1>0, <1>5 DEF FillFile, FilesTyped, Overlaid, s
  <2>2. {text[h], CutOff(text[h])} \subseteq Texts
    BY <1>0, TextFacts
  <2>. QED
    BY <1>0, <2>1, <2>2 DEF FilesTyped
<1>6. CASE Insert(h)
  <2>1. UNCHANGED <<disk, sidecar>> /\ servers' = [servers EXCEPT ![s] = def[h]]
    BY <1>6 DEF Insert, s
  <2>. QED
    BY <1>0, <2>1 DEF FilesTyped, disk
<1>7. CASE Apply(h)
  <2>1. /\ UNCHANGED <<servers, disk>>
        /\ \E after \in Outcomes(h, sidecar[s], Sidecars(text[h])) :
             sidecar' = [sidecar EXCEPT ![s] = after]
    BY <1>7 DEF Apply, s
  <2>2. Sidecars(text[h]) \subseteq Configs /\ sidecar[s] \in Containers
    BY <1>0, SidecarFacts DEF FilesTyped
  <2>3. Outcomes(h, sidecar[s], Sidecars(text[h])) \subseteq Containers
    BY <2>2, OutcomeFacts
  <2>. QED
    BY <1>0, <2>1, <2>3 DEF FilesTyped, disk
<1>8. CASE RemoveJson(h)
  <2>1. UNCHANGED <<servers, dir, file, sidecar>> /\ json' = [json EXCEPT ![s] = Absent]
    BY <1>8 DEF RemoveJson, s
  <2>. QED
    BY <1>0, <2>1 DEF FilesTyped
<1>9. CASE RemoveFile(h)
  <2>1. UNCHANGED <<servers, dir, json, sidecar>> /\ file' = [file EXCEPT ![s] = Absent]
    BY <1>9 DEF RemoveFile, s
  <2>. QED
    BY <1>0, <2>1 DEF FilesTyped
<1>10. CASE RemoveBackups(h)
  <2>1. UNCHANGED <<servers, json, file, sidecar>> /\ dir[s] = "backups"
        /\ dir' = [dir EXCEPT ![s] = "made"]
    BY <1>10 DEF RemoveBackups, s
  <2>. QED
    BY <1>0, <2>1 DEF FilesTyped
<1>11. CASE RemoveDir(h)
  <2>1. UNCHANGED <<servers, json, file, sidecar>> /\ json[s] = Absent /\ file[s] = Absent
        /\ dir' = [dir EXCEPT ![s] = "none"]
    BY <1>11 DEF RemoveDir, s
  <2>. QED
    BY <1>0, <2>1 DEF FilesTyped
<1>12. CASE ReadToRegenerate(h) \/ ReadToAppend(h) \/ NotFound(h) \/ Reply(h) \/ Load(h)
  <2>1. UNCHANGED <<servers, disk, sidecar>>
    BY <1>12 DEF ReadToRegenerate, ReadToAppend, NotFound, Reply, Load
  <2>. QED
    BY <1>0, <2>1 DEF FilesTyped, disk
<1>. QED
  BY <1>1, <1>2, <1>3, <1>4, <1>5, <1>6, <1>7, <1>8, <1>9, <1>10, <1>11, <1>12 DEF Serve

\* What is kept of the past grows by servers a request is accepted for.
LEMMA GhostsStep ==
  ASSUME TypeInv, NEW h \in Slots, Serve(h)
  PROVE  GhostsTyped'
<1>. DEFINE s == job[h].server
<1>0. /\ GhostsTyped /\ s \in issued /\ def[h].backup \in Backups /\ Unset \in Backups
      /\ issued' = issued
  <2>1. Busy(h) /\ issued' = issued
    BY ServeShape DEF taken
  <2>2. s \in issued
    BY <2>1, JobType DEF TypeInv, IdsKnown
  <2>3. def[h] \in Defs
    BY JobType DEF TypeInv
  <2>. QED
    BY <2>1, <2>2, <2>3 DEF TypeInv, TypeOK, GhostsTyped, Backups, Defs
<1>. HIDE DEF s
<1>1. /\ kept' \subseteq kept \cup {s} /\ damaged' \subseteq damaged \cup {s}
      /\ skipped' = skipped /\ gone' \subseteq gone \cup {s}
  BY DEF Serve, MakeDir, OpenJson, FillJson, OpenFile, FillFile, ReadToRegenerate, ReadToAppend,
     NotFound, Insert, Reply, Load, Apply, RemoveJson, RemoveFile, RemoveBackups, RemoveDir,
     ghosts, s
<1>2. \/ asked' = asked \/ asked' = [asked EXCEPT ![s] = Unset]
      \/ asked' = [asked EXCEPT ![s] = def[h].backup]
  BY DEF Serve, MakeDir, OpenJson, FillJson, OpenFile, FillFile, ReadToRegenerate, ReadToAppend,
     NotFound, Insert, Reply, Load, Apply, RemoveJson, RemoveFile, RemoveBackups, RemoveDir,
     ghosts, s, Unsettle
<1>. QED
  BY <1>0, <1>1, <1>2 DEF GhostsTyped

\* The busy slots that no other request has overlapped are busy slots.
LEMMA LoneStep ==
  ASSUME TypeInv, NEW h \in Slots, Elsewhere(h), lone' \subseteq lone \cup {h},
         job'[h].at = "idle" => h \notin lone'
  PROVE  lone' \subseteq {k \in Slots : job'[k].at # "idle"}
BY DEF TypeInv, TypeOK, Elsewhere, Busy

\* TypeOK in the parts it is proved in.
TypedSlots ==
  /\ job \in [Slots -> Job] /\ def \in [Slots -> Defs] /\ text \in [Slots -> Texts]
  /\ issued \subseteq Servers /\ begun \in Nat
  /\ lone \subseteq {k \in Slots : job[k].at # "idle"}

LEMMA TypeParts ==
  /\ TypeOK <=> FilesTyped /\ GhostsTyped /\ TypedSlots
  /\ TypeOK' <=> FilesTyped' /\ GhostsTyped' /\ TypedSlots'
BY DEF TypeOK, FilesTyped, GhostsTyped, TypedSlots, Job, Labels, Busy

\* A request touches nothing of the other servers.
LEMMA ServeFrame ==
  ASSUME TypeInv, NEW h \in Slots, Serve(h), NEW t \in Servers, t # job[h].server
  PROVE  /\ servers'[t] = servers[t] /\ dir'[t] = dir[t] /\ json'[t] = json[t]
         /\ file'[t] = file[t] /\ sidecar'[t] = sidecar[t] /\ asked'[t] = asked[t]
         /\ (t \in kept' <=> t \in kept) /\ (t \in damaged' <=> t \in damaged)
         /\ (t \in gone' <=> t \in gone)
<1>1. FilesTyped /\ GhostsTyped
  BY TypeParts DEF TypeInv
<1>2. servers'[t] = servers[t] /\ dir'[t] = dir[t] /\ sidecar'[t] = sidecar[t]
  BY <1>1 DEF FilesTyped, Serve, MakeDir, OpenJson, FillJson, OpenFile, FillFile,
     ReadToRegenerate, ReadToAppend, NotFound, Insert, Reply, Load, Apply, RemoveJson,
     RemoveFile, RemoveBackups, RemoveDir, disk
<1>3. json'[t] = json[t] /\ file'[t] = file[t]
  BY <1>1 DEF FilesTyped, Serve, MakeDir, OpenJson, FillJson, OpenFile, FillFile,
     ReadToRegenerate, ReadToAppend, NotFound, Insert, Reply, Load, Apply, RemoveJson,
     RemoveFile, RemoveBackups, RemoveDir, disk
<1>4. /\ asked'[t] = asked[t]
      /\ (t \in kept' <=> t \in kept) /\ (t \in damaged' <=> t \in damaged)
      /\ (t \in gone' <=> t \in gone)
  BY <1>1 DEF GhostsTyped, Serve, MakeDir, OpenJson, FillJson, OpenFile, FillFile,
     ReadToRegenerate, ReadToAppend, NotFound, Insert, Reply, Load, Apply, RemoveJson,
     RemoveFile, RemoveBackups, RemoveDir, ghosts, Unsettle
<1>. QED
  BY <1>2, <1>3, <1>4

\* A file is open for filling after its opening only, and is removed by a
\* removal only.
LEMMA FileCauses ==
  ASSUME TypeInv, NEW h \in Slots, Serve(h)
  PROVE  /\ job'[h].at = "filljson" => OpenJson(h)
         /\ job'[h].at = "fillfile" => OpenFile(h)
         /\ json'[job[h].server] = Absent /\ json[job[h].server] # Absent => RemoveJson(h)
         /\ file'[job[h].server] = Absent /\ file[job[h].server] # Absent => RemoveFile(h)
<1>. DEFINE s == job[h].server
<1>0. /\ FilesTyped /\ s \in Servers /\ job \in [Slots -> Job] /\ job[h] \in Job
      /\ def[h] \in Defs /\ text[h] \in Texts /\ CutOff(text[h]) \in Texts
      /\ def \in [Slots -> Defs] /\ text \in [Slots -> Texts]
  BY JobType, TypeParts, TextFacts DEF TypeInv
<1>1. ASSUME NEW label, Goto(h, label) PROVE job'[h].at = label
  BY <1>0, <1>1 DEF Goto, Job
<1>2. ASSUME Leave(h) PROVE job'[h].at = "idle"
  BY <1>0, <1>2, LeaveShape
<1>3. \/ MakeDir(h) \/ OpenJson(h) \/ FillJson(h) \/ OpenFile(h) \/ FillFile(h)
      \/ job'[h].at \in {"idle", "openfile", "reply", "load", "apply", "rm"}
  <2>1. NotFound(h) \/ Apply(h) \/ RemoveDir(h) => job'[h].at = "idle"
    BY <1>2 DEF NotFound, Apply, RemoveDir
  <2>2. Insert(h) \/ Reply(h) => job'[h].at \in {"idle", "load"}
    BY <1>1, <1>2 DEF Insert, Reply
  <2>3. ReadToRegenerate(h) \/ ReadToAppend(h) => job'[h].at \in {"openfile", "reply"}
    BY <1>1 DEF ReadToRegenerate, ReadToAppend
  <2>4. Load(h) => job'[h].at = "apply"
    BY <1>1 DEF Load
  <2>5. RemoveJson(h) \/ RemoveFile(h) \/ RemoveBackups(h) => job'[h].at = "rm"
    BY DEF RemoveJson, RemoveFile, RemoveBackups, work, At
  <2>. QED
    BY <2>1, <2>2, <2>3, <2>4, <2>5 DEF Serve
<1>4. (job'[h].at = "filljson" => OpenJson(h)) /\ (job'[h].at = "fillfile" => OpenFile(h))
  BY <1>3, FileSteps
<1>5. \/ RemoveJson(h) \/ json' = json
      \/ \E now \in Defs \cup {Empty, Torn} : json' = [json EXCEPT ![s] = now]
  BY <1>0 DEF Serve, MakeDir, OpenJson, FillJson, OpenFile, FillFile, ReadToRegenerate,
     ReadToAppend, NotFound, Insert, Reply, Load, Apply, RemoveFile, RemoveBackups, RemoveDir,
     disk, Overlaid
<1>6. \/ RemoveFile(h) \/ file' = file
      \/ \E now \in Texts : file' = [file EXCEPT ![s] = now]
  BY <1>0, TextFacts DEF Serve, MakeDir, OpenJson, FillJson, OpenFile, FillFile,
     ReadToRegenerate, ReadToAppend, NotFound, Insert, Reply, Load, Apply, RemoveJson,
     RemoveBackups, RemoveDir, disk, Overlaid
<1>7. json'[s] = Absent /\ json[s] # Absent => RemoveJson(h)
  BY <1>0, <1>5, Values DEF FilesTyped
<1>8. file'[s] = Absent /\ file[s] # Absent => RemoveFile(h)
  BY <1>0, <1>6, Values DEF FilesTyped
<1>. QED
  BY <1>4, <1>7, <1>8

\* An operation that fails ends its request, and changes nothing else.
LEMMA FailShape ==
  ASSUME TypeInv, NEW h \in Slots, Fail(h)
  PROVE  /\ job' \in [Slots -> Job] /\ Elsewhere(h) /\ Busy(h) /\ job'[h].at = "idle"
         /\ def' \in [Slots -> Defs] /\ text' \in [Slots -> Texts] /\ lone' = lone \ {h}
         /\ UNCHANGED <<servers, dir, json, file, sidecar, issued, begun, kept, skipped, gone>>
         /\ damaged' = IF At(h, "filljson") THEN damaged \cup {job[h].server} ELSE damaged
         /\ asked' = [asked EXCEPT ![job[h].server] = Unset]
<1>1. Leave(h)
  BY DEF Fail
<1>2. /\ job' \in [Slots -> Job] /\ Elsewhere(h) /\ job'[h].at = "idle"
      /\ def' \in [Slots -> Defs] /\ text' \in [Slots -> Texts] /\ lone' = lone \ {h}
  BY <1>1, JobType, LeaveShape DEF TypeInv
<1>. QED
  BY <1>2 DEF Fail, disk, taken, Unsettle

\* After a crash only running docker composes are left.
LEMMA CrashShape ==
  ASSUME TypeInv, Crash
  PROVE  /\ job' \in [Slots -> Job] /\ def' \in [Slots -> Defs] /\ text' \in [Slots -> Texts]
         /\ \A h \in Slots : \/ job'[h] = job[h] /\ At(h, "apply")
                             \/ job'[h].at = "idle"
         /\ lone' \subseteq {k \in Slots : job'[k].at # "idle"}
         /\ \A s \in Servers : servers'[s] = Loaded(s, skipped')
         /\ skipped' \subseteq {s \in Servers : json[s] \in Defs}
         /\ servers' \in [Servers -> Defs \cup {NoServer}]
         /\ asked' \in [Servers -> Backups]
         /\ damaged' = damaged \cup {job[h].server : h \in {k \in Slots : At(k, "filljson")}}
         /\ UNCHANGED <<dir, json, file, sidecar, issued, begun, kept, gone>>
<1>1. /\ job \in [Slots -> Job] /\ def \in [Slots -> Defs] /\ text \in [Slots -> Texts]
      /\ Idle \in Job /\ Idle.at = "idle" /\ NewDef \in Defs /\ <<>> \in Texts
  BY JobType, IdleJob, TextFacts DEF TypeInv
<1>2. /\ job' \in [Slots -> Job] /\ def' \in [Slots -> Defs] /\ text' \in [Slots -> Texts]
      /\ \A h \in Slots : \/ job'[h] = job[h] /\ At(h, "apply")
                          \/ job'[h].at = "idle"
  BY <1>1 DEF Crash
<1>3. lone' \subseteq {k \in Slots : job'[k].at # "idle"}
  BY <1>1 DEF Crash, At, TypeInv, TypeOK
<1>4. /\ \A s \in Servers : servers'[s] = Loaded(s, skipped')
      /\ skipped' \subseteq {s \in Servers : json[s] \in Defs}
      /\ servers' \in [Servers -> Defs \cup {NoServer}]
  BY DEF Crash, Loaded, LoadErrors
<1>5. asked' \in [Servers -> Backups]
  BY TypeParts DEF Crash, TypeInv, GhostsTyped, Backups
<1>. QED
  BY <1>2, <1>3, <1>4, <1>5 DEF Crash, disk, taken

LEMMA TypeBegin ==
  ASSUME TypeInv, NEW h \in Slots, Request(h)
  PROVE  TypeInv'
<1>1. PICK s \in Servers :
        \/ BeginCreate(h, s) \/ BeginDelete(h, s) \/ BeginOpencl(h, s)
        \/ BeginBackup(h, s) \/ BeginConfig(h, s) \/ BeginCompose(h, s)
  BY DEF Request
<1>2. /\ job' \in [Slots -> Job] /\ Elsewhere(h) /\ ~Busy(h)
      /\ job'[h].server = s
      /\ job'[h].at \in {"mkdir", "rm", "openjson", "read", "openfile", "load"}
      /\ def' \in [Slots -> Defs] /\ text' \in [Slots -> Texts]
      /\ lone' \subseteq lone \cup {h}
      /\ asked' = [asked EXCEPT ![s] = Unset] /\ begun' \in Nat
      /\ UNCHANGED <<disk, sidecar, damaged, skipped, gone>>
  BY <1>1, BeginShape
<1>3. \/ issued' = issued \cup {s} /\ UNCHANGED <<servers, kept>>
      \/ /\ issued' = issued /\ Listed(s) /\ kept' \subseteq kept
         /\ servers' = servers \/ servers' = [servers EXCEPT ![s] = NoServer]
  BY <1>1, BeginShape
<1>4. FilesTyped /\ GhostsTyped /\ issued \subseteq Servers
  BY TypeParts DEF TypeInv, TypedSlots
<1>5. s \in issued' /\ issued' \subseteq Servers /\ issued \subseteq issued'
      /\ \A t \in Servers \ issued' : t # s /\ t \notin issued /\ servers'[t] = servers[t]
  BY <1>3, <1>4 DEF TypeInv, IdsKnown, FilesTyped
<1>6. FilesTyped' /\ GhostsTyped'
  BY <1>2, <1>3, <1>4, <1>5 DEF FilesTyped, GhostsTyped, disk, Backups
<1>7. lone' \subseteq {k \in Slots : job'[k].at # "idle"}
  BY <1>2, LoneStep
<1>8. TypeOK'
  BY <1>2, <1>5, <1>6, <1>7, TypeParts DEF TypedSlots
<1>9. IdsKnown'
  BY <1>2, <1>5 DEF TypeInv, IdsKnown, Listed, Busy, Elsewhere, disk
<1>10. FilesOpened'
  BY <1>2 DEF TypeInv, FilesOpened, At, Elsewhere, disk
<1>. QED
  BY <1>8, <1>9, <1>10 DEF TypeInv

LEMMA TypeServe ==
  ASSUME TypeInv, NEW h \in Slots, Serve(h)
  PROVE  TypeInv'
<1>. DEFINE s == job[h].server
<1>1. /\ job' \in [Slots -> Job] /\ Elsewhere(h) /\ Busy(h) /\ UNCHANGED taken
      /\ \/ job'[h].at = "idle"
         \/ job'[h].server = s /\ job'[h].op = job[h].op
      /\ def' \in [Slots -> Defs] /\ text' \in [Slots -> Texts]
      /\ lone' \subseteq lone /\ (job'[h].at = "idle" => h \notin lone')
  BY ServeShape
<1>2. FilesTyped' /\ GhostsTyped'
  BY FilesStep, GhostsStep
<1>3. lone' \subseteq {k \in Slots : job'[k].at # "idle"}
  BY <1>1, LoneStep
<1>4. TypeOK'
  BY <1>1, <1>2, <1>3, TypeParts DEF TypeInv, TypedSlots, taken
<1>5. s \in Servers /\ s \in issued
  BY <1>1, JobType DEF TypeInv, IdsKnown
<1>6. IdsKnown'
  <2>. SUFFICES ASSUME NEW t \in Servers, t \notin issued
                PROVE  ~Listed(t)' /\ dir'[t] = "none"
                       /\ \A k \in Slots : Busy(k)' => job'[k].server # t
    BY <1>1 DEF IdsKnown, taken
  <2>1. servers'[t] = servers[t] /\ dir'[t] = dir[t] /\ t # s
    BY <1>5, ServeFrame
  <2>2. ~Listed(t) /\ dir[t] = "none" /\ \A k \in Slots : Busy(k) => job[k].server # t
    BY DEF TypeInv, IdsKnown
  <2>. QED
    BY <1>1, <2>1, <2>2 DEF Listed, Busy, Elsewhere
<1>7. FilesOpened'
  <2>. SUFFICES ASSUME NEW k \in Slots
                PROVE  /\ job'[k].at = "filljson" => json'[job'[k].server] # Absent
                       /\ job'[k].at = "fillfile" => file'[job'[k].server] # Absent
    BY DEF FilesOpened, At
  <2>1. CASE k = h
    <3>1. job'[h].at = "filljson" => OpenJson(h)
      BY FileCauses
    <3>2. job'[h].at = "fillfile" => OpenFile(h)
      BY FileCauses
    <3>3. OpenJson(h) => json'[s] # Absent
      BY <1>5, TypeParts, Values DEF OpenJson, TypeInv, FilesTyped
    <3>4. OpenFile(h) => file'[s] # Absent
      BY <1>5, TypeParts, Values, TextFacts DEF OpenFile, TypeInv, FilesTyped
    <3>. QED
      BY <1>1, <2>1, <3>1, <3>2, <3>3, <3>4
  <2>2. CASE k # h
    <3>. DEFINE t == job[k].server
    <3>1. job'[k] = job[k] /\ t \in Servers
      BY <1>1, <2>2, JobType DEF Elsewhere, TypeInv
    <3>2. /\ job[k].at = "filljson" => json[t] # Absent
          /\ job[k].at = "fillfile" => file[t] # Absent
      BY DEF TypeInv, FilesOpened, At
    <3>3. CASE t # s
      BY <3>1, <3>2, <3>3, ServeFrame
    <3>4. CASE t = s
      <4>1. job[k].at # "idle" => k \in Others(h, s)
        BY <2>2, <3>4 DEF Others, Busy
      <4>2. RemoveJson(h) => job[k].at # "filljson"
        BY <4>1 DEF RemoveJson, At
      <4>3. RemoveFile(h) => job[k].at # "fillfile"
        BY <4>1 DEF RemoveFile, At
      <4>4. /\ json'[s] = Absent /\ json[s] # Absent => RemoveJson(h)
            /\ file'[s] = Absent /\ file[s] # Absent => RemoveFile(h)
        BY FileCauses
      <4>. QED
        BY <3>1, <3>2, <3>4, <4>2, <4>3, <4>4
    <3>. QED
      BY <3>3, <3>4
  <2>. QED
    BY <2>1, <2>2
<1>. QED
  BY <1>4, <1>6, <1>7 DEF TypeInv

LEMMA TypeStep ==
  ASSUME TypeInv, [Next]_vars
  PROVE  TypeInv'
<1>0. FilesTyped /\ GhostsTyped /\ issued \subseteq Servers /\ begun \in Nat
  BY TypeParts DEF TypeInv, TypedSlots
<1>1. ASSUME NEW h \in Slots, Request(h) \/ Serve(h)
      PROVE  TypeInv'
  BY <1>1, TypeBegin, TypeServe
<1>2. ASSUME NEW h \in Slots, Fail(h)
      PROVE  TypeInv'
  <2>. DEFINE s == job[h].server
  <2>1. /\ job' \in [Slots -> Job] /\ Elsewhere(h) /\ Busy(h) /\ job'[h].at = "idle"
        /\ def' \in [Slots -> Defs] /\ text' \in [Slots -> Texts] /\ lone' = lone \ {h}
        /\ UNCHANGED <<servers, dir, json, file, sidecar, issued, begun, kept, skipped, gone>>
        /\ damaged' \subseteq damaged \cup {s}
        /\ asked' = [asked EXCEPT ![s] = Unset]
    BY <1>2, FailShape
  <2>2. s \in issued
    BY <2>1, JobType DEF TypeInv, IdsKnown
  <2>3. FilesTyped' /\ GhostsTyped'
    BY <1>0, <2>1, <2>2 DEF FilesTyped, GhostsTyped, Backups
  <2>4. lone' \subseteq {k \in Slots : job'[k].at # "idle"}
    BY <2>1, LoneStep
  <2>5. TypeOK'
    BY <1>0, <2>1, <2>3, <2>4, TypeParts DEF TypedSlots
  <2>6. IdsKnown' /\ FilesOpened'
    BY <2>1 DEF TypeInv, IdsKnown, FilesOpened, Listed, Busy, At, Elsewhere
  <2>. QED
    BY <2>5, <2>6 DEF TypeInv
<1>3. CASE Crash
  <2>1. /\ job' \in [Slots -> Job] /\ def' \in [Slots -> Defs] /\ text' \in [Slots -> Texts]
        /\ \A h \in Slots : \/ job'[h] = job[h] /\ At(h, "apply")
                            \/ job'[h].at = "idle"
        /\ lone' \subseteq {k \in Slots : job'[k].at # "idle"}
        /\ \A s \in Servers : servers'[s] = Loaded(s, skipped')
        /\ skipped' \subseteq {s \in Servers : json[s] \in Defs}
        /\ servers' \in [Servers -> Defs \cup {NoServer}]
        /\ asked' \in [Servers -> Backups]
        /\ damaged' = damaged \cup {job[h].server : h \in {k \in Slots : At(k, "filljson")}}
        /\ UNCHANGED <<dir, json, file, sidecar, issued, begun, kept, gone>>
    BY <1>3, CrashShape
  <2>2. \A h \in Slots : At(h, "filljson") => job[h].server \in issued
    BY JobType DEF TypeInv, IdsKnown, At, Busy
  <2>3. FilesTyped'
    BY <1>0, <2>1 DEF FilesTyped
  <2>4. GhostsTyped'
    <3>1. skipped' \subseteq issued
      BY <1>0, <2>1, Values DEF TypeInv, IdsKnown, FilesTyped
    <3>. QED
      BY <1>0, <2>1, <2>2, <3>1 DEF GhostsTyped
  <2>5. TypeOK'
    BY <1>0, <2>1, <2>3, <2>4, TypeParts DEF TypedSlots
  <2>6. IdsKnown'
    BY <1>0, <2>1, Values DEF TypeInv, IdsKnown, FilesTyped, Listed, Loaded, Busy, At
  <2>7. FilesOpened'
    BY <2>1 DEF FilesOpened, At
  <2>. QED
    BY <2>5, <2>6, <2>7 DEF TypeInv
<1>4. CASE UNCHANGED vars
  <2>1. UNCHANGED <<servers, dir, json, file, sidecar, job, def, text, issued, begun,
                    kept, damaged, skipped, gone, lone, asked>>
    BY <1>4 DEF vars
  <2>2. FilesTyped' /\ GhostsTyped' /\ lone' \subseteq {k \in Slots : job'[k].at # "idle"}
    BY <1>0, <2>1, TypeParts DEF FilesTyped, GhostsTyped, TypedSlots, TypeInv
  <2>3. TypeOK'
    BY <1>0, <2>1, <2>2, JobType, TypeParts DEF TypeInv, TypedSlots
  <2>4. IdsKnown' /\ FilesOpened'
    BY <2>1 DEF TypeInv, IdsKnown, FilesOpened, Listed, Busy, At
  <2>. QED
    BY <2>3, <2>4 DEF TypeInv
<1>. QED
  BY <1>1, <1>2, <1>3, <1>4 DEF Next

\* Type correctness for every instance.
THEOREM TypeCorrect == Spec => []TypeOK
<1>1. TypeInv => TypeOK
  BY DEF TypeInv
<1>2. TypeInv /\ [Next]_vars => TypeInv'
  BY TypeStep
<1>. QED
  BY <1>1, <1>2, TypeInit, PTL DEF Spec

-----------------------------------------------------------------------------
(* A deleted server stays deleted *)

\* Only a create inserts.  Until it has, its server is its own: no other request
\* can find the server in the map.
CreatesAlone ==
  \A h \in Slots :
    /\ At(h, "insert") => job[h].op = "create"
    /\ job[h].op = "create" /\ ~(job[h].at \in {"idle", "load", "apply"}) =>
         LET s == job[h].server IN
         ~Listed(s) /\ s \notin kept /\ Others(h, s) = {}

\* A server that is being removed is in the map no more.
RemovalsUnlisted ==
  \A h \in Slots : At(h, "rm") => ~Listed(job[h].server) /\ job[h].server \notin kept

\* Nothing that is under way for a server that is gone can make its directory or
\* bring it into the map.
GoneIsGone ==
  \A s \in gone : /\ ~Listed(s) /\ dir[s] = "none" /\ s \in issued
                  /\ \A h \in Slots : job[h].server = s => ~At(h, "mkdir") /\ ~At(h, "insert")

MapInv == TypeInv /\ CreatesAlone /\ RemovalsUnlisted

LEMMA MapInit == Init => MapInv /\ GoneIsGone
<1>. SUFFICES ASSUME Init PROVE MapInv /\ GoneIsGone
  OBVIOUS
<1>1. \A h \in Slots : job[h].at = "idle"
  BY IdleJob DEF Init
<1>. QED
  BY <1>1, TypeInit DEF Init, MapInv, CreatesAlone, RemovalsUnlisted, GoneIsGone, At

\* What a step of a request does to the map and where the request goes.
LEMMA MapMoves ==
  ASSUME TypeInv, NEW h \in Slots, Serve(h)
  PROVE  /\ \/ servers' = servers /\ kept' = kept
            \/ /\ Insert(h) /\ At(h, "insert") /\ job'[h].at \in {"load", "idle"}
               /\ servers' = [servers EXCEPT ![job[h].server] = def[h]]
               /\ kept' = kept \cup {job[h].server}
         /\ job[h].at \in {"load", "apply"} => job'[h].at \in {"apply", "idle"}
         /\ job'[h].at = "rm" => job[h].at = "rm"
         /\ job'[h].at # "mkdir"
         /\ job'[h].at = "insert" => job[h].op = "create" /\ FillFile(h)
         /\ job'[h].at = "openfile" /\ job[h].op = "create" => FillJson(h)
<1>0. job \in [Slots -> Job] /\ job[h] \in Job
  BY JobType DEF TypeInv
<1>1. ASSUME NEW label, Goto(h, label) PROVE job'[h].at = label
  BY <1>0, <1>1 DEF Goto, Job
<1>2. ASSUME Leave(h) PROVE job'[h].at = "idle"
  BY <1>0, <1>2, JobType, LeaveShape DEF TypeInv
<1>3. \/ servers' = servers /\ kept' = kept
      \/ /\ Insert(h) /\ At(h, "insert")
         /\ servers' = [servers EXCEPT ![job[h].server] = def[h]]
         /\ kept' = kept \cup {job[h].server}
  BY DEF Serve, MakeDir, OpenJson, FillJson, OpenFile, FillFile, ReadToRegenerate, ReadToAppend,
     NotFound, Insert, Reply, Load, Apply, RemoveJson, RemoveFile, RemoveBackups, RemoveDir,
     ghosts
<1>4. Insert(h) => job'[h].at \in {"load", "idle"}
  BY <1>1, <1>2 DEF Insert
<1>5. CASE MakeDir(h) \/ OpenJson(h) \/ FillJson(h) \/ OpenFile(h) \/ FillFile(h)
  <2>1. job[h].at \in {"mkdir", "openjson", "filljson", "openfile", "fillfile"}
    BY <1>5 DEF MakeDir, OpenJson, FillJson, OpenFile, FillFile, At
  <2>2. job'[h].at \in {"openjson", "read", "filljson", "openfile", "reply", "fillfile", "insert"}
    BY <1>5, FileSteps
  <2>3. job'[h].at = "insert" => FillFile(h)
    BY <1>5, FileSteps
  <2>4. job'[h].at = "openfile" => FillJson(h)
    BY <1>5, FileSteps
  <2>5. FillFile(h) /\ job'[h].at = "insert" => job[h].op = "create"
    <3>1. FillFile(h) => job'[h].at = After(job[h].op, "fillfile")
      BY <1>1 DEF FillFile, GoOn, At
    <3>. QED
      BY <3>1, AfterFacts
  <2>. QED
    BY <1>3, <1>4, <2>1, <2>2, <2>3, <2>4, <2>5
<1>6. CASE ReadToRegenerate(h) \/ ReadToAppend(h)
  <2>1. job[h].at = "read" /\ job[h].op # "create" /\ job'[h].at \in {"openfile", "reply"}
    BY <1>1, <1>6 DEF ReadToRegenerate, ReadToAppend, At
  <2>. QED
    BY <1>3, <1>4, <2>1
<1>7. CASE NotFound(h) \/ Apply(h) \/ RemoveDir(h)
  <2>1. job'[h].at = "idle"
    BY <1>2, <1>7 DEF NotFound, Apply, RemoveDir
  <2>. QED
    BY <1>3, <1>4, <2>1
<1>8. CASE Insert(h) \/ Reply(h)
  <2>1. job[h].at \in {"insert", "reply"} /\ job'[h].at \in {"idle", "load"}
    BY <1>1, <1>2, <1>8 DEF Insert, Reply, At
  <2>. QED
    BY <1>3, <1>4, <2>1
<1>9. CASE Load(h)
  <2>1. job'[h].at = "apply"
    BY <1>1, <1>9 DEF Load
  <2>. QED
    BY <1>3, <1>4, <2>1
<1>10. CASE RemoveJson(h) \/ RemoveFile(h) \/ RemoveBackups(h)
  <2>1. job'[h].at = "rm" /\ job[h].at = "rm"
    BY <1>10 DEF RemoveJson, RemoveFile, RemoveBackups, work, At
  <2>. QED
    BY <1>3, <1>4, <2>1
<1>. QED
  BY <1>5, <1>6, <1>7, <1>8, <1>9, <1>10 DEF Serve

LEMMA MapBegin ==
  ASSUME MapInv, GoneIsGone, NEW h \in Slots, Request(h)
  PROVE  CreatesAlone' /\ RemovalsUnlisted' /\ GoneIsGone'
<1>1. PICK s \in Servers :
        \/ BeginCreate(h, s) \/ BeginDelete(h, s) \/ BeginOpencl(h, s)
        \/ BeginBackup(h, s) \/ BeginConfig(h, s) \/ BeginCompose(h, s)
  BY DEF Request
<1>2. /\ Elsewhere(h) /\ ~Busy(h) /\ job'[h].server = s
      /\ job'[h].at \in {"mkdir", "rm", "openjson", "read", "openfile", "load"}
      /\ UNCHANGED <<disk, sidecar, damaged, skipped, gone>>
  BY <1>1, BeginShape DEF MapInv
<1>3. \/ /\ issued' = issued \cup {s} /\ s \notin issued /\ UNCHANGED <<servers, kept>>
         /\ job'[h].op = "create" /\ job'[h].at = "mkdir"
      \/ /\ issued' = issued /\ Listed(s) /\ kept' = kept \ {s}
         /\ servers' = [servers EXCEPT ![s] = NoServer]
         /\ job'[h].op = "delete" /\ job'[h].at = "rm"
      \/ /\ issued' = issued /\ Listed(s) /\ UNCHANGED <<servers, kept>>
         /\ job'[h].op \in {"opencl", "backup", "config", "start", "stop", "restart"}
         /\ job'[h].at # "rm"
  BY <1>1, BeginShape DEF MapInv
<1>4. /\ servers \in [Servers -> Defs \cup {NoServer}] /\ kept \subseteq issued
      /\ \A k \in Slots : job[k].server \in Servers
      /\ \A k \in Slots : Busy(k) => job[k].server \in issued
      /\ s \notin issued => ~Listed(s)
  BY TypeParts, JobType DEF MapInv, TypeInv, FilesTyped, GhostsTyped, IdsKnown
<1>5. \A t \in Servers : /\ ~Listed(t) => servers'[t] = NoServer
                         /\ t \notin kept => t \notin kept'
  BY <1>3, <1>4 DEF Listed
<1>6. CreatesAlone'
  <2>. SUFFICES ASSUME NEW k \in Slots
                PROVE  /\ job'[k].at = "insert" => job'[k].op = "create"
                       /\ job'[k].op = "create" /\ ~(job'[k].at \in {"idle", "load", "apply"}) =>
                            /\ servers'[job'[k].server] = NoServer /\ job'[k].server \notin kept'
                            /\ \A j \in Slots \ {k} : job'[j].at # "idle" => job'[j].server # job'[k].server
    BY DEF CreatesAlone, At, Others, Busy, Listed
  <2>1. CASE k = h
    <3>1. CASE s \notin issued
      <4>1. \A j \in Slots \ {h} : job'[j].at # "idle" => job'[j].server # s
        BY <1>2, <1>4, <3>1 DEF Elsewhere, Busy
      <4>. QED
        BY <1>2, <1>4, <1>5, <2>1, <3>1, <4>1
    <3>2. CASE s \in issued
      BY <1>2, <1>3, <2>1, <3>2
    <3>. QED
      BY <3>1, <3>2
  <2>2. CASE k # h
    <3>. DEFINE t == job[k].server
    <3>1. job'[k] = job[k]
      BY <1>2, <2>2 DEF Elsewhere
    <3>2. job[k].at = "insert" => job[k].op = "create"
      BY DEF MapInv, CreatesAlone, At
    <3>3. ASSUME job[k].op = "create", ~(job[k].at \in {"idle", "load", "apply"})
          PROVE  /\ servers'[t] = NoServer /\ t \notin kept'
                 /\ \A j \in Slots \ {k} : job'[j].at # "idle" => job'[j].server # t
      <4>1. ~Listed(t) /\ t \notin kept /\ Others(k, t) = {}
        BY <3>3 DEF MapInv, CreatesAlone
      <4>2. t \in issued /\ t \in Servers
        BY <1>4, <3>3 DEF Busy
      <4>3. t # s
        BY <1>3, <4>1, <4>2
      <4>4. \A j \in Slots \ {k} : job'[j].at # "idle" => job'[j].server # t
        BY <1>2, <4>1, <4>3 DEF Elsewhere, Others, Busy
      <4>. QED
        BY <1>5, <4>1, <4>2, <4>4
    <3>. QED
      BY <3>1, <3>2, <3>3
  <2>. QED
    BY <2>1, <2>2
<1>7. RemovalsUnlisted'
  <2>. SUFFICES ASSUME NEW k \in Slots, job'[k].at = "rm"
                PROVE  servers'[job'[k].server] = NoServer /\ job'[k].server \notin kept'
    BY DEF RemovalsUnlisted, At, Listed
  <2>1. CASE k = h
    BY <1>2, <1>3, <1>4, <2>1 DEF Listed
  <2>2. CASE k # h
    BY <1>2, <1>4, <1>5, <2>2 DEF MapInv, RemovalsUnlisted, At, Elsewhere, Listed
  <2>. QED
    BY <2>1, <2>2
<1>8. GoneIsGone'
  <2>1. s \notin gone
    BY <1>3 DEF GoneIsGone
  <2>2. \A t \in gone : t \in Servers /\ t # s
    BY <2>1, TypeParts DEF MapInv, TypeInv, GhostsTyped, TypedSlots
  <2>3. issued \subseteq issued'
    BY <1>3
  <2>. QED
    BY <1>2, <1>5, <2>2, <2>3 DEF GoneIsGone, disk, At, Elsewhere, Listed
<1>. QED
  BY <1>6, <1>7, <1>8

LEMMA MapServe ==
  ASSUME MapInv, GoneIsGone, NEW h \in Slots, Serve(h)
  PROVE  CreatesAlone' /\ RemovalsUnlisted' /\ GoneIsGone'
<1>. DEFINE s == job[h].server
<1>1. /\ Elsewhere(h) /\ Busy(h) /\ issued' = issued
      /\ \/ job'[h].at = "idle"
         \/ job'[h].server = s /\ job'[h].op = job[h].op
  BY ServeShape DEF MapInv, taken
<1>2. /\ \/ servers' = servers /\ kept' = kept
         \/ /\ Insert(h) /\ At(h, "insert") /\ job'[h].at \in {"load", "idle"}
            /\ servers' = [servers EXCEPT ![s] = def[h]] /\ kept' = kept \cup {s}
      /\ job[h].at \in {"load", "apply"} => job'[h].at \in {"apply", "idle"}
      /\ job'[h].at = "rm" => job[h].at = "rm"
      /\ job'[h].at = "insert" => job[h].op = "create"
  BY MapMoves DEF MapInv
<1>3. /\ s \in Servers /\ s \in issued
      /\ \A k \in Slots : job[k].server \in Servers
  BY <1>1, JobType DEF MapInv, TypeInv, IdsKnown
<1>4. \A t \in Servers \ {s} : /\ servers'[t] = servers[t] /\ dir'[t] = dir[t]
                               /\ (t \in kept' <=> t \in kept) /\ (t \in gone' <=> t \in gone)
  BY ServeFrame DEF MapInv
<1>5. \A k \in Slots : job'[k].at # "idle" =>
        /\ job[k].at # "idle" /\ job'[k].server = job[k].server /\ job'[k].op = job[k].op
  BY <1>1 DEF Elsewhere, Busy
<1>6. ASSUME Insert(h) PROVE Others(h, s) = {}
  BY <1>6 DEF Insert, MapInv, CreatesAlone, At
<1>7. CreatesAlone'
  <2>. SUFFICES ASSUME NEW k \in Slots
                PROVE  /\ job'[k].at = "insert" => job'[k].op = "create"
                       /\ job'[k].op = "create" /\ ~(job'[k].at \in {"idle", "load", "apply"}) =>
                            /\ servers'[job'[k].server] = NoServer /\ job'[k].server \notin kept'
                            /\ \A j \in Slots \ {k} : job'[j].at # "idle" => job'[j].server # job'[k].server
    BY DEF CreatesAlone, At, Others, Busy, Listed
  <2>. DEFINE t == job[k].server
  <2>1. job'[k].at = "insert" => job'[k].op = "create"
    BY <1>1, <1>2 DEF MapInv, CreatesAlone, At, Elsewhere
  <2>2. ASSUME job'[k].op = "create", ~(job'[k].at \in {"idle", "load", "apply"})
        PROVE  /\ servers'[t] = NoServer /\ t \notin kept'
               /\ \A j \in Slots \ {k} : job'[j].at # "idle" => job'[j].server # t
    <3>1. /\ job[k].op = "create" /\ ~(job[k].at \in {"idle", "load", "apply"})
          /\ k = h => servers' = servers /\ kept' = kept
      BY <1>1, <1>2, <1>5, <2>2 DEF Elsewhere, Busy
    <3>2. ~Listed(t) /\ t \notin kept /\ Others(k, t) = {}
      BY <3>1 DEF MapInv, CreatesAlone
    <3>3. k = h \/ t # s
      BY <1>1, <3>2 DEF Others
    <3>4. servers'[t] = NoServer /\ t \notin kept'
      <4>1. CASE k = h
        BY <3>1, <3>2, <4>1 DEF Listed
      <4>2. CASE t # s
        BY <1>3, <1>4, <3>2, <4>2 DEF Listed
      <4>. QED
        BY <3>3, <4>1, <4>2
    <3>5. \A j \in Slots \ {k} : job'[j].at # "idle" => job'[j].server # t
      BY <1>5, <3>2 DEF Others, Busy
    <3>. QED
      BY <3>4, <3>5
  <2>. QED
    BY <1>5, <2>1, <2>2
<1>8. RemovalsUnlisted'
  <2>. SUFFICES ASSUME NEW k \in Slots, job'[k].at = "rm"
                PROVE  servers'[job'[k].server] = NoServer /\ job'[k].server \notin kept'
    BY DEF RemovalsUnlisted, At, Listed
  <2>. DEFINE t == job[k].server
  <2>1. job[k].at = "rm" /\ job'[k].server = t
    BY <1>1, <1>2, <1>5 DEF Elsewhere
  <2>2. ~Listed(t) /\ t \notin kept
    BY <2>1 DEF MapInv, RemovalsUnlisted, At
  <2>3. ~(Insert(h) /\ t = s)
    BY <1>6, <2>1 DEF Others, Busy, Insert, At
  <2>4. servers'[t] = NoServer /\ t \notin kept'
    <3>1. CASE t # s
      BY <1>3, <1>4, <2>2, <3>1 DEF Listed
    <3>2. CASE t = s
      BY <1>2, <2>2, <2>3, <3>2 DEF Listed
    <3>. QED
      BY <3>1, <3>2
  <2>. QED
    BY <2>1, <2>4
<1>9. GoneIsGone'
  <2>1. \A t \in gone : t \in Servers
    BY TypeParts DEF MapInv, TypeInv, GhostsTyped, TypedSlots
  <2>2. ASSUME NEW t \in gone', t # s
        PROVE  /\ servers'[t] = NoServer /\ dir'[t] = "none" /\ t \in issued'
               /\ \A k \in Slots : job'[k].server = t => ~(job'[k].at \in {"mkdir", "insert"})
    <3>1. t \in gone
      BY <2>2 DEF Serve, MakeDir, OpenJson, FillJson, OpenFile, FillFile, ReadToRegenerate,
         ReadToAppend, NotFound, Insert, Reply, Load, Apply, RemoveJson, RemoveFile,
         RemoveBackups, RemoveDir, ghosts
    <3>. QED
      BY <1>1, <1>4, <1>5, <2>1, <2>2, <3>1 DEF GoneIsGone, Listed, At, Elsewhere
  <2>3. ASSUME s \in gone
        PROVE  /\ servers'[s] = NoServer /\ dir'[s] = "none" /\ s \in issued'
               /\ \A k \in Slots : job'[k].server = s => ~(job'[k].at \in {"mkdir", "insert"})
    <3>1. ~Listed(s) /\ dir[s] = "none" /\ ~MakeDir(h) /\ ~Insert(h)
      BY <2>3 DEF GoneIsGone, MakeDir, Insert
    <3>2. job[h].at # "fillfile" /\ dir[s] # "backups"
      BY <1>3, <3>1, TypeParts DEF MapInv, TypeInv, FilesTyped, FilesOpened, At
    <3>3. servers' = servers /\ dir'[s] = "none"
      BY <1>2, <1>3, <3>1, <3>2, TypeParts DEF Serve, OpenJson, FillJson, OpenFile, FillFile,
         ReadToRegenerate, ReadToAppend, NotFound, Reply, Load, Apply, RemoveJson, RemoveFile,
         RemoveBackups, RemoveDir, disk, MapInv, TypeInv, FilesTyped
    <3>4. job'[h].at # "insert" /\ job'[h].at # "mkdir"
      BY <3>2, MapMoves DEF MapInv, FillFile, At
    <3>. QED
      BY <1>1, <1>3, <2>3, <3>1, <3>3, <3>4 DEF GoneIsGone, Listed, At, Elsewhere
  <2>4. ASSUME s \in gone', s \notin gone
        PROVE  /\ servers'[s] = NoServer /\ dir'[s] = "none" /\ s \in issued'
               /\ \A k \in Slots : job'[k].server = s => ~(job'[k].at \in {"mkdir", "insert"})
    <3>1. RemoveDir(h) /\ \A k \in Others(h, s) : ~At(k, "mkdir")
      BY <2>4 DEF Serve, MakeDir, OpenJson, FillJson, OpenFile, FillFile,
         ReadToRegenerate, ReadToAppend, NotFound, Insert, Reply, Load, Apply, RemoveJson,
         RemoveFile, RemoveBackups, RemoveDir, ghosts
    <3>2. ~Listed(s) /\ servers' = servers
      BY <3>1 DEF RemoveDir, MapInv, RemovalsUnlisted, At
    <3>3. dir'[s] = "none"
      BY <1>3, <3>1, TypeParts DEF RemoveDir, MapInv, TypeInv, FilesTyped
    <3>4. job'[h].at = "idle"
      BY <3>1, JobType, LeaveShape DEF RemoveDir, MapInv, TypeInv
    <3>5. ASSUME NEW k \in Slots \ {h}, job'[k].server = s
          PROVE  ~(job'[k].at \in {"mkdir", "insert"})
      <4>1. job'[k] = job[k]
        BY <1>1 DEF Elsewhere
      <4>2. At(k, "mkdir") => k \in Others(h, s)
        BY <3>5, <4>1 DEF Others, Busy, At
      <4>3. At(k, "insert") => job[k].op = "create" /\ h \in Others(k, s)
        BY <1>1, <3>5, <4>1 DEF Others, MapInv, CreatesAlone
      <4>4. At(k, "insert") /\ job[k].op = "create" => Others(k, s) = {}
        BY <3>5, <4>1 DEF At, MapInv, CreatesAlone
      <4>. QED
        BY <3>1, <4>1, <4>2, <4>3, <4>4 DEF At
    <3>. QED
      BY <1>1, <1>3, <3>2, <3>3, <3>4, <3>5 DEF Listed
  <2>. QED
    BY <2>2, <2>3, <2>4 DEF GoneIsGone, At, Listed
<1>. QED
  BY <1>7, <1>8, <1>9

LEMMA MapStep ==
  ASSUME MapInv, GoneIsGone, [Next]_vars
  PROVE  MapInv' /\ GoneIsGone'
<1>1. TypeInv'
  BY TypeStep DEF MapInv
<1>2. ASSUME NEW h \in Slots, Request(h) \/ Serve(h)
      PROVE  CreatesAlone' /\ RemovalsUnlisted' /\ GoneIsGone'
  BY <1>2, MapBegin, MapServe
<1>3. ASSUME NEW h \in Slots, Fail(h)
      PROVE  CreatesAlone' /\ RemovalsUnlisted' /\ GoneIsGone'
  <2>1. /\ Elsewhere(h) /\ job'[h].at = "idle"
        /\ UNCHANGED <<servers, dir, issued, kept, gone>>
    BY <1>3, FailShape DEF MapInv
  <2>. QED
    BY <2>1 DEF MapInv, CreatesAlone, RemovalsUnlisted, GoneIsGone, Listed, Busy, At, Others,
       Elsewhere
<1>4. CASE Crash
  <2>1. /\ \A h \in Slots : \/ job'[h] = job[h] /\ At(h, "apply")
                            \/ job'[h].at = "idle"
        /\ \A s \in Servers : servers'[s] = Loaded(s, skipped')
        /\ UNCHANGED <<dir, json, issued, kept, gone>>
    BY <1>4, CrashShape DEF MapInv
  <2>2. FilesTyped /\ gone \subseteq Servers
    BY TypeParts DEF MapInv, TypeInv, GhostsTyped, TypedSlots
  <2>3. CreatesAlone' /\ RemovalsUnlisted'
    BY <2>1 DEF CreatesAlone, RemovalsUnlisted, At
  <2>4. GoneIsGone'
    BY <2>1, <2>2, Values DEF GoneIsGone, FilesTyped, Listed, Loaded, Busy, At
  <2>. QED
    BY <1>1, <2>3, <2>4 DEF MapInv
<1>5. CASE UNCHANGED vars
  BY <1>1, <1>5 DEF vars, MapInv, CreatesAlone, RemovalsUnlisted, GoneIsGone, Listed, Busy, At, Others
<1>. QED
  BY <1>1, <1>2, <1>3, <1>4, <1>5 DEF Next, MapInv

\* No request that was answered before, no crash and no restart brings a deleted
\* server back, for any number of servers and of requests at a time.
THEOREM DeletedIsGone == Spec => []DeletedStaysGone
<1>1. GoneIsGone => DeletedStaysGone
  BY DEF GoneIsGone, DeletedStaysGone
<1>2. MapInv /\ GoneIsGone /\ [Next]_vars => MapInv' /\ GoneIsGone'
  BY MapStep
<1>. QED
  BY <1>1, <1>2, MapInit, PTL DEF Spec

-----------------------------------------------------------------------------
(* A created server is kept *)

\* Whoever is about to fill a server.json that was never written by two at a time
\* or cut short has it alone, and finds it empty.
FillsAlone ==
  \A h \in Slots :
    LET s == job[h].server IN
    At(h, "filljson") /\ s \notin damaged =>
      json[s] = Empty /\ \A k \in Others(h, s) : ~At(k, "filljson")

\* A create has written server.json before it goes on to the compose file, and
\* that before it inserts.
CreatesWrite ==
  \A h \in Slots :
    LET s == job[h].server IN
    job[h].op = "create" =>
      /\ job[h].at \in {"openfile", "fillfile", "insert"} /\ s \notin damaged => json[s] \in Defs
      /\ At(h, "insert") => file[s] # Absent

\* Whoever is at work for a server that is kept, and was not left behind by a
\* panel that died, has found the server in the map.
Served ==
  \A h \in Slots :
    Busy(h) /\ ~At(h, "apply") /\ job[h].server \in kept => Listed(job[h].server)

KeptInv == MapInv /\ FillsAlone /\ CreatesWrite /\ Served /\ CreatedIsKept

LEMMA KeptBegin ==
  ASSUME KeptInv, NEW h \in Slots, Request(h)
  PROVE  FillsAlone' /\ CreatesWrite' /\ Served' /\ CreatedIsKept'
<1>1. PICK s \in Servers :
        \/ BeginCreate(h, s) \/ BeginDelete(h, s) \/ BeginOpencl(h, s)
        \/ BeginBackup(h, s) \/ BeginConfig(h, s) \/ BeginCompose(h, s)
  BY DEF Request
<1>2. /\ Elsewhere(h) /\ ~Busy(h) /\ job'[h].server = s
      /\ job'[h].at \in {"mkdir", "rm", "openjson", "read", "openfile", "load"}
      /\ job'[h].op = "create" => job'[h].at = "mkdir"
      /\ UNCHANGED <<dir, json, file, damaged, skipped>>
  BY <1>1, BeginShape DEF KeptInv, MapInv, disk
<1>3. \/ servers' = servers /\ kept' = kept /\ (Listed(s) \/ s \notin issued)
      \/ servers' = [servers EXCEPT ![s] = NoServer] /\ kept' = kept \ {s}
  BY <1>1, BeginShape DEF KeptInv, MapInv
<1>4. FillsAlone' /\ CreatesWrite'
  BY <1>2 DEF KeptInv, FillsAlone, CreatesWrite, At, Others, Busy, Elsewhere
<1>5. /\ kept \subseteq issued /\ kept \subseteq Servers
      /\ servers \in [Servers -> Defs \cup {NoServer}]
  BY TypeParts DEF KeptInv, MapInv, TypeInv, FilesTyped, GhostsTyped, TypedSlots
<1>6. ASSUME NEW t \in kept' PROVE t \in kept /\ servers'[t] = servers[t]
  BY <1>3, <1>5, <1>6
<1>7. Served'
  <2>. SUFFICES ASSUME NEW k \in Slots, job'[k].at # "idle", job'[k].at # "apply",
                       job'[k].server \in kept'
                PROVE  servers'[job'[k].server] # NoServer
    BY DEF Served, Busy, At, Listed
  <2>1. CASE k = h
    BY <1>2, <1>3, <1>5, <1>6, <2>1 DEF Listed
  <2>2. CASE k # h
    BY <1>2, <1>6, <2>2 DEF KeptInv, Served, Busy, At, Listed, Elsewhere
  <2>. QED
    BY <2>1, <2>2
<1>8. ASSUME NEW t \in kept'
      PROVE  /\ file[t] # Absent
             /\ t \notin damaged =>
                  /\ json[t] \in Defs \/ \E k \in Slots : job'[k].server = t /\ job'[k].at = "filljson"
                  /\ servers'[t] # NoServer \/ t \in skipped
  <2>1. /\ file[t] # Absent
        /\ t \notin damaged =>
             /\ json[t] \in Defs \/ \E k \in Slots : job[k].server = t /\ At(k, "filljson")
             /\ Listed(t) \/ t \in skipped
    BY <1>6, <1>8 DEF KeptInv, CreatedIsKept
  <2>. QED
    BY <1>2, <1>6, <1>8, <2>1 DEF Listed, At, Elsewhere, Busy
<1>9. CreatedIsKept'
  BY <1>2, <1>8 DEF CreatedIsKept, Listed, At
<1>. QED
  BY <1>4, <1>7, <1>9

\* What a step of a request does to the files of its server.
LEMMA KeptMoves ==
  ASSUME KeptInv, NEW h \in Slots, Serve(h), job[h].server \notin damaged'
  PROVE  /\ job[h].server \notin damaged \/ FillJson(h)
         /\ \/ json' = json /\ ~OpenJson(h) /\ ~FillJson(h)
            \/ /\ OpenJson(h) /\ json'[job[h].server] = Empty
               /\ \A k \in Others(h, job[h].server) : ~At(k, "filljson")
            \/ FillJson(h) /\ json'[job[h].server] \in Defs
            \/ RemoveJson(h) /\ ~OpenJson(h) /\ ~FillJson(h)
<1>. DEFINE s == job[h].server
<1>0. FilesTyped /\ s \in Servers /\ def[h] \in Defs
  BY TypeParts, JobType DEF KeptInv, MapInv, TypeInv
<1>1. s \notin damaged \/ FillJson(h)
  BY DEF Serve, MakeDir, OpenJson, OpenFile, FillFile, ReadToRegenerate, ReadToAppend,
     NotFound, Insert, Reply, Load, Apply, RemoveJson, RemoveFile, RemoveBackups, RemoveDir,
     ghosts
<1>2. OpenJson(h) => /\ json'[s] = Empty
                     /\ \A k \in Others(h, s) : ~At(k, "filljson")
  BY <1>0 DEF OpenJson, FilesTyped
<1>3. FillJson(h) => json'[s] \in Defs
  <2>1. FillJson(h) => json[s] = Empty
    BY DEF FillJson, KeptInv, FillsAlone
  <2>. QED
    BY <1>0, <2>1 DEF FillJson, FilesTyped
<1>4. OpenJson(h) \/ FillJson(h) \/ RemoveJson(h) \/ json' = json
  BY DEF Serve, MakeDir, OpenFile, FillFile, ReadToRegenerate, ReadToAppend, NotFound, Insert,
     Reply, Load, Apply, RemoveFile, RemoveBackups, RemoveDir, disk
<1>. QED
  BY <1>1, <1>2, <1>3, <1>4

LEMMA KeptServe ==
  ASSUME KeptInv, NEW h \in Slots, Serve(h)
  PROVE  FillsAlone' /\ CreatesWrite' /\ Served' /\ CreatedIsKept'
<1>. DEFINE s == job[h].server
<1>1. /\ Elsewhere(h) /\ Busy(h)
      /\ \/ job'[h].at = "idle"
         \/ job'[h].server = s /\ job'[h].op = job[h].op
  BY ServeShape DEF KeptInv, MapInv
<1>2. /\ job'[h].at = "filljson" => OpenJson(h)
      /\ job'[h].at = "fillfile" => OpenFile(h)
      /\ json'[s] = Absent /\ json[s] # Absent => RemoveJson(h)
      /\ file'[s] = Absent /\ file[s] # Absent => RemoveFile(h)
  BY FileCauses DEF KeptInv, MapInv
<1>3. /\ \/ servers' = servers /\ kept' = kept
         \/ /\ Insert(h) /\ At(h, "insert") /\ job'[h].at \in {"load", "idle"}
            /\ servers' = [servers EXCEPT ![s] = def[h]] /\ kept' = kept \cup {s}
      /\ job[h].at = "apply" => job'[h].at \in {"apply", "idle"}
      /\ job'[h].at = "insert" => job[h].op = "create" /\ FillFile(h)
      /\ job'[h].at = "openfile" /\ job[h].op = "create" => FillJson(h)
  BY MapMoves DEF KeptInv, MapInv
<1>4. \A t \in Servers \ {s} : /\ servers'[t] = servers[t] /\ json'[t] = json[t]
                               /\ file'[t] = file[t] /\ (t \in kept' <=> t \in kept)
                               /\ (t \in damaged' <=> t \in damaged)
  BY ServeFrame DEF KeptInv, MapInv
<1>5. /\ s \in Servers /\ FilesTyped /\ def[h] \in Defs /\ text[h] \in Texts
      /\ \A k \in Slots : job[k].server \in Servers
      /\ kept' \subseteq Servers
  <2>1. TypeInv'
    BY TypeServe DEF KeptInv, MapInv
  <2>. QED
    BY <2>1, TypeParts, JobType DEF KeptInv, MapInv, TypeInv, GhostsTyped, TypedSlots
<1>6. ASSUME s \notin damaged'
      PROVE  /\ s \notin damaged \/ FillJson(h)
             /\ \/ json' = json /\ ~OpenJson(h) /\ ~FillJson(h)
                \/ /\ OpenJson(h) /\ json'[s] = Empty
                   /\ \A k \in Others(h, s) : ~At(k, "filljson")
                \/ FillJson(h) /\ json'[s] \in Defs
                \/ RemoveJson(h) /\ ~OpenJson(h) /\ ~FillJson(h)
  BY <1>6, KeptMoves
<1>7. \A k \in Slots \ {h} : job'[k] = job[k] /\ (job[k].at # "idle" /\ job[k].server = s => k \in Others(h, s))
  BY <1>1 DEF Elsewhere, Others, Busy
<1>8. FillsAlone'
  <2>. SUFFICES ASSUME NEW k \in Slots, job'[k].at = "filljson",
                       job'[k].server \notin damaged'
                PROVE  /\ json'[job'[k].server] = Empty
                       /\ \A j \in Slots \ {k} :
                            job'[j].server = job'[k].server => job'[j].at # "filljson"
    BY DEF FillsAlone, Others, At
  <2>. DEFINE t == job[k].server
  <2>1. CASE k = h
    <3>1. OpenJson(h) /\ job'[k].server = s
      BY <1>1, <1>2, <2>1
    <3>2. json'[s] = Empty /\ \A j \in Others(h, s) : ~At(j, "filljson")
      BY <1>5, <2>1, <3>1, <1>6 DEF OpenJson, FilesTyped, FillJson, RemoveJson, At
    <3>. QED
      BY <1>7, <2>1, <3>1, <3>2 DEF At
  <2>2. CASE k # h
    <3>1. job'[k] = job[k] /\ At(k, "filljson")
      BY <1>7, <2>2 DEF At
    <3>2. CASE t # s
      <4>1. t \notin damaged /\ json'[t] = json[t]
        BY <1>4, <1>5, <3>1, <3>2
      <4>2. json[t] = Empty /\ \A j \in Others(k, t) : ~At(j, "filljson")
        BY <3>1, <4>1 DEF KeptInv, FillsAlone
      <4>3. ASSUME NEW j \in Slots \ {k}, job'[j].server = t
            PROVE  job'[j].at # "filljson"
        BY <1>1, <1>7, <3>2, <4>2, <4>3 DEF Others, At, Busy
      <4>. QED
        BY <3>1, <4>1, <4>2, <4>3
    <3>3. CASE t = s
      <4>0. k \in Others(h, s)
        BY <1>7, <2>2, <3>1, <3>3 DEF At
      <4>1. s \notin damaged /\ k \in Others(h, s)
        BY <1>6, <3>1, <3>3, <4>0 DEF FillJson
      <4>2. json[s] = Empty /\ \A j \in Others(k, s) : ~At(j, "filljson")
        BY <3>1, <3>3, <4>1 DEF KeptInv, FillsAlone
      <4>3. ~OpenJson(h)
        BY <1>5, <3>1, <3>3, <4>1 DEF OpenJson
      <4>4. ~FillJson(h)
        BY <1>1, <2>2, <4>2 DEF FillJson, Others, At
      <4>5. ~RemoveJson(h)
        BY <3>1, <4>1 DEF RemoveJson
      <4>6. json' = json
        BY <1>6, <3>1, <3>3, <4>3, <4>4, <4>5
      <4>7. ASSUME NEW j \in Slots \ {k}, job'[j].server = s
            PROVE  job'[j].at # "filljson"
        <5>1. CASE j = h
          BY <1>2, <4>3, <5>1
        <5>2. CASE j # h
          BY <1>7, <4>2, <4>7, <5>2 DEF Others, At, Busy
        <5>. QED
          BY <5>1, <5>2
      <4>. QED
        BY <3>1, <3>3, <4>2, <4>6, <4>7
    <3>. QED
      BY <3>2, <3>3
  <2>. QED
    BY <2>1, <2>2
<1>9. CreatesWrite'
  <2>. SUFFICES ASSUME NEW k \in Slots, job'[k].op = "create",
                       job'[k].at \in {"openfile", "fillfile", "insert"}
                PROVE  /\ job'[k].server \notin damaged' => json'[job'[k].server] \in Defs
                       /\ job'[k].at = "insert" => file'[job'[k].server] # Absent
    BY DEF CreatesWrite, At
  <2>. DEFINE t == job[k].server
  <2>1. CASE k = h
    <3>1. job[h].op = "create" /\ job'[h].server = s
      BY <1>1, <2>1
    <3>2. CASE job'[h].at = "openfile"
      <4>1. FillJson(h) /\ ~OpenJson(h)
        BY <1>3, <3>1, <3>2 DEF FillJson, OpenJson, At
      <4>. QED
        BY <1>6, <2>1, <3>1, <3>2, <4>1
    <3>3. CASE job'[h].at = "fillfile"
      <4>1. job[h].at = "openfile" /\ json' = json
        BY <1>2, <3>3 DEF OpenFile, At
      <4>2. ~FillJson(h)
        BY <4>1 DEF FillJson, At
      <4>. QED
        BY <1>6, <2>1, <3>1, <3>3, <4>1, <4>2 DEF KeptInv, CreatesWrite
    <3>4. CASE job'[h].at = "insert"
      <4>1. FillFile(h) /\ job[h].at = "fillfile" /\ json' = json
        BY <1>3, <3>4 DEF FillFile, At
      <4>2. file'[s] # Absent
        <5>1. PICK now \in {text[h], CutOff(text[h])} : file' = [file EXCEPT ![s] = now]
          BY <4>1 DEF FillFile, Overlaid
        <5>2. now \in Texts
          BY <1>5, TextFacts
        <5>. QED
          BY <1>5, <5>1, <5>2, Values DEF FilesTyped
      <4>3. ~FillJson(h)
        BY <4>1 DEF FillJson, At
      <4>. QED
        BY <1>6, <2>1, <3>1, <4>1, <4>2, <4>3 DEF KeptInv, CreatesWrite
    <3>. QED
      BY <2>1, <3>2, <3>3, <3>4
  <2>2. CASE k # h
    <3>1. job'[k] = job[k]
      BY <1>7, <2>2
    <3>2. Others(k, t) = {}
      BY <3>1 DEF KeptInv, MapInv, CreatesAlone
    <3>3. t # s
      BY <1>1, <2>2, <3>2 DEF Others
    <3>. QED
      BY <1>4, <1>5, <3>1, <3>3 DEF KeptInv, CreatesWrite, At
  <2>. QED
    BY <2>1, <2>2
<1>10. Served'
  <2>. SUFFICES ASSUME NEW k \in Slots, job'[k].at # "idle", job'[k].at # "apply",
                       job'[k].server \in kept'
                PROVE  servers'[job'[k].server] # NoServer
    BY DEF Served, Busy, At, Listed
  <2>. DEFINE t == job[k].server
  <2>1. /\ job'[k].server = t /\ job[k].at # "idle" /\ job[k].at # "apply" /\ t \in Servers
        /\ t \in kept => servers[t] # NoServer
    BY <1>1, <1>3, <1>5, <1>7 DEF KeptInv, Served, Busy, At, Listed
  <2>2. CASE servers' = servers /\ kept' = kept
    BY <2>1, <2>2
  <2>3. CASE servers' = [servers EXCEPT ![s] = def[h]] /\ kept' = kept \cup {s}
    BY <1>5, <2>1, <2>3, Values DEF FilesTyped
  <2>. QED
    BY <1>3, <2>2, <2>3
<1>11. skipped' = skipped
  BY DEF Serve, MakeDir, OpenJson, FillJson, OpenFile, FillFile, ReadToRegenerate, ReadToAppend,
     NotFound, Insert, Reply, Load, Apply, RemoveJson, RemoveFile, RemoveBackups, RemoveDir,
     ghosts
<1>12. CreatedIsKept'
  <2>. DEFINE Written(t) ==
         \/ json'[t] \in Defs
         \/ \E k \in Slots : job'[k].server = t /\ job'[k].at = "filljson"
  <2>. SUFFICES ASSUME NEW t \in kept'
                PROVE  /\ file'[t] # Absent
                       /\ t \notin damaged' =>
                            Written(t) /\ (servers'[t] # NoServer \/ t \in skipped)
    BY <1>11 DEF CreatedIsKept, Listed, At
  <2>0. t \in kept =>
          /\ file[t] # Absent
          /\ t \notin damaged =>
               /\ \/ json[t] \in Defs
                  \/ \E k \in Slots : job[k].server = t /\ job[k].at = "filljson"
               /\ servers[t] # NoServer \/ t \in skipped
    BY DEF KeptInv, CreatedIsKept, Listed, At
  <2>1. CASE t # s
    <3>1. /\ t \in kept /\ (t \in damaged <=> t \in damaged') /\ servers'[t] = servers[t]
          /\ json'[t] = json[t] /\ file'[t] = file[t]
      BY <1>4, <1>5, <2>1
    <3>2. \A k \in Slots : job[k].server = t => job'[k] = job[k]
      BY <1>7, <2>1
    <3>. QED
      BY <2>0, <3>1, <3>2
  <2>2. CASE t = s /\ s \notin kept
    <3>1. Insert(h) /\ At(h, "insert") /\ servers'[s] = def[h]
      BY <1>3, <1>5, <2>2 DEF FilesTyped
    <3>2. job[h].op = "create" /\ json' = json /\ file' = file /\ damaged' = damaged
      BY <3>1 DEF Insert, KeptInv, MapInv, CreatesAlone, disk
    <3>3. file[s] # Absent /\ (s \notin damaged => json[s] \in Defs)
      BY <3>1, <3>2 DEF KeptInv, CreatesWrite, At
    <3>. QED
      BY <1>5, <2>2, <3>1, <3>2, <3>3, Values
  <2>3. CASE t = s /\ s \in kept
    <3>1. ~RemoveJson(h) /\ ~RemoveFile(h)
      BY <2>3 DEF KeptInv, MapInv, RemovalsUnlisted, RemoveJson, RemoveFile
    <3>2. file'[s] # Absent
      BY <1>2, <2>0, <2>3, <3>1
    <3>3. servers[s] # NoServer => servers'[s] # NoServer
      BY <1>3, <1>5, Values DEF FilesTyped
    <3>4. FillJson(h) => servers[s] # NoServer
      BY <1>1, <2>3 DEF FillJson, KeptInv, Served, At, Listed
    <3>5. ASSUME s \notin damaged' PROVE Written(s)
      <4>1. CASE OpenJson(h)
        <5>1. job'[h].at = "filljson"
          BY <4>1, FileSteps DEF KeptInv, MapInv
        <5>. QED
          BY <1>1, <5>1
      <4>2. CASE FillJson(h)
        <5>1. ~OpenJson(h)
          BY <4>2 DEF OpenJson, FillJson, At
        <5>. QED
          BY <1>6, <3>5, <4>2, <5>1, <3>1
      <4>3. CASE json' = json /\ ~FillJson(h)
        <5>1. job[h].at # "filljson"
          BY <4>3, <3>1 DEF Serve, MakeDir, OpenJson, OpenFile, FillFile, ReadToRegenerate,
             ReadToAppend, NotFound, Insert, Reply, Load, Apply, RemoveBackups, RemoveDir, At
        <5>. QED
          BY <1>6, <1>7, <2>0, <2>3, <3>5, <4>3, <5>1
      <4>. QED
        BY <1>6, <3>1, <3>5, <4>1, <4>2, <4>3
    <3>6. ASSUME s \notin damaged' PROVE servers'[s] # NoServer \/ s \in skipped
      BY <1>6, <2>0, <2>3, <3>3, <3>4, <3>6
    <3>. QED
      BY <2>3, <3>2, <3>5, <3>6
  <2>. QED
    BY <2>1, <2>2, <2>3
<1>. QED
  BY <1>8, <1>9, <1>10, <1>12

LEMMA KeptStep ==
  ASSUME KeptInv, GoneIsGone, [Next]_vars
  PROVE  KeptInv'
<1>1. MapInv'
  BY MapStep DEF KeptInv
<1>2. ASSUME NEW h \in Slots, Request(h) \/ Serve(h)
      PROVE  FillsAlone' /\ CreatesWrite' /\ Served' /\ CreatedIsKept'
  BY <1>2, KeptBegin, KeptServe
<1>3. ASSUME NEW h \in Slots, Fail(h)
      PROVE  FillsAlone' /\ CreatesWrite' /\ Served' /\ CreatedIsKept'
  <2>1. /\ Elsewhere(h) /\ job'[h].at = "idle"
        /\ UNCHANGED <<servers, json, file, kept, skipped>>
        /\ damaged \subseteq damaged'
        /\ At(h, "filljson") => job[h].server \in damaged'
    BY <1>3, FailShape DEF KeptInv, MapInv
  <2>2. FillsAlone' /\ CreatesWrite'
    BY <2>1 DEF KeptInv, FillsAlone, CreatesWrite, At, Others, Busy, Elsewhere
  <2>3. Served'
    BY <2>1 DEF KeptInv, Served, Listed, Busy, At, Elsewhere
  <2>4. CreatedIsKept'
    BY <2>1 DEF KeptInv, CreatedIsKept, Listed, At, Elsewhere
  <2>. QED
    BY <2>2, <2>3, <2>4
<1>4. CASE Crash
  <2>1. /\ \A h \in Slots : \/ job'[h] = job[h] /\ At(h, "apply")
                            \/ job'[h].at = "idle"
        /\ \A s \in Servers : servers'[s] = Loaded(s, skipped')
        /\ damaged \subseteq damaged'
        /\ \A h \in Slots : At(h, "filljson") => job[h].server \in damaged'
        /\ UNCHANGED <<json, file, kept>>
    BY <1>4, CrashShape DEF KeptInv, MapInv
  <2>2. FillsAlone' /\ CreatesWrite' /\ Served'
    BY <2>1 DEF FillsAlone, CreatesWrite, Served, Busy, At
  <2>3. kept \subseteq Servers
    BY TypeParts DEF KeptInv, MapInv, TypeInv, GhostsTyped, TypedSlots
  <2>4. CreatedIsKept'
    BY <2>1, <2>3, Values DEF KeptInv, CreatedIsKept, Listed, Loaded, At
  <2>. QED
    BY <1>1, <2>2, <2>4 DEF KeptInv
<1>5. CASE UNCHANGED vars
  BY <1>1, <1>5 DEF vars, KeptInv, FillsAlone, CreatesWrite, Served, CreatedIsKept, Listed, At,
     Others, Busy
<1>. QED
  BY <1>1, <1>2, <1>3, <1>4, <1>5 DEF Next, KeptInv

\* A server whose create was answered keeps its compose file and a server.json
\* that would be loaded, and stays in the map, until someone asks to delete it:
\* however many requests fail, overlap or are cut off by a crash.  Only a write of
\* server.json that was cut short or overlapped breaks the second, until the next
\* one; only a restart whose load fails for this server breaks the third.
THEOREM CreatedStays == Spec => []CreatedIsKept
<1>1. Init => KeptInv /\ GoneIsGone
  <2>. SUFFICES ASSUME Init PROVE KeptInv /\ GoneIsGone
    OBVIOUS
  <2>1. \A h \in Slots : job[h].at = "idle"
    BY IdleJob DEF Init
  <2>. QED
    BY <2>1, MapInit DEF Init, KeptInv, FillsAlone, CreatesWrite, Served, CreatedIsKept, At,
       Busy
<1>2. KeptInv /\ GoneIsGone /\ [Next]_vars => KeptInv' /\ GoneIsGone'
  BY KeptStep, MapStep DEF KeptInv
<1>3. KeptInv => CreatedIsKept
  BY DEF KeptInv
<1>. QED
  BY <1>1, <1>2, <1>3, PTL DEF Spec

-----------------------------------------------------------------------------
(* The backup settings answered for come true *)

\* No sidecar is left in a stripped text.
LEMMA StripShape ==
  ASSUME NEW t \in Texts
  PROVE  /\ StripBackup(t) \in Texts
         /\ \A i \in 1 .. Len(StripBackup(t)) : StripBackup(t)[i].kind # "backup"
<1>. DEFINE strip == StripBackup(t)
<1>1. strip \in Texts
  <2>1. WithBackup(t, Off) = strip /\ Off \in Backups
    BY ConfigAssumption DEF WithBackup, Backups
  <2>. QED
    BY <2>1, TextFacts
<1>2. \A i \in 1 .. Len(strip) : strip[i].kind # "backup"
  <2>1. CASE ~Has(t, "backup")
    <3>1. strip = t /\ DOMAIN t = 1 .. Len(t)
      BY <2>1, LenProperties DEF StripBackup, Texts
    <3>. QED
      BY <2>1, <3>1 DEF Has
  <2>2. CASE Has(t, "backup")
    <3>. DEFINE n == First(t, "backup")
    <3>1. /\ n \in 1 .. Len(t) /\ Len(t) \in Nat
          /\ \A j \in 1 .. Len(t) : t[j].kind = "backup" => n <= j
      BY <2>2, FirstBackup, LenProperties DEF Texts
    <3>2. strip = SubSeq(t, 1, n - 1)
      BY <2>2 DEF StripBackup
    <3>. HIDE DEF n
    <3>3. \A i \in 1 .. n - 1 : t[i] \in Blocks
      <4>1. \A i \in 1 .. Len(t) : t[i] \in Blocks
        BY SeqElements, LenProperties DEF Texts
      <4>. QED
        BY <3>1, <4>1
    <3>4. Len(strip) = n - 1 /\ \A i \in 1 .. n - 1 : strip[i] = t[i]
      <4>1. 1 \in Int /\ n - 1 \in Int /\ 1 \in 1 .. Len(t) + 1 /\ n - 1 \in 0 .. Len(t)
        BY <3>1
      <4>. QED
        BY <3>1, <3>2, <3>3, <4>1, SubSeqProperties DEF Texts
    <3>5. \A i \in 1 .. n - 1 : t[i].kind # "backup"
      BY <3>1
    <3>. QED
      BY <3>4, <3>5
  <2>. QED
    BY <2>1, <2>2
<1>. QED
  BY <1>1, <1>2

\* set_backup's text has one sidecar, the new one, or none.
LEMMA WithBackupProvides ==
  ASSUME NEW t \in Texts, NEW backup \in Configs \cup {Off}
  PROVE  Provides(WithBackup(t, backup), backup)
<1>. DEFINE strip == StripBackup(t)
<1>1. strip \in Texts
  BY StripShape
<1>2. \A i \in 1 .. Len(strip) : strip[i].kind # "backup"
  BY StripShape
<1>3. DOMAIN strip = 1 .. Len(strip) /\ Len(strip) \in Nat
  BY <1>1, LenProperties DEF Texts
<1>. HIDE DEF strip
<1>4. CASE backup \notin Configs
  <2>1. WithBackup(t, backup) = strip
    BY <1>4 DEF WithBackup, strip
  <2>. QED
    BY <1>2, <1>3, <1>4, <2>1 DEF Provides, Sidecars
<1>5. CASE backup \in Configs
  <2>. DEFINE new == Append(strip, Sidecar(backup))
  <2>1. WithBackup(t, backup) = new
    BY <1>5 DEF WithBackup, strip
  <2>2. Sidecar(backup) \in Blocks
    BY <1>5 DEF Blocks
  <2>3. /\ DOMAIN new = 1 .. Len(strip) + 1
        /\ \A i \in 1 .. Len(strip) : new[i] = strip[i]
        /\ new[Len(strip) + 1] = Sidecar(backup)
    BY <1>1, <2>2, AppendElements DEF Texts
  <2>. HIDE DEF new
  <2>4. \A i \in DOMAIN new : new[i].kind = "backup" <=> i = Len(strip) + 1
    BY <1>2, <1>3, <2>3 DEF Sidecar
  <2>5. Len(strip) + 1 \in DOMAIN new /\ new[Len(strip) + 1].cfg = backup
    BY <1>3, <2>3 DEF Sidecar
  <2>6. Sidecars(new) = {backup}
    BY <2>4, <2>5 DEF Sidecars
  <2>. QED
    BY <1>5, <2>1, <2>6 DEF Provides
<1>. QED
  BY <1>4, <1>5

\* Settings replace those that were there, and leave the rest of the file as
\* the first of them found it: saving twice is saving the second time.
THEOREM LastSettingsWin ==
  ASSUME NEW t \in Texts, NEW first \in Configs \cup {Off}, NEW second \in Configs \cup {Off}
  PROVE  WithBackup(WithBackup(t, first), second) = WithBackup(t, second)
<1>. DEFINE strip == StripBackup(t)
            once == WithBackup(t, first)
<1>1. strip \in Texts /\ \A i \in 1 .. Len(strip) : strip[i].kind # "backup"
  BY StripShape
<1>2. DOMAIN strip = 1 .. Len(strip) /\ Len(strip) \in Nat
  BY <1>1, LenProperties DEF Texts
<1>3. StripBackup(once) = strip
  <2>1. CASE first \notin Configs
    <3>1. once = strip
      BY <2>1 DEF WithBackup
    <3>2. ~Has(strip, "backup")
      <4>. HIDE DEF strip
      <4>. QED
        BY <1>1, <1>2 DEF Has
    <3>. QED
      BY <3>1, <3>2 DEF StripBackup
  <2>2. CASE first \in Configs
    <3>. DEFINE n == First(once, "backup")
    <3>1. once = Append(strip, Sidecar(first)) /\ Sidecar(first) \in Blocks
      BY <2>2 DEF WithBackup, Blocks
    <3>. HIDE DEF strip, once
    <3>2. /\ once \in Texts /\ DOMAIN once = 1 .. Len(strip) + 1 /\ Len(once) = Len(strip) + 1
          /\ \A i \in 1 .. Len(strip) : once[i] = strip[i]
          /\ once[Len(strip) + 1] = Sidecar(first)
      BY <1>1, <3>1, AppendElements DEF Texts
    <3>3. \A i \in DOMAIN once : once[i].kind = "backup" <=> i = Len(strip) + 1
      BY <1>1, <1>2, <3>2 DEF Sidecar
    <3>4. Has(once, "backup")
      BY <1>2, <3>2, <3>3 DEF Has
    <3>5. n = Len(strip) + 1
      BY <3>2, <3>3, <3>4, FirstBackup
    <3>6. StripBackup(once) = SubSeq(once, 1, Len(strip))
      BY <1>2, <3>4, <3>5 DEF StripBackup
    <3>7. SubSeq(once, 1, Len(strip)) = strip
      <4>1. \A i \in 1 .. Len(strip) : once[i] \in Blocks
        BY <3>2, SeqElements DEF Texts
      <4>2. /\ 1 \in Int /\ Len(strip) \in Int /\ 1 \in 1 .. Len(once) + 1
            /\ Len(strip) \in 0 .. Len(once)
        BY <1>2, <3>2
      <4>. DEFINE part == SubSeq(once, 1, Len(strip))
      <4>3. part \in Seq(Blocks) /\ Len(part) = Len(strip)
            /\ \A i \in 1 .. Len(strip) : part[i] = strip[i]
        BY <1>2, <3>2, <4>1, <4>2, SubSeqProperties DEF Texts
      <4>. HIDE DEF part
      <4>. QED
        BY <1>1, <4>3, SeqEqual DEF Texts, part
    <3>. QED
      BY <3>6, <3>7
  <2>. QED
    BY <2>1, <2>2
<1>. QED
  BY <1>3 DEF WithBackup

\* A request no other has overlapped is alone with its server, and the text it is
\* going to write, has written, or has read is that of its own settings.
LoneWork(h) ==
  LET s == job[h].server
      b == def[h].backup IN
  /\ Others(h, s) = {}
  /\ job[h].op = "backup" =>
       /\ b # Unset
       /\ job[h].at \in {"mkdir", "read", "openfile", "fillfile", "openjson", "filljson",
                         "reply", "load", "apply"}
       /\ job[h].at \in {"openfile", "fillfile", "apply"} => Provides(text[h], b)
       /\ At(h, "fillfile") => file[s] = <<>>
       /\ job[h].at \in {"openjson", "filljson", "reply", "load"} => Provides(file[s], b)

LoneWorks == \A h \in lone : LoneWork(h)

\* Settings answered for are what the sidecar runs with, or a task that no other
\* request has overlapped is about to see to it.
Settling(h, s) ==
  /\ job[h].server = s /\ job[h].op = "backup" /\ job[h].at \in {"load", "apply"}
  /\ def[h].backup = asked[s]

AskedWorks ==
  \A s \in Servers : asked[s] # Unset =>
    \/ sidecar[s] = asked[s] /\ \A h \in Slots : Busy(h) => job[h].server # s
    \/ \E h \in lone : Settling(h, s)

SettleInv == TypeInv /\ LoneWorks /\ AskedWorks

LEMMA LoneBusy ==
  ASSUME TypeInv
  PROVE  lone \subseteq {h \in Slots : Busy(h)}
BY DEF TypeInv, TypeOK

\* A new request overlaps those under way for its server.
LEMMA SettleAccept ==
  ASSUME TypeInv, NEW h \in Slots, NEW s \in Servers,
         \/ BeginCreate(h, s) \/ BeginDelete(h, s) \/ BeginOpencl(h, s)
         \/ BeginBackup(h, s) \/ BeginConfig(h, s) \/ BeginCompose(h, s)
  PROVE  /\ lone' = (lone \ Others(h, s)) \cup IF Others(h, s) = {} THEN {h} ELSE {}
         /\ \A k \in Slots \ {h} : def'[k] = def[k] /\ text'[k] = text[k]
         /\ job'[h].op = "backup" => /\ def'[h].backup # Unset
                                     /\ job'[h].at \in {"read", "mkdir"}
<1>0. /\ job \in [Slots -> Job] /\ def \in [Slots -> Defs] /\ text \in [Slots -> Texts]
      /\ servers \in [Servers -> Defs \cup {NoServer}]
  BY JobType DEF TypeInv, TypeOK
<1>1. ASSUME NEW op, NEW at, NEW d, NEW t, Accept(h, op, s, at, d, t)
      PROVE  /\ lone' = (lone \ Others(h, s)) \cup IF Others(h, s) = {} THEN {h} ELSE {}
             /\ \A k \in Slots \ {h} : def'[k] = def[k] /\ text'[k] = text[k]
             /\ job'[h].op = op /\ job'[h].at = at /\ def'[h] = d
  BY <1>0, <1>1 DEF Accept
<1>2. CASE BeginBackup(h, s)
  <2>1. PICK cfg \in Configs \cup {Off} :
          Accept(h, "backup", s, IF cfg = Off THEN "read" ELSE "mkdir",
                 [servers[s] EXCEPT !.backup = cfg], <<>>)
    BY <1>2 DEF BeginBackup
  <2>2. servers[s] \in Defs
    BY <1>0, <1>2 DEF BeginBackup, Listed
  <2>3. [servers[s] EXCEPT !.backup = cfg].backup = cfg /\ cfg # Unset
    BY <2>2, ConfigAssumption DEF Defs
  <2>. QED
    BY <1>1, <2>1, <2>3
<1>3. CASE BeginCreate(h, s)
  BY <1>1, <1>3 DEF BeginCreate
<1>4. CASE BeginDelete(h, s)
  BY <1>1, <1>4 DEF BeginDelete
<1>5. CASE BeginOpencl(h, s)
  BY <1>1, <1>5 DEF BeginOpencl
<1>6. CASE BeginConfig(h, s)
  BY <1>1, <1>6 DEF BeginConfig
<1>7. CASE BeginCompose(h, s)
  BY <1>1, <1>7 DEF BeginCompose
<1>. QED
  BY <1>2, <1>3, <1>4, <1>5, <1>6, <1>7

LEMMA SettleBegin ==
  ASSUME SettleInv, NEW h \in Slots, Request(h)
  PROVE  LoneWorks' /\ AskedWorks'
<1>1. PICK s \in Servers :
        \/ BeginCreate(h, s) \/ BeginDelete(h, s) \/ BeginOpencl(h, s)
        \/ BeginBackup(h, s) \/ BeginConfig(h, s) \/ BeginCompose(h, s)
  BY DEF Request
<1>2. /\ Elsewhere(h) /\ ~Busy(h) /\ job'[h].server = s
      /\ job'[h].at \in {"mkdir", "rm", "openjson", "read", "openfile", "load"}
      /\ asked' = [asked EXCEPT ![s] = Unset]
      /\ file' = file /\ sidecar' = sidecar
  BY <1>1, BeginShape DEF SettleInv, disk
<1>3. /\ lone' = (lone \ Others(h, s)) \cup IF Others(h, s) = {} THEN {h} ELSE {}
      /\ \A k \in Slots \ {h} : def'[k] = def[k] /\ text'[k] = text[k]
      /\ job'[h].op = "backup" => def'[h].backup # Unset /\ job'[h].at \in {"read", "mkdir"}
  BY <1>1, SettleAccept DEF SettleInv
<1>4. lone \subseteq Slots /\ (\A k \in lone : Busy(k)) /\ asked \in [Servers -> Backups]
  BY LoneBusy DEF SettleInv, TypeInv, TypeOK
<1>5. \A k \in Slots \ {h} : job'[k] = job[k] /\ (Busy(k) /\ job[k].server = s => k \in Others(h, s))
  BY <1>2 DEF Elsewhere, Others
<1>6. ASSUME NEW k \in lone', k # h
      PROVE  k \in lone /\ job'[k] = job[k] /\ job[k].server # s
  BY <1>3, <1>4, <1>5, <1>6
<1>7. LoneWork(h)' \/ h \notin lone'
  <2>. SUFFICES ASSUME h \in lone' PROVE LoneWork(h)'
    OBVIOUS
  <2>1. Others(h, s) = {}
    BY <1>2, <1>3, <1>4
  <2>2. Others(h, job[h].server)'  = {}
    BY <1>2, <1>5, <2>1 DEF Others, Busy
  <2>. QED
    BY <1>3, <2>2 DEF LoneWork, At
<1>8. ASSUME NEW k \in lone', k # h PROVE LoneWork(k)'
  <2>1. LoneWork(k) /\ k \in Slots
    BY <1>4, <1>6, <1>8 DEF SettleInv, LoneWorks
  <2>2. def'[k] = def[k] /\ text'[k] = text[k]
    BY <1>3, <1>8, <2>1
  <2>3. Others(k, job[k].server)' = {}
    BY <1>2, <1>5, <1>6, <1>8, <2>1 DEF LoneWork, Others, Busy
  <2>. QED
    BY <1>2, <1>6, <1>8, <2>1, <2>2, <2>3 DEF LoneWork, At
<1>9. ASSUME NEW t \in Servers, asked'[t] # Unset
      PROVE  \/ sidecar'[t] = asked'[t] /\ \A k \in Slots : Busy(k)' => job'[k].server # t
             \/ \E k \in lone' : Settling(k, t)'
  <2>1. t # s /\ asked'[t] = asked[t]
    BY <1>2, <1>4, <1>9
  <2>2. CASE \E k \in lone : Settling(k, t)
    <3>1. PICK k \in lone : Settling(k, t)
      BY <2>2
    <3>2. k # h /\ job'[k] = job[k] /\ def'[k] = def[k] /\ k \in Slots
      BY <1>2, <1>3, <1>4, <1>5, <3>1
    <3>3. k \in lone'
      BY <1>3, <2>1, <3>1, <3>2 DEF Settling, Others
    <3>. QED
      BY <2>1, <3>1, <3>2, <3>3 DEF Settling
  <2>3. CASE sidecar[t] = asked[t] /\ \A k \in Slots : Busy(k) => job[k].server # t
    BY <1>2, <1>5, <2>1, <2>3 DEF Busy
  <2>. QED
    BY <2>1, <2>2, <2>3, <1>9 DEF SettleInv, AskedWorks
<1>. QED
  BY <1>7, <1>8, <1>9 DEF LoneWorks, AskedWorks

\* A step of a request leaves the other slots as they are.
LEMMA SettleFrame ==
  ASSUME TypeInv, NEW h \in Slots, Serve(h) \/ Fail(h)
  PROVE  /\ \A k \in Slots \ {h} : def'[k] = def[k] /\ text'[k] = text[k]
         /\ lone \ {h} \subseteq lone'
<1>1. def \in [Slots -> Defs] /\ text \in [Slots -> Texts]
  BY JobType DEF TypeInv
<1>2. CASE Leave(h)
  BY <1>1, <1>2 DEF Leave
<1>3. CASE ~Leave(h)
  <2>1. lone' = lone /\ \/ UNCHANGED <<def, text>>
                        \/ UNCHANGED def /\ \E t : text' = [text EXCEPT ![h] = t]
    BY <1>3 DEF Serve, Fail, MakeDir, OpenJson, FillJson, OpenFile, FillFile, ReadToRegenerate,
       ReadToAppend, NotFound, Insert, Reply, Load, Apply, RemoveJson, RemoveFile,
       RemoveBackups, RemoveDir, ghosts, work
  <2>. QED
    BY <1>1, <2>1
<1>. QED
  BY <1>2, <1>3

\* The steps of a set_backup that no other request has overlapped.
LEMMA SettleAlone ==
  ASSUME SettleInv, NEW h \in lone, Serve(h), h \in lone', job[h].op = "backup"
  PROVE  LET s == job[h].server
             b == def[h].backup IN
         /\ def'[h] = def[h]
         /\ job'[h].at \in {"read", "openfile", "fillfile", "openjson", "filljson",
                            "reply", "load", "apply"}
         /\ job'[h].at \in {"openfile", "fillfile", "apply"} => Provides(text'[h], b)
         /\ job'[h].at = "fillfile" => file'[s] = <<>>
         /\ job'[h].at \in {"openjson", "filljson", "reply", "load"} => Provides(file'[s], b)
<1>. DEFINE s == job[h].server
            b == def[h].backup
<1>0. /\ h \in Slots /\ s \in Servers /\ job \in [Slots -> Job] /\ def \in [Slots -> Defs]
      /\ text \in [Slots -> Texts] /\ file \in [Servers -> Texts \cup {Absent}]
      /\ def[h] \in Defs
  BY LoneBusy, JobType DEF SettleInv, TypeInv, TypeOK
<1>1. /\ b # Unset
      /\ job[h].at \in {"mkdir", "read", "openfile", "fillfile", "openjson", "filljson",
                        "reply", "load", "apply"}
      /\ job[h].at \in {"openfile", "fillfile", "apply"} => Provides(text[h], b)
      /\ At(h, "fillfile") => file[s] = <<>>
      /\ job[h].at \in {"openjson", "filljson", "reply", "load"} => Provides(file[s], b)
  BY DEF SettleInv, LoneWorks, LoneWork
<1>2. ~Leave(h)
  BY <1>0 DEF Leave
<1>3. ASSUME NEW label, Goto(h, label) PROVE job'[h].at = label
  BY <1>0, <1>3 DEF Goto, Job
<1>4. CASE MakeDir(h)
  <2>1. job'[h].at = "read"
    BY <1>3, <1>4, AfterFacts DEF MakeDir, GoOn, At
  <2>. QED
    BY <1>4, <2>1 DEF MakeDir
<1>5. CASE OpenJson(h)
  <2>1. job'[h].at = "filljson" /\ At(h, "openjson") /\ UNCHANGED <<def, file>>
    BY <1>3, <1>5, AfterFacts DEF OpenJson, GoOn, At
  <2>. QED
    BY <1>1, <2>1 DEF At
<1>6. CASE FillJson(h)
  <2>1. After("backup", "filljson") = "reply"
    BY DEF After
  <2>2. job'[h].at = "reply" /\ At(h, "filljson") /\ UNCHANGED <<def, file>>
    BY <1>3, <1>6, <2>1 DEF FillJson, GoOn, At
  <2>. QED
    BY <1>1, <2>2 DEF At
<1>7. CASE OpenFile(h)
  <2>1. job'[h].at = "fillfile" /\ At(h, "openfile") /\ UNCHANGED <<def, text>>
        /\ file' = [file EXCEPT ![s] = <<>>]
    BY <1>3, <1>7, AfterFacts DEF OpenFile, GoOn, At
  <2>. QED
    BY <1>0, <1>1, <2>1 DEF At
<1>8. CASE FillFile(h)
  <2>1. After("backup", "fillfile") = "openjson"
    BY DEF After
  <2>2. job'[h].at = "openjson" /\ At(h, "fillfile") /\ UNCHANGED def
    BY <1>3, <1>8, <2>1 DEF FillFile, GoOn, At
  <2>3. file' = [file EXCEPT ![s] = text[h]]
    BY <1>1, <1>8 DEF FillFile
  <2>. QED
    BY <1>0, <1>1, <2>2, <2>3 DEF At
<1>9. CASE ReadToAppend(h)
  <2>1. job'[h].at = "openfile" /\ UNCHANGED def /\ file[s] \in Texts
        /\ text' = [text EXCEPT ![h] = WithBackup(file[s], b)]
    BY <1>0, <1>3, <1>9 DEF ReadToAppend
  <2>2. b \in Configs \cup {Off}
    BY <1>0, <1>1 DEF Defs, Backups
  <2>. QED
    BY <1>0, <2>1, <2>2, WithBackupProvides
<1>10. CASE Reply(h)
  <2>1. job'[h].at = "load" /\ At(h, "reply") /\ UNCHANGED <<def, file>>
    BY <1>2, <1>3, <1>10 DEF Reply, disk
  <2>. QED
    BY <1>1, <2>1 DEF At
<1>11. CASE Load(h)
  <2>1. job'[h].at = "apply" /\ At(h, "load") /\ UNCHANGED def
        /\ text' = [text EXCEPT ![h] = file[s]]
    BY <1>3, <1>11 DEF Load
  <2>. QED
    BY <1>0, <1>1, <2>1 DEF At
<1>12. ~ReadToRegenerate(h) /\ ~NotFound(h) /\ ~Insert(h) /\ ~Apply(h) /\ ~RemoveJson(h)
       /\ ~RemoveFile(h) /\ ~RemoveBackups(h) /\ ~RemoveDir(h)
  BY <1>1, <1>2 DEF ReadToRegenerate, NotFound, Insert, Apply, RemoveJson, RemoveFile,
     RemoveBackups, RemoveDir, At
<1>. QED
  BY <1>4, <1>5, <1>6, <1>7, <1>8, <1>9, <1>10, <1>11, <1>12 DEF Serve

LEMMA SettleServe ==
  ASSUME SettleInv, NEW h \in Slots, Serve(h)
  PROVE  LoneWorks' /\ AskedWorks'
<1>. DEFINE s == job[h].server
<1>1. /\ Elsewhere(h) /\ Busy(h) /\ lone' \subseteq lone
      /\ \/ job'[h].at = "idle" /\ h \notin lone'
         \/ job'[h].server = s /\ job'[h].op = job[h].op
  BY ServeShape DEF SettleInv
<1>2. /\ \A k \in Slots \ {h} : def'[k] = def[k] /\ text'[k] = text[k] /\ job'[k] = job[k]
      /\ lone \ {h} \subseteq lone'
  BY <1>1, SettleFrame DEF SettleInv, Elsewhere
<1>3. \A t \in Servers \ {s} : /\ file'[t] = file[t] /\ sidecar'[t] = sidecar[t]
                               /\ asked'[t] = asked[t]
  BY ServeFrame DEF SettleInv
<1>4. /\ lone \subseteq Slots /\ (\A k \in lone : Busy(k))
      /\ asked \in [Servers -> Backups] /\ sidecar \in [Servers -> Containers]
      /\ s \in Servers /\ \A k \in Slots : job[k].server \in Servers
  BY LoneBusy, JobType DEF SettleInv, TypeInv, TypeOK
<1>5. ASSUME NEW k \in lone PROVE Others(k, job[k].server) = {} /\ (k # h => job[k].server # s)
  BY <1>1, <1>4 DEF SettleInv, LoneWorks, LoneWork, Others
<1>6. ASSUME NEW k \in lone', k # h PROVE LoneWork(k)'
  <2>1. /\ LoneWork(k) /\ k \in Slots /\ job'[k] = job[k] /\ job[k].server # s
        /\ def'[k] = def[k] /\ text'[k] = text[k] /\ file'[job[k].server] = file[job[k].server]
    BY <1>1, <1>2, <1>3, <1>4, <1>5, <1>6 DEF SettleInv, LoneWorks
  <2>2. Others(k, job[k].server)' = {}
    BY <1>1, <1>2, <2>1 DEF LoneWork, Others, Busy
  <2>. QED
    BY <2>1, <2>2 DEF LoneWork, At
<1>7. ASSUME h \in lone' PROVE LoneWork(h)'
  <2>1. h \in lone /\ job'[h].server = s /\ job'[h].op = job[h].op
    BY <1>1, <1>7
  <2>2. Others(h, s)' = {}
    BY <1>2, <1>5, <2>1 DEF Others, Busy
  <2>3. CASE job[h].op # "backup"
    BY <2>1, <2>2, <2>3 DEF LoneWork
  <2>4. CASE job[h].op = "backup"
    <3>1. def[h].backup # Unset
      BY <2>1, <2>4 DEF SettleInv, LoneWorks, LoneWork
    <3>. QED
      BY <1>7, <2>1, <2>2, <2>4, <3>1, SettleAlone DEF LoneWork, At
  <2>. QED
    BY <2>3, <2>4
<1>8. ASSUME NEW t \in Servers, asked'[t] # Unset, t # s
      PROVE  \/ sidecar'[t] = asked'[t] /\ \A k \in Slots : Busy(k)' => job'[k].server # t
             \/ \E k \in lone' : Settling(k, t)'
  <2>1. asked[t] # Unset /\ asked'[t] = asked[t] /\ sidecar'[t] = sidecar[t]
    BY <1>3, <1>8
  <2>2. CASE \E k \in lone : Settling(k, t)
    <3>1. PICK k \in lone : Settling(k, t)
      BY <2>2
    <3>2. k # h /\ k \in lone' /\ job'[k] = job[k] /\ def'[k] = def[k]
      BY <1>2, <1>4, <1>8, <3>1 DEF Settling
    <3>. QED
      BY <2>1, <3>1, <3>2 DEF Settling
  <2>3. CASE sidecar[t] = asked[t] /\ \A k \in Slots : Busy(k) => job[k].server # t
    BY <1>1, <1>2, <1>8, <2>1, <2>3 DEF Busy
  <2>. QED
    BY <2>1, <2>2, <2>3 DEF SettleInv, AskedWorks
<1>9. ASSUME NEW t \in Servers, asked'[t] # Unset, t = s
      PROVE  \/ sidecar'[t] = asked'[t] /\ \A k \in Slots : Busy(k)' => job'[k].server # t
             \/ \E k \in lone' : Settling(k, t)'
  <2>1. CASE asked' = asked
    <3>1. PICK k \in lone : Settling(k, s)
      BY <1>1, <1>4, <1>9, <2>1 DEF SettleInv, AskedWorks
    <3>2. k = h /\ job[h].op = "backup" /\ job[h].at \in {"load", "apply"}
          /\ def[h].backup = asked[s] /\ h \in lone
      BY <1>5, <3>1 DEF Settling
    <3>3. CASE Load(h)
      <4>1. Goto(h, "apply") /\ UNCHANGED <<def, lone>>
        BY <3>3 DEF Load, ghosts
      <4>2. job'[h].at = "apply" /\ job'[h].op = job[h].op /\ job'[h].server = s
        BY <4>1, GotoShape, JobType DEF SettleInv, TypeInv, Labels
      <4>. QED
        BY <1>9, <2>1, <3>2, <4>1, <4>2 DEF Settling
    <3>4. CASE Apply(h)
      <4>1. At(h, "apply") /\ Leave(h)
        BY <3>4 DEF Apply
      <4>. DEFINE found == Sidecars(text[h])
      <4>2. /\ found = IF def[h].backup \in Configs THEN {def[h].backup} ELSE {}
            /\ h \in Slots
        BY <1>4, <3>2, <4>1 DEF SettleInv, LoneWorks, LoneWork, Provides, At
      <4>6. /\ Outcomes(h, sidecar[s], found) = IF found # {} THEN found
              ELSE IF RemovesOrphans(h) THEN {Off} ELSE {sidecar[s]}
            /\ \E after \in Outcomes(h, sidecar[s], found) : sidecar'[s] = after
        <5>. HIDE DEF found
        <5>1. Outcomes(h, sidecar[s], found) = IF found # {} THEN found
                ELSE IF RemovesOrphans(h) THEN {Off} ELSE {sidecar[s]}
          BY <3>2 DEF Outcomes
        <5>2. \E after \in Outcomes(h, sidecar[s], found) : sidecar'[s] = after
          BY <1>4, <3>4 DEF Apply, found
        <5>. QED
          BY <5>1, <5>2
      <4>3. sidecar'[s] = asked[s]
        <5>1. CASE def[h].backup \in Configs
          BY <3>2, <4>2, <4>6, <5>1
        <5>2. CASE def[h].backup \notin Configs
          <6>1. def[h].backup = Off
            BY <1>4, <1>9, <2>1, <3>2, <5>2 DEF Backups
          <6>. QED
            BY <3>2, <4>2, <4>6, <5>2, <6>1 DEF RemovesOrphans
        <5>. QED
          BY <5>1, <5>2
      <4>4. job'[h].at = "idle"
        BY <4>1, LeaveShape, JobType DEF SettleInv, TypeInv
      <4>5. \A j \in Slots : Busy(j)' => job'[j].server # s
        BY <1>2, <1>5, <3>2, <4>4 DEF Others, Busy
      <4>. QED
        BY <1>9, <2>1, <4>3, <4>5
    <3>5. ~NotFound(h)
      BY <1>4, <1>9, <2>1 DEF NotFound, Unsettle
    <3>. QED
      BY <3>2, <3>3, <3>4, <3>5 DEF Serve, MakeDir, OpenJson, FillJson, OpenFile, FillFile,
         ReadToRegenerate, ReadToAppend, Insert, Reply, RemoveJson, RemoveFile, RemoveBackups,
         RemoveDir, At
  <2>2. CASE asked' # asked
    <3>1. Reply(h) \/ NotFound(h)
      BY <2>2 DEF Serve, MakeDir, OpenJson, FillJson, OpenFile, FillFile, ReadToRegenerate,
         ReadToAppend, Insert, Load, Apply, RemoveJson, RemoveFile, RemoveBackups, RemoveDir,
         ghosts
    <3>2. Reply(h)
      BY <1>4, <1>9, <3>1 DEF NotFound, Unsettle
    <3>3. /\ job[h].op = "backup" /\ Goto(h, "load") /\ UNCHANGED <<def, lone>>
          /\ asked'[s] = IF h \in lone THEN def[h].backup ELSE Unset
      BY <1>4, <2>2, <3>2 DEF Reply
    <3>4. job'[h].at = "load" /\ job'[h].op = "backup" /\ job'[h].server = s
      BY <3>3, GotoShape, JobType DEF SettleInv, TypeInv, Labels
    <3>. QED
      BY <1>9, <3>3, <3>4 DEF Settling
  <2>. QED
    BY <2>1, <2>2
<1>10. LoneWorks'
  BY <1>6, <1>7 DEF LoneWorks
<1>11. AskedWorks'
  <2>. SUFFICES ASSUME NEW t \in Servers, asked'[t] # Unset
                PROVE  \/ sidecar'[t] = asked'[t] /\ \A k \in Slots : Busy(k)' => job'[k].server # t
                       \/ \E k \in lone' : Settling(k, t)'
    BY DEF AskedWorks
  <2>. QED
    BY <1>8, <1>9
<1>. QED
  BY <1>10, <1>11

LEMMA SettleFail ==
  ASSUME SettleInv, NEW h \in Slots, Fail(h)
  PROVE  LoneWorks' /\ AskedWorks'
<1>. DEFINE s == job[h].server
<1>1. /\ Elsewhere(h) /\ Busy(h) /\ job'[h].at = "idle" /\ lone' = lone \ {h}
      /\ file' = file /\ sidecar' = sidecar /\ asked' = [asked EXCEPT ![s] = Unset]
  BY FailShape DEF SettleInv
<1>2. \A k \in Slots \ {h} : def'[k] = def[k] /\ text'[k] = text[k] /\ job'[k] = job[k]
  BY <1>1, SettleFrame DEF SettleInv, Elsewhere
<1>3. lone \subseteq Slots /\ asked \in [Servers -> Backups]
  BY LoneBusy DEF SettleInv, TypeInv, TypeOK
<1>4. ASSUME NEW k \in lone' PROVE LoneWork(k)'
  <2>1. LoneWork(k) /\ k \in Slots \ {h}
    BY <1>1, <1>3, <1>4 DEF SettleInv, LoneWorks
  <2>2. Others(k, job[k].server)' = {}
    BY <1>1, <1>2, <2>1 DEF LoneWork, Others, Busy
  <2>. QED
    BY <1>1, <1>2, <2>1, <2>2 DEF LoneWork, At
<1>5. ASSUME NEW t \in Servers, asked'[t] # Unset
      PROVE  \/ sidecar'[t] = asked'[t] /\ \A k \in Slots : Busy(k)' => job'[k].server # t
             \/ \E k \in lone' : Settling(k, t)'
  <2>1. t # s /\ asked'[t] = asked[t]
    BY <1>1, <1>3, <1>5
  <2>2. CASE \E k \in lone : Settling(k, t)
    BY <1>1, <1>2, <1>3, <2>1, <2>2 DEF Settling
  <2>3. CASE sidecar[t] = asked[t] /\ \A k \in Slots : Busy(k) => job[k].server # t
    BY <1>1, <1>2, <2>1, <2>3 DEF Busy
  <2>. QED
    BY <1>5, <2>1, <2>2, <2>3 DEF SettleInv, AskedWorks
<1>. QED
  BY <1>4, <1>5 DEF LoneWorks, AskedWorks

LEMMA SettleCrash ==
  ASSUME SettleInv, Crash
  PROVE  LoneWorks' /\ AskedWorks'
<1>1. /\ \A h \in Slots : \/ job'[h] = job[h] /\ At(h, "apply")
                          \/ job'[h].at = "idle"
      /\ file' = file /\ sidecar' = sidecar
  BY CrashShape DEF SettleInv
<1>2. /\ \A h \in lone' : h \in lone /\ h \in Slots /\ At(h, "apply")
      /\ \A h \in Slots : At(h, "apply") =>
           job'[h] = job[h] /\ def'[h] = def[h] /\ text'[h] = text[h]
      /\ \A s \in Servers :
           asked'[s] = IF \E h \in Slots : Busy(h) /\ job[h].server = s THEN Unset
                                                                        ELSE asked[s]
  BY DEF Crash
<1>3. lone \subseteq Slots /\ \A k \in lone : Busy(k)
  BY LoneBusy DEF SettleInv
<1>4. ASSUME NEW k \in lone' PROVE LoneWork(k)'
  <2>1. /\ LoneWork(k) /\ k \in Slots /\ At(k, "apply")
        /\ job'[k] = job[k] /\ def'[k] = def[k] /\ text'[k] = text[k]
    BY <1>2, <1>4 DEF SettleInv, LoneWorks
  <2>2. Others(k, job[k].server)' = {}
    BY <1>1, <2>1 DEF LoneWork, Others, Busy, At
  <2>. QED
    BY <2>1, <2>2 DEF LoneWork, At
<1>5. ASSUME NEW t \in Servers, asked'[t] # Unset
      PROVE  sidecar'[t] = asked'[t] /\ \A k \in Slots : Busy(k)' => job'[k].server # t
  <2>1. asked'[t] = asked[t] /\ \A k \in Slots : Busy(k) => job[k].server # t
    BY <1>2, <1>5
  <2>2. sidecar[t] = asked[t]
    BY <1>3, <1>5, <2>1 DEF SettleInv, AskedWorks, Settling
  <2>. QED
    BY <1>1, <2>1, <2>2 DEF Busy, At
<1>. QED
  BY <1>4, <1>5 DEF LoneWorks, AskedWorks

LEMMA SettleStep == SettleInv /\ [Next]_vars => SettleInv'
<1>. SUFFICES ASSUME SettleInv, [Next]_vars PROVE SettleInv'
  OBVIOUS
<1>1. TypeInv'
  BY TypeStep DEF SettleInv
<1>2. CASE UNCHANGED vars
  BY <1>1, <1>2 DEF vars, SettleInv, LoneWorks, LoneWork, AskedWorks, Settling, Others, Busy, At
<1>3. CASE Next
  BY <1>1, <1>3, SettleBegin, SettleServe, SettleFail, SettleCrash DEF Next, SettleInv
<1>. QED
  BY <1>2, <1>3

\* For every instance: once set_backup has answered a request that no other has
\* overlapped, and its docker compose is over, the sidecar runs as it says.
THEOREM SidecarFollows == Spec => []BackupSettles
<1>1. Init => SettleInv
  BY TypeInit DEF Init, SettleInv, LoneWorks, AskedWorks
<1>2. SettleInv => BackupSettles
  <2>. SUFFICES ASSUME SettleInv, NEW s \in Servers, asked[s] # Unset, sidecar[s] # asked[s]
                PROVE  \E h \in Slots : Busy(h) /\ job[h].server = s
    BY DEF BackupSettles
  <2>1. PICK h \in lone : Settling(h, s)
    BY DEF SettleInv, AskedWorks
  <2>. QED
    BY <2>1, LoneBusy DEF SettleInv, Settling
<1>. QED
  BY <1>1, <1>2, SettleStep, PTL DEF Spec

-----------------------------------------------------------------------------
(* The settings answered for are in both files *)

\* The server.json of a set_backup that no other request has overlapped: emptied
\* by it, then what it is going to be remembered by.
JsonWork(h) ==
  job[h].op = "backup" =>
    /\ At(h, "filljson") => json[job[h].server] = Empty
    /\ At(h, "reply") => json[job[h].server] = def[h]

JsonWorks == \A h \in lone : JsonWork(h)

AgreeInv == SettleInv /\ JsonWorks /\ SettingsAgree

\* A new request overlaps those of its server and is at no file yet.
LEMMA AgreeBegin ==
  ASSUME AgreeInv, NEW h \in Slots, Request(h)
  PROVE  JsonWorks' /\ SettingsAgree'
<1>1. PICK s \in Servers :
        \/ BeginCreate(h, s) \/ BeginDelete(h, s) \/ BeginOpencl(h, s)
        \/ BeginBackup(h, s) \/ BeginConfig(h, s) \/ BeginCompose(h, s)
  BY DEF Request
<1>2. /\ Elsewhere(h) /\ job'[h].at \in {"mkdir", "rm", "openjson", "read", "openfile", "load"}
      /\ lone' \subseteq lone \cup {h}
      /\ asked' = [asked EXCEPT ![s] = Unset]
      /\ file' = file /\ json' = json
  BY <1>1, BeginShape DEF AgreeInv, SettleInv, disk
<1>3. \A k \in Slots \ {h} : def'[k] = def[k]
  BY <1>1, SettleAccept DEF AgreeInv, SettleInv
<1>4. lone \subseteq Slots /\ asked \in [Servers -> Backups]
  BY LoneBusy DEF AgreeInv, SettleInv, TypeInv, TypeOK
<1>5. ASSUME NEW k \in lone' PROVE JsonWork(k)'
  <2>1. CASE k = h
    BY <1>2, <2>1 DEF JsonWork, At
  <2>2. CASE k # h
    <3>1. k \in lone /\ k \in Slots \ {h} /\ JsonWork(k)
      BY <1>2, <1>4, <1>5, <2>2 DEF AgreeInv, JsonWorks
    <3>2. job'[k] = job[k] /\ def'[k] = def[k] /\ json' = json
      BY <1>2, <1>3, <3>1 DEF Elsewhere
    <3>. QED
      BY <3>1, <3>2 DEF JsonWork, At
  <2>. QED
    BY <2>1, <2>2
<1>6. SettingsAgree'
  BY <1>2, <1>4 DEF AgreeInv, SettingsAgree, Provides, Sidecars
<1>. QED
  BY <1>5, <1>6 DEF JsonWorks

\* What a lone set_backup writes into server.json.
LEMMA AgreeAlone ==
  ASSUME AgreeInv, NEW h \in lone, Serve(h), h \in lone'
  PROVE  JsonWork(h)'
<1>. DEFINE s == job[h].server
<1>0. /\ h \in Slots /\ s \in Servers /\ json \in [Servers -> Defs \cup {Absent, Empty, Torn}]
      /\ job \in [Slots -> Job] /\ job[h] \in Job
  BY LoneBusy, JobType DEF AgreeInv, SettleInv, TypeInv, TypeOK
<1>1. /\ job'[h].at = "idle" \/ (job'[h].server = s /\ job'[h].op = job[h].op)
      /\ job'[h].at = "idle" => h \notin lone'
  BY <1>0, ServeShape DEF AgreeInv, SettleInv
<1>. SUFFICES ASSUME job[h].op = "backup" PROVE JsonWork(h)'
  BY <1>1 DEF JsonWork
<1>2. job'[h].server = s
  BY <1>1
<1>3. ASSUME job'[h].at = "filljson" PROVE json'[s] = Empty
  <2>1. OpenJson(h)
    BY <1>0, <1>3, FileCauses DEF AgreeInv, SettleInv
  <2>. QED
    BY <1>0, <2>1 DEF OpenJson
<1>4. ASSUME job'[h].at = "reply" PROVE json'[s] = def'[h]
  <2>1. job[h].at \in {"mkdir", "read", "openfile", "fillfile", "openjson", "filljson",
                       "reply", "load", "apply"}
    BY DEF AgreeInv, SettleInv, LoneWorks, LoneWork
  <2>2. ASSUME NEW label, Goto(h, label) PROVE job'[h].at = label
    BY <1>0, <2>2 DEF Goto, Job
  <2>3. ~Leave(h)
    BY <1>0 DEF Leave
  <2>4. FillJson(h)
    <3>1. ~MakeDir(h) /\ ~OpenJson(h) /\ ~OpenFile(h)
      BY <1>0, <1>4, FileSteps DEF AgreeInv, SettleInv
    <3>2. ~FillFile(h)
      <4>1. After("backup", "fillfile") = "openjson"
        BY DEF After
      <4>. QED
        BY <1>4, <2>2, <4>1 DEF FillFile, GoOn, At
    <3>3. ~ReadToAppend(h) /\ ~Reply(h) /\ ~Load(h)
      BY <1>4, <2>2, <2>3 DEF ReadToAppend, Reply, Load
    <3>4. ~ReadToRegenerate(h) /\ ~NotFound(h) /\ ~Insert(h) /\ ~Apply(h) /\ ~RemoveJson(h)
          /\ ~RemoveFile(h) /\ ~RemoveBackups(h) /\ ~RemoveDir(h)
      BY <2>1, <2>3 DEF ReadToRegenerate, NotFound, Insert, Apply, RemoveJson, RemoveFile,
         RemoveBackups, RemoveDir, At
    <3>. QED
      BY <3>1, <3>2, <3>3, <3>4 DEF Serve
  <2>5. json[s] = Empty
    BY <2>4 DEF AgreeInv, JsonWorks, JsonWork, FillJson
  <2>6. json' = [json EXCEPT ![s] = def[h]] /\ def' = def
    BY <2>4, <2>5 DEF FillJson
  <2>. QED
    BY <1>0, <2>6
<1>. QED
  BY <1>2, <1>3, <1>4 DEF JsonWork, At

LEMMA AgreeServe ==
  ASSUME AgreeInv, NEW h \in Slots, Serve(h)
  PROVE  JsonWorks' /\ SettingsAgree'
<1>. DEFINE s == job[h].server
<1>1. Elsewhere(h) /\ Busy(h) /\ lone' \subseteq lone
  BY ServeShape DEF AgreeInv, SettleInv
<1>2. \A k \in Slots \ {h} : def'[k] = def[k] /\ job'[k] = job[k]
  BY <1>1, SettleFrame DEF AgreeInv, SettleInv, Elsewhere
<1>3. \A t \in Servers \ {s} : /\ json'[t] = json[t] /\ file'[t] = file[t]
                               /\ asked'[t] = asked[t]
  BY ServeFrame DEF AgreeInv, SettleInv
<1>4. /\ lone \subseteq Slots /\ (\A k \in lone : Busy(k)) /\ asked \in [Servers -> Backups]
      /\ s \in Servers /\ (\A k \in Slots : job[k].server \in Servers)
      /\ def \in [Slots -> Defs]
  BY LoneBusy, JobType DEF AgreeInv, SettleInv, TypeInv, TypeOK
<1>5. ASSUME NEW k \in lone, k # h PROVE job[k].server # s
  BY <1>1, <1>4, <1>5 DEF AgreeInv, SettleInv, LoneWorks, LoneWork, Others
<1>6. ASSUME NEW k \in lone' PROVE JsonWork(k)'
  <2>1. CASE k = h
    BY <1>1, <1>6, <2>1, AgreeAlone
  <2>2. CASE k # h
    <3>1. k \in lone /\ job[k].server # s /\ JsonWork(k) /\ k \in Slots
      BY <1>1, <1>4, <1>5, <1>6, <2>2 DEF AgreeInv, JsonWorks
    <3>2. job'[k] = job[k] /\ def'[k] = def[k] /\ json'[job[k].server] = json[job[k].server]
      BY <1>2, <1>3, <1>4, <2>2, <3>1
    <3>. QED
      BY <3>1, <3>2 DEF JsonWork, At
  <2>. QED
    BY <2>1, <2>2
<1>7. ASSUME asked'[s] # Unset
      PROVE  json'[s] \in Defs /\ json'[s].backup = asked'[s] /\ Provides(file'[s], asked'[s])
  <2>1. CASE asked[s] # Unset
    <3>1. PICK k \in lone : Settling(k, s)
      BY <1>1, <1>4, <2>1 DEF AgreeInv, SettleInv, AskedWorks
    <3>2. k = h /\ job[h].op = "backup" /\ job[h].at \in {"load", "apply"}
      BY <1>5, <3>1 DEF Settling
    <3>3. NotFound(h) \/ Load(h) \/ Apply(h)
      BY <3>2 DEF Serve, MakeDir, OpenJson, FillJson, OpenFile, FillFile, ReadToRegenerate,
         ReadToAppend, Insert, Reply, RemoveJson, RemoveFile, RemoveBackups, RemoveDir, At
    <3>4. ~NotFound(h)
      BY <1>4, <1>7 DEF NotFound, Unsettle
    <3>5. asked' = asked /\ json' = json /\ file' = file
      BY <3>3, <3>4 DEF Load, Apply, ghosts, disk
    <3>. QED
      BY <1>4, <2>1, <3>5 DEF AgreeInv, SettingsAgree
  <2>2. CASE asked[s] = Unset
    <3>1. Reply(h) \/ NotFound(h)
      BY <1>7, <2>2 DEF Serve, MakeDir, OpenJson, FillJson, OpenFile, FillFile,
         ReadToRegenerate, ReadToAppend, Insert, Load, Apply, RemoveJson, RemoveFile,
         RemoveBackups, RemoveDir, ghosts
    <3>2. Reply(h)
      BY <1>4, <1>7, <3>1 DEF NotFound, Unsettle
    <3>3. /\ job[h].op = "backup" /\ At(h, "reply") /\ json' = json /\ file' = file
          /\ asked'[s] = IF h \in lone THEN def[h].backup ELSE Unset
      BY <1>4, <1>7, <2>2, <3>2 DEF Reply, disk
    <3>4. h \in lone /\ asked'[s] = def[h].backup
      BY <1>7, <3>3
    <3>5. json[s] = def[h]
      BY <3>3, <3>4 DEF AgreeInv, JsonWorks, JsonWork
    <3>6. Provides(file[s], def[h].backup)
      BY <3>3, <3>4 DEF AgreeInv, SettleInv, LoneWorks, LoneWork, At
    <3>. QED
      BY <1>4, <3>3, <3>4, <3>5, <3>6
  <2>. QED
    BY <2>1, <2>2
<1>8. SettingsAgree'
  <2>. SUFFICES ASSUME NEW t \in Servers, asked'[t] # Unset
                PROVE  /\ json'[t] \in Defs /\ json'[t].backup = asked'[t]
                       /\ Provides(file'[t], asked'[t])
    BY DEF SettingsAgree, Provides, Sidecars
  <2>1. CASE t = s
    BY <1>7, <2>1
  <2>2. CASE t # s
    <3>1. json'[t] = json[t] /\ file'[t] = file[t] /\ asked'[t] = asked[t]
      BY <1>3, <2>2
    <3>. QED
      BY <3>1 DEF AgreeInv, SettingsAgree
  <2>. QED
    BY <2>1, <2>2
<1>. QED
  BY <1>6, <1>8 DEF JsonWorks

LEMMA AgreeFail ==
  ASSUME AgreeInv, NEW h \in Slots, Fail(h)
  PROVE  JsonWorks' /\ SettingsAgree'
<1>1. /\ Elsewhere(h) /\ lone' = lone \ {h} /\ json' = json /\ file' = file
      /\ asked' = [asked EXCEPT ![job[h].server] = Unset]
  BY FailShape DEF AgreeInv, SettleInv
<1>2. \A k \in Slots \ {h} : def'[k] = def[k] /\ job'[k] = job[k]
  BY <1>1, SettleFrame DEF AgreeInv, SettleInv, Elsewhere
<1>3. lone \subseteq Slots /\ asked \in [Servers -> Backups]
  BY LoneBusy DEF AgreeInv, SettleInv, TypeInv, TypeOK
<1>4. JsonWorks'
  BY <1>1, <1>2, <1>3 DEF AgreeInv, JsonWorks, JsonWork, At
<1>5. ASSUME NEW t \in Servers, asked'[t] # Unset
      PROVE  asked'[t] = asked[t]
  BY <1>1, <1>3, <1>5
<1>6. SettingsAgree'
  BY <1>1, <1>5 DEF AgreeInv, SettingsAgree, Provides, Sidecars
<1>. QED
  BY <1>4, <1>6

\* A crash leaves no set_backup at its files, and the files as they are.
LEMMA AgreeCrash ==
  ASSUME AgreeInv, Crash
  PROVE  JsonWorks' /\ SettingsAgree'
<1>1. /\ json' = json /\ file' = file
      /\ \A h \in Slots : \/ job'[h] = job[h] /\ At(h, "apply")
                          \/ job'[h].at = "idle"
  BY CrashShape DEF AgreeInv, SettleInv
<1>2. lone' \subseteq Slots /\ \A s \in Servers : asked'[s] \in {Unset, asked[s]}
  BY LoneBusy DEF Crash, AgreeInv, SettleInv
<1>3. JsonWorks'
  BY <1>1, <1>2 DEF JsonWorks, JsonWork, At
<1>4. SettingsAgree'
  BY <1>1, <1>2 DEF AgreeInv, SettingsAgree, Provides, Sidecars
<1>. QED
  BY <1>3, <1>4

LEMMA AgreeStep == AgreeInv /\ [Next]_vars => AgreeInv'
<1>. SUFFICES ASSUME AgreeInv, [Next]_vars PROVE AgreeInv'
  OBVIOUS
<1>1. SettleInv'
  BY SettleStep DEF AgreeInv
<1>2. CASE UNCHANGED vars
  BY <1>1, <1>2 DEF vars, AgreeInv, JsonWorks, JsonWork, SettingsAgree, Provides, Sidecars, At
<1>3. CASE Next
  BY <1>1, <1>3, AgreeBegin, AgreeServe, AgreeFail, AgreeCrash DEF Next, AgreeInv
<1>. QED
  BY <1>2, <1>3

\* For every instance: the backup settings that set_backup has answered for, and
\* no request has meddled with since, are in server.json and in the compose file.
THEOREM SettingsAreSaved == Spec => []SettingsAgree
<1>1. Init => AgreeInv
  BY TypeInit DEF Init, AgreeInv, SettleInv, LoneWorks, AskedWorks, JsonWorks, SettingsAgree
<1>2. AgreeInv => SettingsAgree
  BY DEF AgreeInv
<1>. QED
  BY <1>1, <1>2, AgreeStep, PTL DEF Spec

=============================================================================
