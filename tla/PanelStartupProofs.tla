------------------------- MODULE PanelStartupProofs -------------------------
(***************************************************************************)
(* What TLAPS proves of PanelStartup, however many certificates are issued.*)
(***************************************************************************)
EXTENDS PanelStartup, TLAPS

\* The inductive invariant.  It says more than StaleOnlyIfMissed of the time
\* between a reload and the removal of the flag, when the flag proves nothing.
RenewalInv ==
  /\ certbot \in {"idle", "hook"} => cert = key
  /\ watcher # "sleep" => phase = "https"
  /\ (watcher = "loaded" /\ hook /\ certbot = "idle" /\ FilesExist /\ serving # cert)
       => missed
  /\ StaleOnlyIfMissed

-----------------------------------------------------------------------------
(* Type correctness *)

\* The parts of TypeOK: what the panel is doing, and its data.
TypePhase ==
  /\ row \in {"none", "off", "on"}
  /\ phase \in {"down", "start", "wizard", "certbot", "save", "accounts",
                "cert", "key", "https", "http"}
  /\ certbot \in {"idle", "half", "hook"}
  /\ watcher \in {"sleep", "key", "loaded"}
  /\ phase = "https" => row = "on"
  /\ phase = "http" => row = "off"

TypeNumbers ==
  /\ cert \in Nat /\ key \in Nat /\ issued \in Nat
  /\ held \in Nat /\ serving \in Nat

TypeFlags ==
  /\ redo \in BOOLEAN /\ accounts \in BOOLEAN /\ hook \in BOOLEAN
  /\ standalone \in BOOLEAN /\ flag \in BOOLEAN /\ missed \in BOOLEAN

LEMMA TypeParts == TypeOK <=> TypePhase /\ TypeNumbers /\ TypeFlags
BY Zenon DEF TypeOK, TypePhase, TypeNumbers, TypeFlags

\* An accepted choice is in the database before the panel runs by it.
RowChosen ==
  /\ phase = "accounts" => row \in {"off", "on"}
  /\ phase \in {"cert", "key"} => row = "on"

LEMMA TypeInit == Init => TypeOK /\ RowChosen
<1>. SUFFICES ASSUME Init PROVE TypePhase /\ TypeNumbers /\ TypeFlags /\ RowChosen
  BY TypeParts
<1>1. TypePhase /\ RowChosen
  BY DEF Init, TypePhase, RowChosen
<1>2. TypeNumbers
  BY DEF Init, TypeNumbers
<1>3. TypeFlags
  BY Zenon DEF Init, TypeFlags
<1>. QED
  BY <1>1, <1>2, <1>3

LEMMA PhaseStep ==
  ASSUME TypePhase, RowChosen, [Next]_vars
  PROVE  TypePhase' /\ RowChosen'
<1>. USE DEF TypePhase, RowChosen
<1>1. CASE StartUp
  BY <1>1, Zenon DEF StartUp, Start, LoadConfig, Decline, Accept, RunCertbot, SaveConfig,
     CreateAdmin, WebSetup, Run, ReadCert, ReadKey, ours, load
<1>2. CASE Stop
  BY <1>2 DEF Stop
<1>3. CASE Watch
  BY <1>3 DEF Watch, Wake, Reload, RemoveFlag, ours
<1>4. CASE Renew \/ ChangeAuthenticator \/ LoseFiles
  BY <1>4 DEF Renew, RenewKey, RenewCert, RunHook, ChangeAuthenticator, LoseFiles, ours, load
<1>5. CASE UNCHANGED vars
  BY <1>5 DEF vars
<1>. QED
  BY <1>1, <1>2, <1>3, <1>4, <1>5 DEF Next

LEMMA NumbersStep ==
  ASSUME TypeNumbers, [Next]_vars
  PROVE  TypeNumbers'
<1>. USE DEF TypeNumbers
<1>0. 0 \in Nat /\ issued + 1 \in Nat
  OBVIOUS
<1>1. CASE StartUp
  BY <1>0, <1>1, Zenon DEF StartUp, Start, LoadConfig, Decline, Accept, RunCertbot,
     SaveConfig, CreateAdmin, WebSetup, Run, ReadCert, ReadKey, files, load
<1>2. CASE Stop \/ Watch
  BY <1>0, <1>2, Zenon DEF Stop, Watch, Wake, Reload, RemoveFlag, files
<1>3. CASE Renew \/ ChangeAuthenticator \/ LoseFiles
  BY <1>3 DEF Renew, RenewKey, RenewCert, RunHook, ChangeAuthenticator, LoseFiles, files, load
<1>4. CASE UNCHANGED vars
  BY <1>4 DEF vars
<1>. QED
  BY <1>1, <1>2, <1>3, <1>4 DEF Next

LEMMA FlagsStep ==
  ASSUME TypeFlags, [Next]_vars
  PROVE  TypeFlags'
<1>. USE DEF TypeFlags
<1>1. CASE StartUp
  BY <1>1, Zenon DEF StartUp, Start, LoadConfig, Decline, Accept, RunCertbot, SaveConfig,
     CreateAdmin, WebSetup, Run, ReadCert, ReadKey
<1>2. CASE Stop \/ Watch
  BY <1>2, Zenon DEF Stop, Watch, Wake, Reload, RemoveFlag, ours
<1>3. CASE Renew \/ ChangeAuthenticator \/ LoseFiles
  BY <1>3, Zenon DEF Renew, RenewKey, RenewCert, RunHook, ChangeAuthenticator, LoseFiles, ours
<1>4. CASE UNCHANGED vars
  BY <1>4, Zenon DEF vars
<1>. QED
  BY <1>1, <1>2, <1>3, <1>4, Zenon DEF Next

\* Type correctness, and that a panel that serves has saved how.
THEOREM TypeCorrect == Spec => []TypeOK
<1>1. TypeOK /\ RowChosen /\ [Next]_vars => (TypeOK /\ RowChosen)'
  <2>. SUFFICES ASSUME TypeOK, RowChosen, [Next]_vars PROVE (TypeOK /\ RowChosen)'
    OBVIOUS
  <2>1. TypePhase /\ TypeNumbers /\ TypeFlags
    BY TypeParts
  <2>2. (TypePhase /\ RowChosen /\ TypeNumbers /\ TypeFlags)'
    BY <2>1, PhaseStep, NumbersStep, FlagsStep
  <2>. QED
    BY <2>2, TypeParts, PTL
<1>. QED
  BY <1>1, TypeInit, PTL DEF Spec

-----------------------------------------------------------------------------
(* Renewals *)

LEMMA RenewalInit == Init => RenewalInv
BY DEF Init, RenewalInv, StaleOnlyIfMissed

\* Before it serves HTTPS the panel has no watcher, and no certificate to be old.
LEMMA RenewalStartUp ==
  ASSUME RenewalInv, StartUp \/ Stop
  PROVE  RenewalInv'
<1>. USE DEF RenewalInv, StaleOnlyIfMissed, FilesExist
<1>1. CASE ReadKey
  BY <1>1 DEF ReadKey, files
<1>2. CASE WebSetup
  BY <1>2 DEF WebSetup, files, load
<1>3. CASE Stop
  BY <1>3 DEF Stop, files
<1>4. CASE StartUp /\ phase # "https" /\ phase' # "https"
  BY <1>4 DEF StartUp, Start, LoadConfig, Decline, Accept, RunCertbot, SaveConfig,
     CreateAdmin, WebSetup, Run, ReadCert, ReadKey, files, load
<1>. QED
  BY <1>1, <1>2, <1>3, <1>4 DEF StartUp, Start, LoadConfig, Decline, Accept, RunCertbot,
     SaveConfig, CreateAdmin, Run, ReadCert

LEMMA RenewalStep ==
  ASSUME RenewalInv, [Next]_vars
  PROVE  RenewalInv'
<1>. USE DEF RenewalInv, StaleOnlyIfMissed, FilesExist
<1>1. CASE StartUp \/ Stop
  BY <1>1, RenewalStartUp
<1>2. CASE Wake
  BY <1>2 DEF Wake, ours, files
<1>3. CASE Reload
  BY <1>3 DEF Reload, ours, files
<1>4. CASE RemoveFlag
  BY <1>4 DEF RemoveFlag, ours, files
<1>5. CASE RenewKey \/ RenewCert
  BY <1>5 DEF RenewKey, RenewCert, ours, load
<1>6. CASE RunHook
  BY <1>6 DEF RunHook, ours, files, load
<1>7. CASE ChangeAuthenticator \/ LoseFiles
  BY <1>7 DEF ChangeAuthenticator, LoseFiles, ours, files, load
<1>8. CASE UNCHANGED vars
  BY <1>8 DEF vars
<1>. QED
  BY <1>1, <1>2, <1>3, <1>4, <1>5, <1>6, <1>7, <1>8 DEF Next, Watch, Renew

\* A certificate is old only while the flag is set, or when a hook came between
\* a reload and the removal of the flag.
THEOREM OldOnlyIfMissed == Spec => []StaleOnlyIfMissed
<1>1. RenewalInv => StaleOnlyIfMissed
  BY DEF RenewalInv
<1>2. RenewalInv /\ [Next]_vars => RenewalInv'
  BY RenewalStep
<1>. QED
  BY <1>1, <1>2, RenewalInit, PTL DEF Spec

=============================================================================
