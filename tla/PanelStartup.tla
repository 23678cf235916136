---------------------------- MODULE PanelStartup ----------------------------
(***************************************************************************)
(* The start of the panel (src/main.rs), the TLS wizard and the row it     *)
(* leaves in the database (src/setup.rs), and the renewal of certificates: *)
(* certbot, which renews them on a timer of its own, and the task of the   *)
(* panel that reloads them.                                                *)
(*                                                                         *)
(*   panel    down -> start (-> wizard (-> certbot -> save)) -> accounts   *)
(*            -> http, or cert -> key -> https                             *)
(*   watcher  sleep -> key (-> loaded) -> sleep                            *)
(*   certbot  idle -> half -> hook -> idle                                 *)
(*                                                                         *)
(* A certificate and its key are two files, which the panel reads and      *)
(* certbot replaces one after the other.  certbot then runs the deploy     *)
(* hook the wizard has installed, which touches the flag config/           *)
(* cert_renewed; every 12 hours the watcher looks for it, reloads both     *)
(* files and removes it.  A pair is numbered by its issue; rustls refuses  *)
(* a certificate and a key that are not a pair.                            *)
(***************************************************************************)
EXTENDS Integers

CONSTANT IssueBound   \* bound: no more certificates are issued than this

ASSUME BoundAssumption == IssueBound \in Nat

VARIABLES
  row,       \* the row of tls_config: "none", or enabled "off" or "on"
  phase,     \* where the panel is
  redo,      \* this start was given --reconfigure, and no wizard has run yet
  accounts,  \* whether there is a user account
  cert, key, \* the pair on disk, by number; 0 is no file
  issued,    \* the number of pairs issued
  hook,      \* whether the deploy hook is installed
  standalone,\* whether certbot answers challenges on a port of its own
  certbot,   \* where a renewal is
  flag,      \* whether config/cert_renewed exists
  watcher,   \* where the watcher is
  held,      \* the certificate a load has read and not yet its key
  serving,   \* the pair the panel serves
  missed     \* history: a hook ran between the last reload and the removal of
             \*          the flag

files == <<cert, key, issued>>
ours  == <<row, phase, redo, accounts>>
load  == <<watcher, held, serving>>
vars  == <<row, phase, redo, accounts, cert, key, issued, hook, standalone,
           certbot, flag, watcher, held, serving, missed>>

-----------------------------------------------------------------------------
Serving == phase \in {"http", "https"}

FilesExist == cert # 0 /\ key # 0

-----------------------------------------------------------------------------
(* Variants of the actions below that each contain a mistake the code could *)
(* contain.  No action uses them: they stand in for the action of the same  *)
(* first name when a property is tested against that mistake.               *)

\* The choice against HTTPS is not saved.
DeclineUnsaved ==
  /\ phase = "wizard"
  /\ phase' = "accounts"
  /\ UNCHANGED <<row, redo, accounts, files, hook, standalone, certbot, flag, load, missed>>

\* The flag is removed whatever comes of the reload.
ReloadUnchecked ==
  /\ phase = "https" /\ watcher = "key"
  /\ held' = 0
  /\ watcher' = "loaded"
  /\ serving' = IF key = held THEN held ELSE serving
  /\ missed' = (missed /\ key # held)
  /\ UNCHANGED <<ours, files, hook, standalone, certbot, flag>>

\* The watcher ends when a reload fails.
ReloadOrEnd ==
  /\ phase = "https" /\ watcher = "key"
  /\ held' = 0
  /\ IF key = held
     THEN watcher' = "loaded" /\ serving' = held /\ missed' = FALSE
     ELSE watcher' = "ended" /\ UNCHANGED <<serving, missed>>
  /\ UNCHANGED <<ours, files, hook, standalone, certbot, flag>>

-----------------------------------------------------------------------------
\* A fresh installation.
Init ==
  /\ row = "none" /\ phase = "down" /\ redo = FALSE /\ accounts = FALSE
  /\ cert = 0 /\ key = 0 /\ issued = 0
  /\ hook = FALSE /\ standalone = FALSE /\ certbot = "idle" /\ flag = FALSE
  /\ watcher = "sleep" /\ held = 0 /\ serving = 0 /\ missed = FALSE

\* With --reconfigure, main saves a disabled row before anything else.
Start(reconfigure) ==
  /\ phase = "down"
  /\ phase' = "start"
  /\ row' = IF reconfigure THEN "off" ELSE row
  /\ redo' = reconfigure
  /\ UNCHANGED <<accounts, files, hook, standalone, certbot, flag, load, missed>>

\* load_or_run_wizard: the wizard runs without a row, or without the files of
\* an enabled one.
LoadConfig ==
  /\ phase = "start"
  /\ IF row = "off" \/ (row = "on" /\ FilesExist)
     THEN phase' = "accounts" /\ UNCHANGED redo
     ELSE phase' = "wizard" /\ redo' = FALSE
  /\ UNCHANGED <<row, accounts, files, hook, standalone, certbot, flag, load, missed>>

\* No HTTPS, or not now.
Decline ==
  /\ phase = "wizard"
  /\ row' = "off" /\ phase' = "accounts"
  /\ UNCHANGED <<redo, accounts, files, hook, standalone, certbot, flag, load, missed>>

\* certbot is there, a domain is given and the certificate is to be obtained now.
Accept ==
  /\ phase = "wizard"
  /\ phase' = "certbot"
  /\ UNCHANGED <<row, redo, accounts, files, hook, standalone, certbot, flag, load, missed>>

\* run_certbot: a new pair, unless there is one already; then the hook, which
\* may fail to be written.
RunCertbot ==
  /\ phase = "certbot" /\ certbot = "idle"
  /\ IF FilesExist
     THEN UNCHANGED <<files, standalone>>
     ELSE /\ issued < IssueBound
          /\ issued' = issued + 1 /\ cert' = issued + 1 /\ key' = issued + 1
          /\ standalone' = TRUE
  /\ hook' \in {hook, TRUE}
  /\ phase' = "save"
  /\ UNCHANGED <<row, redo, accounts, certbot, flag, load, missed>>

SaveConfig ==
  /\ phase = "save"
  /\ row' = "on" /\ phase' = "accounts"
  /\ UNCHANGED <<redo, accounts, files, hook, standalone, certbot, flag, load, missed>>

\* run_account_wizard, with --cli-setup and no account yet.
CreateAdmin ==
  /\ phase = "accounts" /\ ~accounts
  /\ accounts' = TRUE
  /\ UNCHANGED <<row, phase, redo, files, hook, standalone, certbot, flag, load, missed>>

\* setup_create, from the page /setup.
WebSetup ==
  /\ Serving /\ ~accounts
  /\ accounts' = TRUE
  /\ UNCHANGED <<row, phase, redo, files, hook, standalone, certbot, flag, load, missed>>

\* run_https or run_http.
Run ==
  /\ phase = "accounts"
  /\ phase' = IF row = "on" THEN "cert" ELSE "http"
  /\ UNCHANGED <<row, redo, accounts, files, hook, standalone, certbot, flag, load, missed>>

\* RustlsConfig::from_pem_file: without a pair main panics, which is a Stop.
ReadCert ==
  /\ phase = "cert" /\ cert # 0
  /\ held' = cert /\ phase' = "key"
  /\ UNCHANGED <<row, redo, accounts, files, hook, standalone, certbot, flag,
                 watcher, serving, missed>>

ReadKey ==
  /\ phase = "key" /\ key = held
  /\ serving' = held /\ held' = 0 /\ phase' = "https"
  /\ UNCHANGED <<row, redo, accounts, files, hook, standalone, certbot, flag,
                 watcher, missed>>

\* The panel stops: it is killed, it exits (no certbot, no domain), or main
\* panics (certbot fails, no pair can be loaded, a port cannot be bound).
Stop ==
  /\ phase # "down"
  /\ phase' = "down" /\ redo' = FALSE
  /\ watcher' = "sleep" /\ held' = 0 /\ serving' = 0 /\ missed' = FALSE
  /\ UNCHANGED <<row, accounts, files, hook, standalone, certbot, flag>>

-----------------------------------------------------------------------------
\* watch_cert_renewal finds the flag and reads the certificate ...
Wake ==
  /\ phase = "https" /\ watcher = "sleep" /\ flag /\ cert # 0
  /\ held' = cert /\ watcher' = "key"
  /\ UNCHANGED <<ours, files, hook, standalone, certbot, flag, serving, missed>>

\* ... and the key.  If they are no pair the flag stays for the next time.
Reload ==
  /\ phase = "https" /\ watcher = "key"
  /\ held' = 0
  /\ IF key = held
     THEN watcher' = "loaded" /\ serving' = held /\ missed' = FALSE
     ELSE watcher' = "sleep" /\ UNCHANGED <<serving, missed>>
  /\ UNCHANGED <<ours, files, hook, standalone, certbot, flag>>

\* An error of remove_file is ignored.
RemoveFlag ==
  /\ phase = "https" /\ watcher = "loaded"
  /\ flag' \in {FALSE, flag}
  /\ watcher' = "sleep"
  /\ UNCHANGED <<ours, files, hook, standalone, certbot, held, serving, missed>>

-----------------------------------------------------------------------------
\* certbot renew: standalone needs the port that a serving panel listens on.
RenewKey ==
  /\ certbot = "idle" /\ FilesExist /\ phase # "certbot"
  /\ standalone => ~Serving
  /\ issued < IssueBound
  /\ issued' = issued + 1 /\ key' = issued + 1
  /\ certbot' = "half"
  /\ UNCHANGED <<ours, cert, hook, standalone, flag, load, missed>>

RenewCert ==
  /\ certbot = "half"
  /\ cert' = key /\ certbot' = "hook"
  /\ UNCHANGED <<ours, key, issued, hook, standalone, flag, load, missed>>

RunHook ==
  /\ certbot = "hook"
  /\ flag' = (flag \/ hook) /\ certbot' = "idle"
  /\ missed' = (missed \/ (hook /\ watcher = "loaded"))
  /\ UNCHANGED <<ours, files, hook, standalone, load>>

\* The operator has certbot answer challenges in another way, or the pair is
\* lost (a move to another machine, a lineage deleted).
ChangeAuthenticator ==
  /\ standalone
  /\ standalone' = FALSE
  /\ UNCHANGED <<ours, files, hook, certbot, flag, load, missed>>

LoseFiles ==
  /\ certbot = "idle" /\ FilesExist /\ phase # "certbot"
  /\ cert' = 0 /\ key' = 0
  /\ UNCHANGED <<ours, issued, hook, standalone, certbot, flag, load, missed>>

-----------------------------------------------------------------------------
StartUp ==
  \/ \E reconfigure \in BOOLEAN : Start(reconfigure)
  \/ LoadConfig \/ Decline \/ Accept \/ RunCertbot \/ SaveConfig
  \/ CreateAdmin \/ WebSetup \/ Run \/ ReadCert \/ ReadKey

Watch == Wake \/ Reload \/ RemoveFlag

Renew == RenewKey \/ RenewCert \/ RunHook

Next == StartUp \/ Stop \/ Watch \/ Renew \/ ChangeAuthenticator \/ LoseFiles

Spec == Init /\ [][Next]_vars

\* The watcher is a loop that only sleeps, and a renewal that has replaced one
\* file goes on.  Nothing is assumed of the operator or of certbot's timer.
FairSpec == Spec /\ WF_vars(Watch) /\ WF_vars(RenewCert \/ RunHook)

-----------------------------------------------------------------------------
\* Every variable has its type, and a panel that serves has saved how.
TypeOK ==
  /\ row \in {"none", "off", "on"}
  /\ phase \in {"down", "start", "wizard", "certbot", "save", "accounts",
                "cert", "key", "https", "http"}
  /\ redo \in BOOLEAN /\ accounts \in BOOLEAN
  /\ cert \in Nat /\ key \in Nat /\ issued \in Nat
  /\ hook \in BOOLEAN /\ standalone \in BOOLEAN
  /\ certbot \in {"idle", "half", "hook"}
  /\ flag \in BOOLEAN
  /\ watcher \in {"sleep", "key", "loaded"}
  /\ held \in Nat /\ serving \in Nat
  /\ missed \in BOOLEAN
  /\ phase = "https" => row = "on"
  /\ phase = "http" => row = "off"

\* However a renewal and a reload interleave, a panel that serves an old
\* certificate when certbot is at rest will find the flag and reload, unless a
\* hook ran between a reload and the removal of the flag.
StaleOnlyIfMissed ==
  phase = "https" /\ hook /\ certbot = "idle" /\ FilesExist /\ serving # cert
    => flag \/ missed

\* A renewal is served in the end, although reloads fail while it is half done.
RenewalIsServed ==
  (phase = "https" /\ flag)
    ~> (phase # "https" \/ serving = cert \/ ~FilesExist \/ missed)

\* "If --reconfigure flag passed, clear the TLS row so the wizard re-runs."
ReconfigureRunsWizard == redo => phase \in {"start", "wizard"}

=============================================================================
