---------------------------- MODULE ComposeFile ----------------------------
(***************************************************************************)
(* The text of a docker-compose.yml as the panel sees it, and the          *)
(* functions that rewrite it (src/registry.rs and src/backup.rs).          *)
(*                                                                         *)
(* A text is a sequence of blocks.  The code tells apart no more than: the *)
(* service of the Minecraft server written from its template, with or      *)
(* without the GPU lines; the mc-backup sidecar, found by the comment line *)
(* above it; and what an operator wrote by hand.  Type, version and memory *)
(* of the server are part of its block: a block made from another takes    *)
(* them over, and extract_env finds them in every text with such a block.  *)
(***************************************************************************)
EXTENDS Integers, Sequences

CONSTANTS
  Configs,  \* backup settings that enable the sidecar
  Off,      \* backup settings that disable it; also: no sidecar runs
  Unset     \* no backup settings were ever saved

ASSUME ConfigAssumption == Off \notin Configs /\ Unset \notin Configs /\ Off # Unset

Backups == Configs \cup {Off, Unset}

Template(opencl) == [kind |-> "server", opencl |-> opencl]
Sidecar(cfg) == [kind |-> "backup", cfg |-> cfg]
Own == [kind |-> "own"]

\* The end of a longer text, where a shorter one was written over it by a
\* request that had opened the file before.
Remnant == [kind |-> "remnant"]

Blocks == {Template(opencl) : opencl \in BOOLEAN}
            \cup {Sidecar(cfg) : cfg \in Configs} \cup {Own, Remnant}
Texts == Seq(Blocks)

Has(text, kind) == \E i \in DOMAIN text : text[i].kind = kind

\* The place of the first block of a kind in a text that has one.
First(text, kind) ==
  CHOOSE i \in DOMAIN text :
    /\ text[i].kind = kind
    /\ \A j \in DOMAIN text : text[j].kind = kind => i <= j

\* What set_opencl takes for "our template": AUTOPAUSE_ENABLED occurs.
IsTemplate(text) == Has(text, "server")

\* A new file from the template: of the old one nothing but the type, version
\* and memory is kept.
Regenerate(opencl) == <<Template(opencl)>>

\* Everything from the marker to the end of the file goes.
StripBackup(text) ==
  IF Has(text, "backup") THEN SubSeq(text, 1, First(text, "backup") - 1) ELSE text

\* A variant of WithBackup (see ServerRegistry): a block that is there stays.
WithBackupUnstripped(text, backup) ==
  IF backup \in Configs THEN Append(text, Sidecar(backup)) ELSE StripBackup(text)

WithBackup(text, backup) ==
  IF backup \in Configs THEN Append(StripBackup(text), Sidecar(backup))
                        ELSE StripBackup(text)

\* The sidecar `docker compose up' finds in a text.
Sidecars(text) == {text[i].cfg : i \in {j \in DOMAIN text : text[j].kind = "backup"}}

\* What may be found of the sidecar's container: none, one that runs with these
\* settings, or one that `docker compose stop' has halted.
Halted(cfg) == [halted |-> cfg]
Containers == Configs \cup {Off} \cup {Halted(cfg) : cfg \in Configs}

Awake(container) ==
  IF container \in Configs \cup {Off} THEN container ELSE container.halted

\* Docker Compose takes no file without services or with cut-off lines.
Runnable(text) == text # <<>> /\ ~Has(text, "remnant")

\* Of the others, it is sure to take one made from the template alone.  A
\* sidecar depends on a service that may not be in the file, since sanitize and
\* sanitize_svc differ on some names and an operator may have named it at will.
Refusable(text) == ~Runnable(text) \/ Has(text, "backup") \/ Has(text, "own")

=============================================================================
