---------------------------- MODULE Configuration ----------------------------
(***************************************************************************)
(* poetry.config and poetry config: settings in config.toml, poetry.toml    *)
(* and the environment, which several processes read, change and migrate    *)
(* without a lock.  A change reads the file twice, empties it and writes it;*)
(* when that fails, what was read first is written again.                   *)
(***************************************************************************)
EXTENDS Naturals, Sequences

CONSTANTS
  Keys,
  Repositories,   \* keys that name a repository
  Values,
  None,
  Defaults,       \* [Keys -> Values \cup {None}]
  Migrations,     \* CONFIG_MIGRATIONS: [old, new : Keys, values : the new value (None: UNSET) of each old one]
  Processes,
  Commands,       \* that are given
  Starts,         \* what is in the environment and the files at first
  MaxCommands,    \* bound: so many commands are given
  MaxFaults       \* bound: so many failures and crashes

Files == {"config.toml", "poetry.toml"}
Content == [Keys -> Values \cup {None}]

(* key and value are None where they do not matter; local stands for --local. *)
Command ==
  [kind : {"set", "unset", "get", "migrate"}, key : Keys \cup {None}, value : Values \cup {None},
   file : Files]

(* What is assumed of the constants: no migration is about a key of another.  *)
ConfigurationAssumption ==
  /\ None \notin Keys \cup Values
  /\ Defaults \in Content
  /\ Migrations \in Seq([old : Keys, new : Keys, values : [Values -> Values \cup {None}]])
  /\ \A i, j \in DOMAIN Migrations :
       /\ Migrations[i].old # Migrations[j].new
       /\ i # j => Migrations[i].old # Migrations[j].old /\ Migrations[i].new # Migrations[j].new
  /\ \A s \in Starts : s.env \in Content /\ s.files \in [Files -> Content]
  /\ Commands \subseteq Command
  /\ \A c \in Commands : c.kind # "migrate" => c.key \in Keys

VARIABLES
  env,
  files,
  process,
  commands,
  faults,
  meant,      \* what the commands that are done should have made of each file
  torn        \* files that two commands were at once about, or that a crash has left

vars == <<env, files, process, commands, faults, meant, torn>>

Nothing == [k \in Keys |-> None]
Idle ==
  [pc |-> "idle", command |-> None, merged |-> Nothing, initial |-> Nothing, work |-> Nothing,
   todo |-> << >>, pending |-> {}, answer |-> None]

Init ==
  /\ \E s \in Starts : env = s.env /\ files = s.files
  /\ process = [p \in Processes |-> Idle]
  /\ commands = 0 /\ faults = 0
  /\ meant = files /\ torn = {}

-----------------------------------------------------------------------------
(* Reading. *)

Over(lower, upper) == [k \in Keys |-> IF upper[k] # None THEN upper[k] ELSE lower[k]]

(* Config.merge(): create() merges config.toml into the defaults, and the   *)
(* command merges poetry.toml into that.                                    *)
(* Bug: what is there already is kept.                                      *)
BugKeepFirst(merged, content) ==
  [k \in Keys |-> IF merged[k] # Defaults[k] THEN merged[k] ELSE Over(merged, content)[k]]
Merge(merged, content) == Over(merged, content)

(* Config.get() *)
Get(merged, k) == IF env[k] # None THEN env[k] ELSE merged[k]

Goes(p, from, to) == process[p].pc = from /\ process' = [process EXCEPT ![p].pc = to]
CommandOf(p) == process[p].command
FileOf(p) == CommandOf(p).file
AtWork(p) == process[p].pc \notin {"idle", "done", "failed"}
Changes(c) == c.kind # "get"
Quiet == UNCHANGED <<env, commands>>
NoFault == UNCHANGED <<faults, torn>>

(* Two commands that change the same file get into each other's way.        *)
Meeting(p, c) ==
  {c.file : q \in {q \in Processes \ {p} : AtWork(q) /\ Changes(CommandOf(q)) /\ Changes(c) /\ FileOf(q) = c.file}}

Give(p, c) ==
  /\ ~ AtWork(p) /\ commands < MaxCommands
  /\ process' = [process EXCEPT ![p] = [Idle EXCEPT !.pc = IF c.kind = "migrate" THEN "check" ELSE "global",
                                                    !.command = c]]
  /\ commands' = commands + 1
  /\ torn' = torn \cup Meeting(p, c)
  /\ UNCHANGED <<env, files, meant, faults>>

LoadGlobal(p) ==
  /\ process[p].pc = "global"
  /\ process' = [process EXCEPT ![p].pc = "local", ![p].merged = Merge(Defaults, files["config.toml"])]
  /\ UNCHANGED <<files, meant>> /\ Quiet /\ NoFault

AnswerTo(c, merged) == IF c.kind = "get" THEN Get(merged, c.key) ELSE None
ChangesOf(c) == IF c.kind = "get" THEN << >> ELSE << [key |-> c.key, value |-> c.value] >>
AfterLocal(c, merged) ==
  CASE c.kind = "get" -> "done"
    [] c.kind = "unset" /\ c.key \in Repositories /\ Get(merged, c.key) = None -> "failed"
    [] OTHER -> "read"

(* The rest of handle() up to the change of a file.                         *)
LoadLocal(p) ==
  /\ process[p].pc = "local"
  /\ LET merged == Merge(process[p].merged, files["poetry.toml"])
         c == CommandOf(p)
     IN process' = [process EXCEPT ![p].merged = merged,
          ![p].answer = AnswerTo(c, merged),
          ![p].todo = ChangesOf(c),
          ![p].pc = AfterLocal(c, merged)]
  /\ UNCHANGED <<files, meant>> /\ Quiet /\ NoFault

-----------------------------------------------------------------------------
(* FileConfigSource: todo is what add_property() (a value) and              *)
(* remove_property() (None) are called for, one after the other.            *)

Changed(content, change) == [content EXCEPT ![change.key] = change.value]

(* secure(): the file is read twice.                                        *)
ReadInitial(p) ==
  /\ process[p].pc = "read"
  /\ process' = [process EXCEPT ![p].pc = "again", ![p].initial = files[FileOf(p)]]
  /\ UNCHANGED <<files, meant>> /\ Quiet /\ NoFault

ReadAgain(p) ==
  /\ process[p].pc = "again"
  /\ process' = [process EXCEPT ![p].pc = "empty", ![p].work = Changed(files[FileOf(p)], Head(process[p].todo))]
  /\ UNCHANGED <<files, meant>> /\ Quiet /\ NoFault

Empty(p) ==
  /\ Goes(p, "empty", "write")
  /\ files' = [files EXCEPT ![FileOf(p)] = Nothing]
  /\ UNCHANGED meant /\ Quiet /\ NoFault

(* What a command that is not disturbed makes of a file: a migration moves  *)
(* each old setting to the new key, if it has a value there.                *)
Moved(i, content) ==
  LET old == content[Migrations[i].old]
  IN IF old = None THEN None ELSE Migrations[i].values[old]

Migrated(content) == [k \in Keys |->
  LET arriving == {i \in DOMAIN Migrations : Migrations[i].new = k /\ Moved(i, content) # None}
  IN IF \E i \in DOMAIN Migrations : Migrations[i].old = k THEN None
     ELSE IF arriving = {} THEN content[k] ELSE Moved(CHOOSE i \in arriving : TRUE, content)]

Meant(c, content) ==
  IF c.kind = "migrate" THEN Migrated(content) ELSE Changed(content, c)

IsLast(p) == Len(process[p].todo) = 1 /\ CommandOf(p).kind # "migrate"

Write(p) ==
  /\ process[p].pc = "write"
  /\ files' = [files EXCEPT ![FileOf(p)] = process[p].work]
  /\ process' = [process EXCEPT ![p].pc = IF IsLast(p) THEN "done"
                                          ELSE IF Len(process[p].todo) = 1 THEN "migrate" ELSE "read",
                                ![p].todo = Tail(@)]
  /\ meant' = IF IsLast(p) THEN [meant EXCEPT ![FileOf(p)] = Meant(CommandOf(p), @)] ELSE meant
  /\ Quiet /\ NoFault

(* The disk is full, say.                                                   *)
WriteFails(p) ==
  /\ Goes(p, "write", "restore")
  /\ faults < MaxFaults /\ faults' = faults + 1
  /\ torn' = IF CommandOf(p).kind = "migrate" THEN torn \cup {FileOf(p)} ELSE torn
  /\ UNCHANGED <<files, meant>> /\ Quiet

(* Bug: what should have been written is written.                           *)
BugWriteAgain(p) == process[p].work

Restored(p) == process[p].initial

Restore(p) ==
  /\ Goes(p, "restore", "failed")
  /\ files' = [files EXCEPT ![FileOf(p)] = Restored(p)]
  /\ UNCHANGED meant /\ Quiet /\ NoFault

-----------------------------------------------------------------------------
(* poetry config --migrate: the migrations that are needed are found first, *)
(* and then each of them looks for its old key again.                       *)

Required(content) == {i \in DOMAIN Migrations : content[Migrations[i].old] # None}

(* pending: the migrations that are left to be applied.                     *)
Check(p) ==
  /\ process[p].pc = "check"
  /\ process' = [process EXCEPT ![p].pc = "migrate", ![p].pending = Required(files[FileOf(p)])]
  /\ UNCHANGED <<files, meant>> /\ Quiet /\ NoFault

Removal(m) == [key |-> m.old, value |-> None]
Addition(m, old) == [key |-> m.new, value |-> m.values[old]]

(* Bug: the new key only.                                                   *)
BugKeepOld(m, old) == IF m.values[old] = None THEN << >> ELSE << Addition(m, old) >>

(* apply(): the old key is removed, and then the new one is added.          *)
Apply(m, old) == IF m.values[old] = None THEN << Removal(m) >> ELSE << Removal(m), Addition(m, old) >>

NextOf(pending) == CHOOSE i \in pending : \A j \in pending : i <= j

Migrate(p) ==
  /\ process[p].pc = "migrate" /\ process[p].pending # {}
  /\ LET i == NextOf(process[p].pending)
         m == Migrations[i]
         old == files[FileOf(p)][m.old]
         todo == IF old = None THEN << >> ELSE Apply(m, old)
     IN process' = [process EXCEPT ![p].pending = @ \ {i}, ![p].todo = todo,
                                   ![p].pc = IF todo = << >> THEN "migrate" ELSE "read"]
  /\ UNCHANGED <<files, meant>> /\ Quiet /\ NoFault

MigrateEnds(p) ==
  /\ Goes(p, "migrate", "done") /\ process[p].pending = {}
  /\ meant' = [meant EXCEPT ![FileOf(p)] = Meant(CommandOf(p), @)]
  /\ UNCHANGED files /\ Quiet /\ NoFault

(* A migration that stops between two changes leaves the first of them.     *)
Crash(p) ==
  /\ AtWork(p)
  /\ faults < MaxFaults /\ faults' = faults + 1
  /\ process' = [process EXCEPT ![p] = Idle]
  /\ torn' = IF process[p].pc \in {"write", "restore"} \/ CommandOf(p).kind = "migrate"
             THEN torn \cup {FileOf(p)} ELSE torn
  /\ UNCHANGED <<files, meant>> /\ Quiet

Step(p) ==
  \/ LoadGlobal(p) \/ LoadLocal(p)
  \/ ReadInitial(p) \/ ReadAgain(p) \/ Empty(p) \/ Write(p) \/ Restore(p)
  \/ Check(p) \/ Migrate(p) \/ MigrateEnds(p)

Next ==
  \E p \in Processes :
    \/ \E c \in Commands : Give(p, c)
    \/ Step(p) \/ WriteFails(p) \/ Crash(p)

Spec == Init /\ [][Next]_vars
-----------------------------------------------------------------------------
TypeOK ==
  /\ files \in [Files -> Content] /\ meant \in [Files -> Content]
  /\ torn \subseteq Files
  /\ \A p \in Processes : process[p].initial \in Content /\ process[p].work \in Content

IsBeingWritten(f) == \E p \in Processes : AtWork(p) /\ Changes(CommandOf(p)) /\ FileOf(p) = f

(* Settings are lost only when commands meet in a file or die in it, or a   *)
(* migration fails between two changes: otherwise a                         *)
(* change that fails leaves the file as it was, one that is done has made   *)
(* exactly its change, and a migration has moved every old setting.         *)
SettingsLast ==
  \A f \in Files : ~ IsBeingWritten(f) /\ f \notin torn => files[f] = meant[f]

Given(k, v) ==
  \/ v = None
  \/ \E s \in Starts, f \in Files : s.files[f][k] = v
  \/ \E c \in Commands : c.key = k /\ c.value = v
  \/ \E i \in DOMAIN Migrations : Migrations[i].new = k /\ \E w \in Values : Migrations[i].values[w] = v

(* Whoever meets, no file has a value that nobody has given.                *)
NothingInvented == \A f \in Files, k \in Keys : Given(k, files[f][k])

(* The answer is that of the environment, else of poetry.toml, else of      *)
(* config.toml, and else the default.                                       *)
LocalGoesFirst ==
  \A p \in Processes :
    process[p].pc = "done" /\ CommandOf(p).kind = "get" /\ commands = 1 =>
      LET k == CommandOf(p).key
          places == <<env[k], files["poetry.toml"][k], files["config.toml"][k], Defaults[k]>>
      IN \E i \in 1 .. 4 :
           /\ process[p].answer = places[i] /\ (places[i] # None \/ i = 4)
           /\ \A j \in 1 .. i - 1 : places[j] = None

ConfigIsKept == TypeOK /\ SettingsLast /\ NothingInvented /\ LocalGoesFirst
==============================================================================
