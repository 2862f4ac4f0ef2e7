----------------------------- MODULE PslRefresh -----------------------------
(***************************************************************************)
(* How the public-suffix list is kept current (src/psl.rs): the start      *)
(* loads a file, or downloads it, or falls back to the embedded list; a    *)
(* ticker downloads a stale file again; a file watcher and SIGHUP load     *)
(* what the file holds.  The gateway may crash between any two steps, and  *)
(* the operator replaces or removes the file, whole, at any time.          *)
(*                                                                         *)
(* The watcher is taken to follow the path: it reports every file put      *)
(* there.                                                                  *)
(***************************************************************************)
EXTENDS Suffix

CONSTANTS
  Configs,   \* the configurations explored
  Lists,     \* what the file of a configuration without updates may hold
  Operated,  \* what the operator puts there in the others
  Served,    \* what the server has
  MaxVersion, MaxCrashes, MaxHangups,  \* bounds
  NoFile, Torn, Idle

PslConfig == [auto_update : BOOLEAN, auto_reload : BOOLEAN, check : BOOLEAN]
List == [v : 0 .. MaxVersion, rules : SUBSET Rule, by : {"operator", "download", "embedded"}]

ASSUME RefreshAssumption ==
  /\ Configs \subseteq PslConfig
  /\ Lists \cup Operated \cup Served \subseteq SUBSET Rule
  /\ {MaxVersion, MaxCrashes, MaxHangups} \subseteq Nat
  /\ \A none \in {NoFile, Torn, Idle} : none \notin List

VARIABLES
  cfg,       \* PslConfig, for source = "file"
  file,      \* what is at cfg.path
  stale,     \* its age exceeds max_age
  tmp,       \* what is at the staging path
  version,   \* the latest version anybody wrote
  crashes,
  pc,        \* "down", "fetch", "load", "fallback", "arm", "up" or "failed"
  found,     \* file_age found a file when the gateway started
  download,  \* download_and_save: "idle", "asked", "stage", "rename"
  data,      \* what it downloaded
  active,    \* the list in effect
  watching,  \* the watcher is armed
  events,    \* notifications it has queued
  hangup,    \* a SIGHUP is pending
  hangups,
  reload,    \* "watcher", "sighup" -> what the reload has read, or Idle
  announced  \* history: the watcher saw the file now at cfg.path arrive, and
             \* no SIGHUP put an older list in after it was done

disk == <<cfg, file, stale, tmp, version, crashes>>
loader == <<pc, found>>
fetcher == <<download, data>>
reloads == <<active, watching, events, hangup, hangups, reload>>
vars == <<disk, loader, fetcher, reloads, announced>>

Embedded == [v |-> 0, rules |-> EMBEDDED_LIST, by |-> "embedded"]
Parses(f) == f # NoFile /\ f # Torn /\ HasRules(f.rules)
(* from_file asks for less than replace_from_bytes. *)
Replaces(f) == Parses(f) /\ PassesSanity(f.rules)
Next1(v) == Min({v + 1, MaxVersion})

(* A configuration that neither updates nor reloads: nobody replaces its file. *)
Static == ~cfg.auto_update /\ ~cfg.auto_reload

Init ==
  /\ cfg \in Configs
  /\ file \in {NoFile} \cup [v : {0}, rules : IF Static THEN Lists ELSE Operated, by : {"operator"}]
  /\ version = (IF Static THEN MaxVersion ELSE 0)
  /\ stale \in BOOLEAN /\ (file = NoFile => ~stale)
  /\ tmp = NoFile /\ crashes = 0
  /\ pc = "down" /\ found = FALSE /\ download = "idle" /\ data = NoFile
  /\ active = Embedded /\ watching = FALSE /\ events = 0 /\ hangup = FALSE /\ hangups = 0
  /\ reload = [j \in {"watcher", "sighup"} |-> Idle] /\ announced = FALSE

-----------------------------------------------------------------------------
(* The file system reports a file that appears at the path. *)
Arrives(f) ==
  /\ file' = f /\ stale' = FALSE
  /\ events' = IF watching THEN events + 1 ELSE events
  /\ announced' = watching
Room == events <= MaxVersion

OperatorReplaces ==
  /\ version < MaxVersion /\ Room
  /\ \E c \in Operated : Arrives([v |-> version + 1, rules |-> c, by |-> "operator"])
  /\ version' = version + 1
  /\ UNCHANGED <<cfg, tmp, crashes, loader, fetcher, active, watching, hangup, hangups, reload>>

OperatorRemoves ==
  /\ file # NoFile /\ version < MaxVersion
  /\ file' = NoFile /\ stale' = FALSE /\ version' = version + 1 /\ announced' = FALSE
  /\ UNCHANGED <<cfg, tmp, crashes, loader, fetcher, reloads>>

Age ==
  /\ file # NoFile /\ ~stale /\ stale' = TRUE
  /\ UNCHANGED <<cfg, file, tmp, version, crashes, loader, fetcher, reloads, announced>>

-----------------------------------------------------------------------------
(* load_initial, and init *)
Start ==
  /\ pc = "down"
  /\ found' = (file # NoFile)
  /\ IF cfg.auto_update /\ (file = NoFile \/ stale)
     THEN pc' = "fetch" /\ download' = "asked" ELSE pc' = "load" /\ UNCHANGED download
  /\ UNCHANGED <<disk, data, reloads, announced>>

(* A failed download is no reason not to start. *)
Returns(done) ==
  /\ download' = "idle" /\ data' = NoFile
  /\ pc' = IF pc # "fetch" THEN pc ELSE IF done \/ found THEN "load" ELSE "fallback"

Load ==
  /\ pc = "load"
  /\ IF Parses(file) THEN active' = file /\ pc' = "arm" ELSE pc' = "failed" /\ UNCHANGED active
  /\ UNCHANGED <<disk, found, fetcher, watching, events, hangup, hangups, reload, announced>>

Fallback ==
  /\ pc = "fallback"
  /\ active' = Embedded /\ pc' = "arm"
  /\ UNCHANGED <<disk, found, fetcher, watching, events, hangup, hangups, reload, announced>>

Arm ==
  /\ pc = "arm"
  /\ watching' = (cfg.auto_reload /\ file # NoFile)
  /\ pc' = "up"
  /\ UNCHANGED <<disk, found, fetcher, active, events, hangup, hangups, reload, announced>>

-----------------------------------------------------------------------------
(* download_and_save *)

(* A mutant: the file is saved before it is validated. *)
AnswerUnvalidated ==
  /\ download = "asked"
  /\ \E c \in Served : data' = [v |-> Next1(version), rules |-> c, by |-> "download"]
  /\ version' = Next1(version) /\ download' = "stage"
  /\ UNCHANGED <<cfg, file, stale, tmp, crashes, loader, reloads, announced>>
(* A response that parses.  Any other fails the download. *)
Answer ==
  /\ download = "asked"
  /\ \E c \in Served : HasRules(c) /\ data' = [v |-> Next1(version), rules |-> c, by |-> "download"]
  /\ version' = Next1(version) /\ download' = "stage"
  /\ UNCHANGED <<cfg, file, stale, tmp, crashes, loader, reloads, announced>>

(* The request, the validation, the write or the rename failed. *)
DownloadFails ==
  /\ download # "idle"
  /\ Returns(FALSE)
  /\ UNCHANGED <<disk, found, reloads, announced>>

(* save_to_file: the staging file is torn until it is written. *)
Stage ==
  /\ download = "stage"
  /\ \/ tmp # Torn /\ tmp' = Torn /\ UNCHANGED download
     \/ tmp = Torn /\ tmp' = data /\ download' = "rename"
  /\ UNCHANGED <<cfg, file, stale, version, crashes, loader, data, reloads, announced>>

Rename ==
  /\ download = "rename" /\ Room
  /\ Arrives(tmp) /\ tmp' = NoFile
  /\ Returns(TRUE)
  /\ UNCHANGED <<cfg, version, crashes, found, active, watching, hangup, hangups, reload>>

(* A mutant: only a missing file is fetched again. *)
TickMissing ==
  /\ pc = "up" /\ cfg.auto_update /\ cfg.check /\ download = "idle"
  /\ file = NoFile
  /\ download' = "asked"
  /\ UNCHANGED <<disk, loader, data, reloads, announced>>
(* spawn_update_task *)
Tick ==
  /\ pc = "up" /\ cfg.auto_update /\ cfg.check /\ download = "idle"
  /\ file # NoFile /\ stale
  /\ download' = "asked"
  /\ UNCHANGED <<disk, loader, data, reloads, announced>>

-----------------------------------------------------------------------------
(* The two reload tasks: read the file, then swap the list in. *)
Hangup ==
  /\ pc = "up" /\ hangups < MaxHangups
  /\ hangup' = TRUE /\ hangups' = hangups + 1
  /\ UNCHANGED <<disk, loader, fetcher, active, watching, events, reload, announced>>

ReadFor(j) == reload[j] = Idle /\ reload' = [reload EXCEPT ![j] = file]

(* A mutant: the events that came during a reload are taken for answered. *)
WatcherDrains ==
  /\ pc = "up" /\ events > 0
  /\ IF reload["watcher"] = Idle THEN ReadFor("watcher") /\ events' = events - 1
     ELSE events' = 0 /\ UNCHANGED reload
  /\ UNCHANGED <<disk, loader, fetcher, active, watching, hangup, hangups, announced>>
WatcherReads ==
  /\ pc = "up" /\ events > 0 /\ ReadFor("watcher")
  /\ events' = events - 1
  /\ UNCHANGED <<disk, loader, fetcher, active, watching, hangup, hangups, announced>>

SighupReads ==
  /\ pc = "up" /\ hangup /\ ReadFor("sighup")
  /\ hangup' = FALSE
  /\ UNCHANGED <<disk, loader, fetcher, active, watching, events, hangups, announced>>

(* For the history: the reload that swaps last read first. *)
Overtaken(j) ==
  /\ j = "sighup" /\ reload[j] # file /\ Replaces(reload[j])
  /\ events = 0 /\ reload["watcher"] = Idle
Swap(j) ==
  /\ reload[j] # Idle
  /\ reload' = [reload EXCEPT ![j] = Idle]
  /\ active' = IF Replaces(reload[j]) THEN reload[j] ELSE active
  /\ announced' = (announced /\ ~Overtaken(j))
  /\ UNCHANGED <<disk, loader, fetcher, watching, events, hangup, hangups>>

(* The files stay. *)
Crash ==
  /\ pc # "down" /\ crashes < MaxCrashes
  /\ crashes' = crashes + 1 /\ pc' = "down" /\ found' = FALSE
  /\ download' = "idle" /\ data' = NoFile /\ active' = Embedded
  /\ watching' = FALSE /\ events' = 0 /\ hangup' = FALSE
  /\ reload' = [j \in DOMAIN reload |-> Idle] /\ announced' = FALSE
  /\ UNCHANGED <<cfg, file, stale, tmp, version, hangups>>

Operator == OperatorReplaces \/ OperatorRemoves \/ Age \/ Hangup
Gateway == Start \/ Load \/ Fallback \/ Arm \/ Answer \/ DownloadFails \/ Stage \/ Rename
           \/ Tick \/ WatcherReads \/ SighupReads \/ \E j \in DOMAIN reload : Swap(j)
Rest == pc \in {"failed", "up"} /\ UNCHANGED vars

Next == Operator \/ Gateway \/ Crash \/ Rest
Spec == Init /\ [][Next]_vars

(* The ticker ticks; a download that keeps being tried succeeds some time. *)
FairSpec == /\ Spec /\ WF_vars(Start \/ Load \/ Fallback \/ Arm) /\ WF_vars(Tick)
            /\ SF_vars(Answer) /\ SF_vars(Stage) /\ SF_vars(Rename)
            /\ WF_vars(WatcherReads) /\ WF_vars(\E j \in DOMAIN reload : Swap(j))

-----------------------------------------------------------------------------
(* Every variable has its type; the path never holds half a list.          *)
TypeOK ==
  /\ cfg \in Configs /\ file \in List \cup {NoFile} /\ tmp \in List \cup {NoFile, Torn}
  /\ active \in List /\ data \in List \cup {NoFile}
  /\ pc \in {"down", "fetch", "load", "fallback", "arm", "up", "failed"}
  /\ download \in {"idle", "asked", "stage", "rename"} /\ events \in 0 .. MaxVersion + 1
  /\ version \in 0 .. MaxVersion /\ {stale, found, watching, hangup, announced} \subseteq BOOLEAN

(* A wildcard is mintable exactly when its parent lies below its ICANN     *)
(* suffix in the list in effect: private entries, wherever they are        *)
(* nested, neither make nor remove a boundary ("ICANN suffixes only",      *)
(* registrable_icann).                                                     *)
MintableExact ==
  \A p \in Names : WildcardIsMintable(active.rules, p) <=> Len(p) > IcannSuffix(active.rules, p)

(* A gateway that maintains its own file never fails to start over one it  *)
(* wrote itself, in this life or an earlier one: only over one that the    *)
(* operator put there, or took away while it started ("Validate before     *)
(* saving", download_and_save; load_initial).                              *)
StartsOnItsOwnFile ==
  [][pc # "failed" /\ pc' = "failed" => file = NoFile \/ file.by = "operator"]_vars

Quiet == pc = "up" /\ events = 0 /\ ~hangup /\ \A j \in DOMAIN reload : reload[j] = Idle

(* "Whether to hot-reload PSL when the file changes" (auto_reload): when   *)
(* the watcher has nothing left to do, a list that it saw arrive, and that *)
(* passes, is the one in effect, whatever was reloaded on a SIGHUP beside  *)
(* it.  The exception is a SIGHUP reload that read an older file and swaps *)
(* it in after the watcher's last reload: nothing orders the two.          *)
ChangesTakeEffect == Quiet /\ announced /\ Replaces(file) => active = file

(* With a check interval, a stale file does not stay: it is replaced, or   *)
(* somebody removes it or the process (spawn_update_task).                 *)
Maintains == pc = "up" /\ cfg.auto_update /\ cfg.check
StaleIsRefreshed == Maintains /\ file # NoFile /\ stale ~> ~(Maintains /\ file # NoFile /\ stale)
=============================================================================
