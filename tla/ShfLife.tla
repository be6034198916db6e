------------------------------ MODULE ShfLife -------------------------------
(***************************************************************************)
(* The life of a SharedHashFile as a directory with a name: shf_attach,    *)
(* which creates it under a temporary name and renames it, and             *)
(* shf_attach_existing, shf_detach, shf_del, the program shf.monitor that  *)
(* deletes it when a process has gone, and processes that end at any point *)
(* and whose process number is used again.                                 *)
(*                                                                         *)
(* There is one name and one window.  Every creation makes another         *)
(* directory, with a number of its own; what is mapped of it outlives it.  *)
(***************************************************************************)
EXTENDS Integers, FiniteSets

CONSTANTS
  Procs,        \* process numbers
  Deleters,     \* the processes that may ask for delete_upon_process_exit
  MaxDirs       \* bound: how many directories are ever made

ASSUME LifeAssumption == MaxDirs \in Nat \ {0} /\ Deleters \subseteq Procs

VARIABLES
  at,           \* the directory the name leads to, 0 for none
  dir,          \* dir[d]: its files and what is in them
  pc,           \* where a process is in shf_attach or shf_del; "gone" if there is none
  h,            \* h[p]: the SHF of p
  mon,          \* where the shf.monitor of p is, "none" if there is none
  why,          \* history: what a process ended of
  harmed        \* history: directories that got a file while they were being removed,
                \* or a file or tabs_used from the user or creator of an earlier one

vars == <<at, dir, pc, h, mon, why, harmed>>

Dirs == 1 .. MaxDirs
Tabs == {0, 1}

(* main: the file name.shf ("none", "empty" or "full"); tabs: the table     *)
(* files; tabs_used: in the memory of main.  hurried: history, somebody     *)
(* used it before tabs_used was written.                                    *)
NoDir == [made |-> FALSE, main |-> "none", tabs |-> {}, tabs_used |-> 0, hurried |-> FALSE]

(* dir: what p is attached to, 0 for none; mapped: the tables it has mapped *)
(* (count_mmap is one more); new: did this shf_attach create?; del: its     *)
(* third argument.                                                          *)
NoShf == [dir |-> 0, mapped |-> {}, new |-> FALSE, del |-> FALSE]

Unmade == {d \in Dirs : ~dir[d].made}
Fresh == CHOOSE d \in Unmade : \A e \in Unmade : d <= e

(* A process that fails an assertion ends, and its mappings with it.        *)
End(p, cause) ==
  /\ pc' = [pc EXCEPT ![p] = "gone"]
  /\ h' = [h EXCEPT ![p] = NoShf]
  /\ why' = [why EXCEPT ![p] = cause]

Goto(p, l) == pc' = [pc EXCEPT ![p] = l] /\ UNCHANGED why

-----------------------------------------------------------------------------
(* shf_attach: open() with O_CREAT fails only if there is no directory; in  *)
(* one that has been emptied it makes an empty file.                        *)
OpenMain(p) ==
  /\ dir' = [dir EXCEPT ![at].main = IF @ = "none" THEN "empty" ELSE @]
  /\ harmed' = IF dir[at].main = "none" \/ (h[p].new /\ h[p].dir # at)
               THEN harmed \cup {at} ELSE harmed

AttachOpen(p, del) ==
  /\ pc[p] = "out"
  /\ del => p \in Deleters /\ mon[p] = "none"
  /\ h' = [h EXCEPT ![p] = [NoShf EXCEPT !.del = del]]
  /\ IF at = 0 THEN Goto(p, "create") /\ UNCHANGED <<dir, harmed>>
     ELSE Goto(p, "existing") /\ OpenMain(p)
  /\ UNCHANGED <<at, mon>>

(* Mutant of MakeTemp: the table files come after the rename. *)
MakeTempMainOnly(p) ==
  /\ pc[p] = "create" /\ Unmade # {}
  /\ dir' = [dir EXCEPT ![Fresh] = [NoDir EXCEPT !.made = TRUE, !.main = "full"]]
  /\ h' = [h EXCEPT ![p].dir = Fresh, ![p].new = TRUE]
  /\ Goto(p, "rename")
  /\ UNCHANGED <<at, mon, harmed>>

(* Everything that is created, under a name with the process number in it,  *)
(* and the rename: it fails if there is a directory with something in it.   *)
MakeTemp(p) ==
  /\ pc[p] = "create" /\ Unmade # {}
  /\ dir' = [dir EXCEPT ![Fresh] = [NoDir EXCEPT !.made = TRUE, !.main = "full", !.tabs = {0}]]
  /\ h' = [h EXCEPT ![p].dir = Fresh, ![p].new = TRUE]
  /\ Goto(p, "rename")
  /\ UNCHANGED <<at, mon, harmed>>

Emptied(d) == d = 0 \/ (dir[d].main = "none" /\ dir[d].tabs = {})

Rename(p) ==
  /\ pc[p] = "rename"
  /\ IF Emptied(at)
     THEN at' = h[p].dir /\ Goto(p, "existing") /\ UNCHANGED h
     ELSE UNCHANGED at /\ End(p, "rename")
  /\ UNCHANGED <<dir, mon, harmed>>

(* shf_attach_existing, on its own and as a part of shf_attach: NULL if     *)
(* there is no directory.                                                   *)
AttachExisting(p) ==
  /\ pc[p] = "out"
  /\ h' = [h EXCEPT ![p] = NoShf]
  /\ Goto(p, "existing")
  /\ UNCHANGED <<at, dir, mon, harmed>>

OpenExisting(p) ==
  /\ pc[p] = "existing"
  /\ IF at = 0
     THEN h' = [h EXCEPT ![p].dir = 0] /\ UNCHANGED <<dir, harmed>>
     ELSE h' = [h EXCEPT ![p].dir = at] /\ OpenMain(p)
  /\ Goto(p, IF h[p].new /\ at # 0 THEN "publish" ELSE "monitor")
  /\ UNCHANGED <<at, mon>>

(* A look at the memory of an empty file is a SIGBUS.                       *)
Bus(p) == dir[h[p].dir].main = "empty"

(* The creator writes the redirects, all zero as they were, and tabs_used.  *)
Publish(p) ==
  /\ pc[p] = "publish"
  /\ IF Bus(p) THEN End(p, "sigbus") /\ UNCHANGED dir
     ELSE /\ dir' = [dir EXCEPT ![h[p].dir].tabs_used = 1]
          /\ Goto(p, "monitor") /\ UNCHANGED h
  /\ UNCHANGED <<at, mon, harmed>>

StartMonitor(p) ==
  /\ pc[p] = "monitor"
  /\ mon' = [mon EXCEPT ![p] = IF h[p].del THEN "watch" ELSE @]
  /\ Goto(p, IF h[p].dir = 0 THEN "out" ELSE "in")
  /\ h' = [h EXCEPT ![p].new = FALSE, ![p].del = FALSE]
  /\ UNCHANGED <<at, dir, harmed>>

-----------------------------------------------------------------------------
(* A call that reads or writes in table t maps its file, found by name.     *)
Use(p, t) ==
  LET d == h[p].dir
  IN  /\ pc[p] = "in" /\ (t < dir[d].tabs_used \/ t = 0)
      /\ CASE Bus(p) -> End(p, "sigbus") /\ UNCHANGED dir
           [] ~Bus(p) /\ t \notin h[p].mapped /\ (at = 0 \/ t \notin dir[at].tabs) ->
                End(p, "file") /\ UNCHANGED dir
           [] OTHER -> /\ h' = [h EXCEPT ![p].mapped = @ \cup {t}]
                       /\ dir' = [dir EXCEPT ![d].hurried = @ \/ dir[d].tabs_used = 0]
                       /\ UNCHANGED <<pc, why>>
      /\ UNCHANGED <<at, mon, harmed>>

(* Mutant of Split: tabs_used is not counted up. *)
SplitUncounted(p) ==
  LET d == h[p].dir
      t == dir[d].tabs_used
  IN  /\ pc[p] = "in" /\ 0 \in h[p].mapped /\ ~Bus(p) /\ t \in Tabs
      /\ CASE at = 0 -> End(p, "file") /\ UNCHANGED <<dir, harmed>>
           [] at # 0 /\ 0 \notin dir[at].tabs ->
                /\ End(p, "file")
                /\ dir' = [dir EXCEPT ![at].tabs = @ \cup {t}]
                /\ harmed' = harmed \cup {at}
           [] OTHER ->
                /\ dir' = [dir EXCEPT ![at].tabs = @ \cup {t},
                                      ![d].hurried = @ \/ t = 0]
                /\ h' = [h EXCEPT ![p].mapped = @ \cup {t}]
                /\ harmed' = IF at = d THEN harmed ELSE harmed \cup {at}
                /\ UNCHANGED <<pc, why>>
      /\ UNCHANGED <<at, mon>>

(* A put that splits table 0: the new table's file is made by name too, and *)
(* so is the new file of table 0, after its old one has been unlinked.      *)
Split(p) ==
  LET d == h[p].dir
      t == dir[d].tabs_used
  IN  /\ pc[p] = "in" /\ 0 \in h[p].mapped /\ ~Bus(p) /\ t \in Tabs
      /\ CASE at = 0 -> End(p, "file") /\ UNCHANGED <<dir, harmed>>
           [] at # 0 /\ 0 \notin dir[at].tabs ->
                /\ End(p, "file")
                /\ dir' = [dir EXCEPT ![at].tabs = @ \cup {t}]
                /\ harmed' = harmed \cup {at}
           [] OTHER ->
                /\ dir' = [dir EXCEPT ![at].tabs = @ \cup {t}, ![d].tabs_used = t + 1,
                                      ![d].hurried = @ \/ t = 0]
                /\ h' = [h EXCEPT ![p].mapped = @ \cup {t}]
                /\ harmed' = IF at = d THEN harmed ELSE harmed \cup {at}
                /\ UNCHANGED <<pc, why>>
      /\ UNCHANGED <<at, mon>>

-----------------------------------------------------------------------------
(* Mutant of Unmapped: the last table is left out. *)
UnmappedButLast(p) == {t \in h[p].mapped : t + 1 < dir[h[p].dir].tabs_used}

(* shf_detach unmaps the tables below tabs_used, and asserts that it has    *)
(* unmapped as many as were mapped; del: as the first part of shf_del.      *)
Unmapped(p) == {t \in h[p].mapped : t < dir[h[p].dir].tabs_used}

Detach(p, del) ==
  /\ pc[p] = "in"
  /\ CASE Bus(p) -> End(p, "sigbus")
       [] ~Bus(p) /\ Cardinality(Unmapped(p)) # Cardinality(h[p].mapped) -> End(p, "munmap")
       [] OTHER -> Goto(p, IF del THEN "rm" ELSE "out") /\ h' = [h EXCEPT ![p] = NoShf]
  /\ UNCHANGED <<at, dir, mon, harmed>>

(* rm -rf by name: the files, then the directory if it is empty.            *)
RmFiles ==
  dir' = IF at = 0 THEN dir ELSE [dir EXCEPT ![at].main = "none", ![at].tabs = {}]

RmDir == at' = IF Emptied(at) THEN 0 ELSE at

DelFiles(p) ==
  /\ pc[p] = "rm" /\ RmFiles
  /\ Goto(p, "rmdir")
  /\ UNCHANGED <<at, h, mon, harmed>>

DelDir(p) ==
  /\ pc[p] = "rmdir" /\ RmDir
  /\ Goto(p, "out")
  /\ UNCHANGED <<dir, h, mon, harmed>>

-----------------------------------------------------------------------------
(* A process ends, wherever it is; later there is one with its number.      *)
Exit(p) ==
  /\ pc[p] # "gone"
  /\ End(p, "exit")
  /\ UNCHANGED <<at, dir, mon, harmed>>

Reborn(p) ==
  /\ pc[p] = "gone"
  /\ pc' = [pc EXCEPT ![p] = "out"] /\ why' = [why EXCEPT ![p] = "no"]
  /\ UNCHANGED <<at, dir, h, mon, harmed>>

(* shf.monitor: kill(pid, 0), then stat(), then rm -rf. *)
MonCheck(p) ==
  /\ mon[p] = "watch" /\ pc[p] = "gone"
  /\ mon' = [mon EXCEPT ![p] = IF at = 0 THEN "none" ELSE "rm"]
  /\ UNCHANGED <<at, dir, pc, h, why, harmed>>

(* Mutant of MonFiles: rm -f, not rm -rf. *)
MonFilesOnly(p) ==
  /\ mon[p] = "rm" /\ RmFiles
  /\ mon' = [mon EXCEPT ![p] = "none"]
  /\ UNCHANGED <<at, pc, h, why, harmed>>

MonFiles(p) ==
  /\ mon[p] = "rm" /\ RmFiles
  /\ mon' = [mon EXCEPT ![p] = "rmdir"]
  /\ UNCHANGED <<at, pc, h, why, harmed>>

MonDir(p) ==
  /\ mon[p] = "rmdir" /\ RmDir
  /\ mon' = [mon EXCEPT ![p] = "none"]
  /\ UNCHANGED <<dir, pc, h, why, harmed>>

-----------------------------------------------------------------------------
Init ==
  /\ at = 0 /\ dir = [d \in Dirs |-> NoDir]
  /\ pc = [p \in Procs |-> "out"] /\ h = [p \in Procs |-> NoShf]
  /\ mon = [p \in Procs |-> "none"]
  /\ why = [p \in Procs |-> "no"] /\ harmed = {}

Next ==
  \E p \in Procs :
    \/ \E del \in BOOLEAN : AttachOpen(p, del) \/ Detach(p, del)
    \/ MakeTemp(p) \/ Rename(p)
    \/ AttachExisting(p) \/ OpenExisting(p) \/ Publish(p) \/ StartMonitor(p)
    \/ \E t \in Tabs : Use(p, t)
    \/ Split(p) \/ DelFiles(p) \/ DelDir(p) \/ Exit(p) \/ Reborn(p)
    \/ MonCheck(p) \/ MonFiles(p) \/ MonDir(p)

(* A monitor gets on with it. *)
Spec ==
  /\ Init /\ [][Next]_vars
  /\ \A p \in Procs : WF_vars(MonCheck(p) \/ MonFiles(p) \/ MonDir(p))

-----------------------------------------------------------------------------
(* Properties. *)

TypeOK ==
  /\ at \in Dirs \cup {0}
  /\ dir \in [Dirs -> [made : BOOLEAN, main : {"none", "empty", "full"}, tabs : SUBSET Tabs,
                       tabs_used : 0 .. Cardinality(Tabs), hurried : BOOLEAN]]
  /\ pc \in [Procs -> {"out", "create", "rename", "existing", "publish", "monitor", "in",
                       "rm", "rmdir", "gone"}]
  /\ h \in [Procs -> [dir : Dirs \cup {0}, mapped : SUBSET Tabs, new : BOOLEAN, del : BOOLEAN]]
  /\ mon \in [Procs -> {"none", "watch", "rm", "rmdir"}]
  /\ why \in [Procs -> {"no", "exit", "rename", "sigbus", "file", "munmap"}]
  /\ harmed \subseteq Dirs

(* "creating new shf atomically": whoever creates, dies or deletes when,   *)
(* the name leads to a directory with all its files, to one whose removal  *)
(* has begun, or to nothing, unless the directory was harmed.              *)
WholeAtName ==
  at # 0 /\ at \notin harmed =>
    \/ dir[at].main = "full" /\ 0 \in dir[at].tabs
    \/ Emptied(at)

(* tabs_used counts every table file, so that no split takes one that is   *)
(* in use for its new table, unless somebody used the directory before its *)
(* creator wrote tabs_used.                                                *)
TablesCounted ==
  at # 0 /\ at \notin harmed /\ ~dir[at].hurried =>
    \A t \in dir[at].tabs : t < dir[at].tabs_used \/ (t = 0 /\ dir[at].tabs_used = 0)

(* What the assertions of shf_detach and a SIGBUS take: a process only     *)
(* ends of a mapping count that is off in a directory that was used before *)
(* its creator had written tabs_used, of a short file in one that was      *)
(* being removed, of a missing file when the directory it attached to has  *)
(* lost its files.                                                         *)
NoNeedlessEnd ==
  [][\A p \in Procs :
       pc[p] # "gone" /\ pc'[p] = "gone" =>
         /\ why'[p] = "munmap" => dir[h[p].dir].hurried \/ h[p].dir \in harmed
         /\ why'[p] = "sigbus" => h[p].dir \in harmed
         /\ why'[p] = "file" =>
              h[p].dir # at \/ 0 \notin dir[at].tabs \/ at \in harmed]_vars

(* delete_upon_process_exit: "1 means delete shf when calling process      *)
(* exits".  Once the process is gone its monitor removes the directory the *)
(* name leads to, unless the process number is in use again or somebody    *)
(* put a file into the directory meanwhile.                                *)
DeletedUponExit ==
  \A p \in Procs, d \in Dirs :
    mon[p] = "watch" /\ pc[p] = "gone" /\ at = d
      ~> at # d \/ pc[p] # "gone" \/ d \in harmed
=============================================================================
