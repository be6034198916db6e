--------------------------- MODULE ShfLifeProofs ----------------------------
(***************************************************************************)
(* Proofs about the life of a SharedHashFile as a directory: creation by   *)
(* rename, removal by rm -rf and by shf.monitor, for every set of          *)
(* processes and any number of directories.                                *)
(***************************************************************************)
EXTENDS ShfLife, FiniteSetTheorems, WellFoundedInduction, TLAPS

-----------------------------------------------------------------------------
(* The inductive invariant. *)

(* What is harmed or at the name has been made.                            *)
HarmedIsMade ==
  /\ \A d \in harmed : dir[d].made
  /\ at # 0 => dir[at].made

(* A process that reads or writes main, or renames, has a directory.       *)
HasDir ==
  \A p \in Procs :
    /\ h[p].dir # 0 => dir[h[p].dir].made
    /\ pc[p] \in {"rename", "publish", "in"} => h[p].dir # 0
    /\ pc[p] \in {"rename", "publish"} => h[p].new

(* Under its temporary name a directory is whole, its creator alone has it, *)
(* and the name does not lead to it.                                        *)
WholeTemp(p) ==
  LET d == h[p].dir
  IN  /\ d # at /\ d \notin harmed
      /\ dir[d].main = "full" /\ dir[d].tabs = {0}
      /\ dir[d].tabs_used = 0 /\ ~dir[d].hurried
      /\ \A q \in Procs : q # p => h[q].dir # d

TempWhole == \A p \in Procs : pc[p] = "rename" => WholeTemp(p)

(* Only open() in a directory that had been emptied makes main short.      *)
ShortIsHarmed == \A d \in Dirs : dir[d].main = "empty" => d \in harmed

(* A directory that was not harmed has one creator, and until that one has *)
(* written tabs_used nobody has, except in a hurry.                        *)
Creator(p) ==
  h[p].dir # 0 /\ h[p].dir \notin harmed =>
    /\ \A q \in Procs : q # p => ~h[q].new \/ h[q].dir # h[p].dir
    /\ pc[p] # "monitor" /\ ~dir[h[p].dir].hurried => dir[h[p].dir].tabs_used = 0

OneCreator == \A p \in Procs : h[p].new => Creator(p)

(* new is only set between the creation and the end of shf_attach.         *)
NewInAttach ==
  \A p \in Procs : h[p].new => pc[p] \in {"rename", "existing", "publish", "monitor"}

(* As long as nobody hurried, what is mapped of a directory is counted.    *)
MappedCounted ==
  \A p \in Procs :
    /\ pc[p] # "in" => h[p].mapped = {}
    /\ pc[p] = "in" /\ h[p].dir \notin harmed /\ ~dir[h[p].dir].hurried =>
         \A t \in h[p].mapped : t < dir[h[p].dir].tabs_used

(* A directory at the name that still has table 0 has the tables counted.  *)
CountedExist ==
  at # 0 /\ at \notin harmed /\ 0 \in dir[at].tabs =>
    \A t \in Tabs : t < dir[at].tabs_used => t \in dir[at].tabs

LifeInv ==
  /\ TypeOK /\ HarmedIsMade /\ HasDir /\ TempWhole /\ ShortIsHarmed
  /\ OneCreator /\ NewInAttach /\ MappedCounted /\ CountedExist
  /\ WholeAtName /\ TablesCounted

(* The fields of a directory and of an SHF. *)
DirRec ==
  [made : BOOLEAN, main : {"none", "empty", "full"}, tabs : SUBSET Tabs, tabs_used : 0 .. 2,
   hurried : BOOLEAN]

ShfRec == [dir : Dirs \cup {0}, mapped : SUBSET Tabs, new : BOOLEAN, del : BOOLEAN]

LEMMA TabsCount == Cardinality(Tabs) = 2
<1>1. IsFiniteSet({0}) /\ Cardinality({0}) = 1  BY FS_Singleton
<1>2. Cardinality({0} \cup {1}) = 2  BY <1>1, FS_AddElement
<1>3. Tabs = {0} \cup {1}  BY DEF Tabs
<1>4. QED BY <1>2, <1>3

LEMMA TypesOfRecords ==
  ASSUME TypeOK
  PROVE  dir \in [Dirs -> DirRec] /\ h \in [Procs -> ShfRec]
BY TabsCount DEF TypeOK, DirRec, ShfRec

(* Of the directories that are not made there is a first one.              *)
LEMMA FreshIsUnmade ==
  ASSUME Unmade # {}
  PROVE  Fresh \in Dirs /\ ~dir[Fresh].made
<1> DEFINE R == {e \in Nat \X Nat : e[1] < e[2]}
<1>1. IsWellFoundedOn(R, Nat)
  BY NatLessThanWellFounded DEF OpToRel
<1>2. Unmade \subseteq Nat  BY DEF Unmade, Dirs
<1>3. PICK d \in Unmade : \A e \in Unmade : ~(<<e, d>> \in R)
  <2> HIDE DEF R
  <2> QED BY <1>1, <1>2, WFMin
<1>4. \A e \in Unmade : d <= e
  <2>1. \A e \in Nat, f \in Nat : e < f => <<e, f>> \in R  OBVIOUS
  <2> HIDE DEF R
  <2>2. \A e \in Unmade : ~(e < d)  BY <1>2, <1>3, <2>1, Zenon
  <2>3. QED BY <1>2, <2>2
<1>5. Fresh \in Unmade  BY <1>4 DEF Fresh
<1>6. QED BY <1>5 DEF Unmade

LEMMA LifeInit == Init => LifeInv
BY LifeAssumption, TabsCount
   DEF Init, LifeInv, TypeOK, HarmedIsMade, HasDir, TempWhole, WholeTemp, ShortIsHarmed, OneCreator, Creator,
       NewInAttach, MappedCounted, CountedExist, WholeAtName, TablesCounted, NoDir, NoShf, Dirs

LEMMA EndInv ==
  ASSUME LifeInv, NEW p \in Procs, NEW cause \in {"exit", "rename", "sigbus", "file", "munmap"},
         End(p, cause), UNCHANGED <<at, dir, mon, harmed>>
  PROVE  LifeInv'
BY TabsCount
   DEF End, Emptied,
       LifeInv, TypeOK, HarmedIsMade, HasDir, TempWhole, WholeTemp, ShortIsHarmed,
       OneCreator, Creator, NewInAttach, MappedCounted, CountedExist, WholeAtName, TablesCounted, NoShf, Dirs

LEMMA MakeTempInv ==
  ASSUME LifeInv, NEW p \in Procs, MakeTemp(p)
  PROVE  LifeInv'
<1> DEFINE d == Fresh
<1>0. /\ d \in Dirs /\ ~dir[d].made /\ TypeOK
      /\ dir \in [Dirs -> DirRec] /\ h \in [Procs -> ShfRec] /\ pc[p] = "create"
  BY TypesOfRecords, FreshIsUnmade DEF LifeInv, MakeTemp
<1> HIDE DEF d
<1>1. /\ dir' \in [Dirs -> DirRec]
      /\ dir'[d].made /\ dir'[d].main = "full" /\ dir'[d].tabs = {0}
      /\ dir'[d].tabs_used = 0 /\ ~dir'[d].hurried
      /\ \A e \in Dirs : e # d => dir'[e] = dir[e]
  <2>1. PICK r : r = [NoDir EXCEPT !.made = TRUE, !.main = "full", !.tabs = {0}]
    OBVIOUS
  <2>2. r = [made |-> TRUE, main |-> "full", tabs |-> {0}, tabs_used |-> 0, hurried |-> FALSE]
    BY <2>1 DEF NoDir
  <2>3. dir' = [dir EXCEPT ![d] = r]
    BY <2>1 DEF MakeTemp, d
  <2>4. r \in DirRec
    BY <2>2 DEF DirRec, Tabs
  <2>5. QED BY <1>0, <2>2, <2>3, <2>4
<1>2. /\ h' \in [Procs -> ShfRec]
      /\ h'[p].dir = d /\ h'[p].new /\ h'[p].mapped = h[p].mapped
      /\ \A q \in Procs : q # p => h'[q] = h[q]
  BY <1>0 DEF MakeTemp, ShfRec, d
<1>3. pc' = [pc EXCEPT ![p] = "rename"] /\ UNCHANGED <<at, why, mon, harmed>>
  BY DEF MakeTemp, Goto
<1>4. d # 0 /\ d # at /\ d \notin harmed /\ \A q \in Procs : h[q].dir # d
  BY <1>0 DEF LifeInv, HarmedIsMade, HasDir, Dirs
<1>5. TypeOK'
  BY <1>0, <1>1, <1>2, <1>3, TabsCount DEF TypeOK, DirRec, ShfRec
<1>6. HarmedIsMade' /\ ShortIsHarmed'
  BY <1>0, <1>1, <1>3, <1>4 DEF LifeInv, TypeOK, HarmedIsMade, ShortIsHarmed
<1>7a. HasDir' /\ NewInAttach'
  BY <1>0, <1>1, <1>2, <1>3, <1>4 DEF LifeInv, TypeOK, HasDir, NewInAttach, ShfRec
<1>7b. TempWhole'
  <2> SUFFICES ASSUME NEW q \in Procs, pc'[q] = "rename" PROVE WholeTemp(q)'
    BY DEF TempWhole
  <2>1. CASE q = p
    BY <2>1, <1>0, <1>1, <1>2, <1>3, <1>4 DEF WholeTemp
  <2>2. CASE q # p
    <3>1. pc[q] = "rename" /\ WholeTemp(q) /\ h[q].dir \in Dirs /\ h'[q] = h[q]
      BY <2>2, <1>0, <1>2, <1>3 DEF LifeInv, TypeOK, TempWhole, HasDir, ShfRec
    <3>2. dir'[h[q].dir] = dir[h[q].dir]
      BY <3>1, <1>1, <1>4
    <3>3. QED BY <3>1, <3>2, <1>2, <1>3, <1>4 DEF WholeTemp
  <2>3. QED BY <2>1, <2>2
<1>7c. MappedCounted'
  BY <1>0, <1>1, <1>2, <1>3, <1>4 DEF LifeInv, TypeOK, MappedCounted,
     HasDir, ShfRec
<1>7. OneCreator'
  <2> SUFFICES ASSUME NEW q \in Procs, h'[q].new PROVE Creator(q)'
    BY DEF OneCreator
  <2>1. CASE q = p
    BY <2>1, <1>0, <1>1, <1>2, <1>3, <1>4 DEF Creator
  <2>2. CASE q # p
    <3>1. h[q].new /\ Creator(q) /\ h[q].dir \in Dirs \cup {0} /\ h'[q] = h[q] /\ pc'[q] = pc[q]
      BY <2>2, <1>0, <1>2, <1>3 DEF LifeInv, TypeOK, OneCreator, ShfRec
    <3>2. h[q].dir # 0 => dir'[h[q].dir] = dir[h[q].dir]
      BY <3>1, <1>1, <1>4
    <3>3. QED BY <3>1, <3>2, <1>2, <1>3, <1>4 DEF Creator
  <2>3. QED BY <2>1, <2>2
<1>8. CountedExist' /\ WholeAtName' /\ TablesCounted'
  BY <1>0, <1>1, <1>3, <1>4 DEF LifeInv, TypeOK, CountedExist, WholeAtName, TablesCounted, Emptied
<1>9. QED BY <1>5, <1>6, <1>7a, <1>7b, <1>7c, <1>7, <1>8 DEF LifeInv

LEMMA RebornInv ==
  ASSUME LifeInv, NEW p \in Procs, Reborn(p)
  PROVE  LifeInv'
BY TabsCount
   DEF Reborn, Emptied,
       LifeInv, TypeOK, HarmedIsMade, HasDir, TempWhole, WholeTemp, ShortIsHarmed,
       OneCreator, Creator, NewInAttach, MappedCounted, CountedExist, WholeAtName, TablesCounted, NoShf, Dirs

LEMMA MonCheckInv ==
  ASSUME LifeInv, NEW p \in Procs, MonCheck(p)
  PROVE  LifeInv'
BY TabsCount
   DEF MonCheck, Emptied,
       LifeInv, TypeOK, HarmedIsMade, HasDir, TempWhole, WholeTemp, ShortIsHarmed,
       OneCreator, Creator, NewInAttach, MappedCounted, CountedExist, WholeAtName, TablesCounted, NoShf, Dirs


LEMMA PublishInv ==
  ASSUME LifeInv, NEW p \in Procs, Publish(p)
  PROVE  LifeInv'
<1> DEFINE d == h[p].dir
<1>1. CASE Bus(p)
  BY <1>1, EndInv DEF Publish
<1>2. CASE ~Bus(p)
  <2>0. d \in Dirs /\ TypeOK /\ dir \in [Dirs -> DirRec] /\ pc[p] = "publish"
    BY TypesOfRecords DEF LifeInv, HasDir, ShfRec, Publish
  <2>1. /\ dir' \in [Dirs -> DirRec]
        /\ dir'[d].tabs_used = 1
        /\ \A e \in Dirs : /\ e # d => dir'[e] = dir[e]
                           /\ dir'[e].made = dir[e].made /\ dir'[e].main = dir[e].main
                           /\ dir'[e].tabs = dir[e].tabs /\ dir'[e].hurried = dir[e].hurried
    BY <1>2, <2>0 DEF Publish, DirRec
  <2>2. pc' = [pc EXCEPT ![p] = "monitor"] /\ UNCHANGED <<at, h, why, mon, harmed>>
    BY <1>2 DEF Publish, Goto
  <2>3. d \notin harmed /\ ~dir[d].hurried => dir[d].tabs_used = 0
    BY <2>0 DEF LifeInv, OneCreator, Creator, HasDir
  <2>4. TypeOK'
    BY <2>0, <2>1, <2>2, TabsCount DEF TypeOK, DirRec
  <2>5. HarmedIsMade' /\ HasDir' /\ NewInAttach' /\ ShortIsHarmed' /\ WholeAtName'
    BY <2>0, <2>1, <2>2 DEF LifeInv, TypeOK, HarmedIsMade, HasDir, NewInAttach, ShortIsHarmed,
       WholeAtName, Emptied
  <2>6a. TempWhole'
    BY <2>0, <2>1, <2>2 DEF LifeInv, TypeOK, TempWhole, WholeTemp, HasDir
  <2>6b. OneCreator'
    BY <2>0, <2>1, <2>2 DEF LifeInv, TypeOK, OneCreator, Creator, HasDir
  <2>7a. MappedCounted'
    BY <2>0, <2>1, <2>2, <2>3 DEF LifeInv, TypeOK, MappedCounted, HasDir, Tabs, DirRec
  <2>7. CountedExist' /\ TablesCounted'
    BY <2>0, <2>1, <2>2, <2>3 DEF LifeInv, TypeOK, MappedCounted, CountedExist, TablesCounted,
       HasDir, Tabs, DirRec
  <2>8. QED BY <2>4, <2>5, <2>6a, <2>6b, <2>7a, <2>7 DEF LifeInv
<1>3. QED BY <1>1, <1>2

LEMMA RenameInv ==
  ASSUME LifeInv, NEW p \in Procs, Rename(p)
  PROVE  LifeInv'
<1>1. CASE ~Emptied(at)
  BY <1>1, EndInv DEF Rename
<1>2. CASE Emptied(at)
  <2>1. /\ pc[p] = "rename" /\ pc' = [pc EXCEPT ![p] = "existing"]
        /\ at' = h[p].dir /\ UNCHANGED <<dir, h, mon, why, harmed>>
    BY <1>2 DEF Rename, Goto
  <2>2. TypeOK /\ TempWhole /\ at' \in Dirs
    BY <2>1 DEF LifeInv, TypeOK, HasDir
  <2>3. TypeOK' /\ HarmedIsMade' /\ HasDir' /\ NewInAttach' /\ ShortIsHarmed'
    BY <2>1, <2>2 DEF LifeInv, TypeOK, HarmedIsMade, HasDir, NewInAttach, ShortIsHarmed
  <2>4. TempWhole' /\ OneCreator' /\ MappedCounted'
    BY <2>1, <2>2 DEF LifeInv, TypeOK, HasDir, TempWhole, WholeTemp, OneCreator, Creator, MappedCounted
  <2>5. CountedExist' /\ WholeAtName' /\ TablesCounted'
    BY <2>1, <2>2 DEF TypeOK, TempWhole, WholeTemp, CountedExist, WholeAtName, TablesCounted, Tabs
  <2>6. QED BY <2>3, <2>4, <2>5 DEF LifeInv
<1>3. QED BY <1>1, <1>2

(* Steps that change only the directory at the name, or the one the        *)
(* process is attached to, leave those under temporary names alone.        *)
LEMMA TempsLeftAlone ==
  ASSUME LifeInv, NEW p \in Procs, at' \in {0, at},
         \A q \in Procs :
           /\ pc'[q] = "rename" => pc[q] = "rename"
           /\ \/ h'[q] = h[q]
              \/ q = p /\ pc'[p] # "rename" /\ h'[p].dir \in {0, at, h[p].dir},
         \A e \in Dirs : e # at /\ (pc[p] = "rename" \/ e # h[p].dir) =>
           dir'[e] = dir[e] /\ (e \in harmed' => e \in harmed)
  PROVE  TempWhole'
<1> SUFFICES ASSUME NEW q \in Procs, pc'[q] = "rename" PROVE WholeTemp(q)'
  BY DEF TempWhole
<1>1. pc[q] = "rename" /\ WholeTemp(q) /\ h'[q] = h[q]
  BY DEF LifeInv, TempWhole
<1>2. h[q].dir \in Dirs
  BY <1>1, TypesOfRecords DEF LifeInv, HasDir, ShfRec
<1>3. h[q].dir # 0 /\ h[q].dir # at /\ (pc[p] = "rename" \/ h[q].dir # h[p].dir)
  BY <1>1 DEF LifeInv, HasDir, WholeTemp
<1>4. dir'[h[q].dir] = dir[h[q].dir] /\ h[q].dir \notin harmed'
  BY <1>1, <1>2, <1>3 DEF WholeTemp
<1>5. \A o \in Procs : o # q => h'[o].dir # h[q].dir
  BY <1>1, <1>3 DEF WholeTemp
<1>6. QED BY <1>1, <1>3, <1>4, <1>5 DEF WholeTemp

(* So do steps that write no first tabs_used and name no creator.          *)
LEMMA CreatorsLeftAlone ==
  ASSUME LifeInv, NEW p \in Procs,
         \A q \in Procs : q # p => pc'[q] = pc[q] /\ h'[q] = h[q],
         h'[p].new => \/ h'[p].dir = 0
                      \/ /\ h[p].new /\ h'[p].dir = h[p].dir
                         /\ pc[p] = "monitor" => pc'[p] = "monitor",
         harmed \subseteq harmed',
         \A e \in Dirs : ~dir'[e].hurried /\ e \notin harmed' =>
           ~dir[e].hurried /\ (dir[e].tabs_used = 0 => dir'[e].tabs_used = 0)
  PROVE  OneCreator'
<1> SUFFICES ASSUME NEW q \in Procs, h'[q].new, h'[q].dir # 0, h'[q].dir \notin harmed'
             PROVE  Creator(q)'
  BY DEF OneCreator, Creator
<1>1. /\ h[q].new /\ h'[q].dir = h[q].dir /\ h[q].dir \in Dirs
      /\ pc[q] = "monitor" => pc'[q] = "monitor"
  BY TypesOfRecords DEF LifeInv, ShfRec
<1>2. Creator(q)
  BY <1>1 DEF LifeInv, OneCreator
<1>3. \A o \in Procs : o # q => ~h'[o].new \/ h'[o].dir # h[q].dir
  BY <1>1, <1>2 DEF Creator
<1>4. QED BY <1>1, <1>2, <1>3 DEF Creator

LEMMA AttachExistingInv ==
  ASSUME LifeInv, NEW p \in Procs, AttachExisting(p)
  PROVE  LifeInv'
<1>1. /\ pc[p] = "out" /\ pc' = [pc EXCEPT ![p] = "existing"]
      /\ h' = [h EXCEPT ![p] = NoShf] /\ UNCHANGED <<at, dir, mon, why, harmed>>
  BY DEF AttachExisting, Goto
<1>2. TypeOK' /\ HarmedIsMade' /\ HasDir' /\ NewInAttach' /\ MappedCounted'
  BY <1>1 DEF LifeInv, TypeOK, NoShf, HarmedIsMade, HasDir, NewInAttach, MappedCounted
<1>3. TempWhole' /\ OneCreator'
  BY <1>1 DEF LifeInv, TypeOK, NoShf, TempWhole, WholeTemp, OneCreator, Creator, HasDir
<1>4. ShortIsHarmed' /\ CountedExist' /\ WholeAtName' /\ TablesCounted'
  BY <1>1 DEF LifeInv, ShortIsHarmed, CountedExist, WholeAtName, TablesCounted, Emptied
<1>5. QED BY <1>2, <1>3, <1>4 DEF LifeInv

(* What open() with O_CREAT does to the directory at the name.             *)
LEMMA OpenMainEffect ==
  ASSUME TypeOK, at # 0, NEW p \in Procs, OpenMain(p)
  PROVE  /\ dir' \in [Dirs -> DirRec]
         /\ dir'[at].main = IF dir[at].main = "none" THEN "empty" ELSE dir[at].main
         /\ \A e \in Dirs :
              /\ e # at => dir'[e] = dir[e]
              /\ dir'[e].made = dir[e].made /\ dir'[e].tabs = dir[e].tabs
              /\ dir'[e].tabs_used = dir[e].tabs_used /\ dir'[e].hurried = dir[e].hurried
         /\ harmed' \in {harmed, harmed \cup {at}}
         /\ dir[at].main = "none" \/ (h[p].new /\ h[p].dir # at) => at \in harmed'
<1>1. dir \in [Dirs -> DirRec] /\ at \in Dirs
  BY TypesOfRecords DEF TypeOK
<1>2. /\ dir' \in [Dirs -> DirRec]
      /\ dir'[at].main = IF dir[at].main = "none" THEN "empty" ELSE dir[at].main
  BY <1>1 DEF OpenMain, DirRec
<1>3. \A e \in Dirs :
        /\ e # at => dir'[e] = dir[e]
        /\ dir'[e].made = dir[e].made /\ dir'[e].tabs = dir[e].tabs
        /\ dir'[e].tabs_used = dir[e].tabs_used /\ dir'[e].hurried = dir[e].hurried
  BY <1>1 DEF OpenMain, DirRec
<1>4. QED BY <1>2, <1>3 DEF OpenMain

(* It keeps what LifeInv says of the directory at the name.                *)
LEMMA OpenMainKeeps ==
  ASSUME LifeInv, at # 0, NEW p \in Procs, OpenMain(p), UNCHANGED at
  PROVE  HarmedIsMade' /\ ShortIsHarmed' /\ CountedExist' /\ WholeAtName' /\ TablesCounted'
<1>1. TypeOK /\ at \in Dirs
  BY DEF LifeInv, TypeOK
<1>2a. HarmedIsMade'
  BY <1>1, OpenMainEffect DEF LifeInv, TypeOK, HarmedIsMade
<1>2. ShortIsHarmed'
  BY <1>1, OpenMainEffect DEF LifeInv, TypeOK, HarmedIsMade, ShortIsHarmed
<1>3. CountedExist' /\ WholeAtName' /\ TablesCounted'
  BY <1>1, OpenMainEffect DEF LifeInv, TypeOK, CountedExist, WholeAtName, TablesCounted, Emptied
<1>4. QED BY <1>2a, <1>2, <1>3

LEMMA AttachOpenInv ==
  ASSUME LifeInv, NEW p \in Procs, NEW del \in BOOLEAN, AttachOpen(p, del)
  PROVE  LifeInv'
<1>0. TypeOK /\ dir \in [Dirs -> DirRec] /\ pc[p] = "out"
  BY TypesOfRecords DEF LifeInv, AttachOpen
<1>1. /\ h' \in [Procs -> ShfRec] /\ h'[p].dir = 0 /\ ~h'[p].new /\ h'[p].mapped = {}
      /\ \A q \in Procs : q # p => h'[q] = h[q]
  <2>1. PICK r : r = [NoShf EXCEPT !.del = del]
    OBVIOUS
  <2>2. r = [dir |-> 0, mapped |-> {}, new |-> FALSE, del |-> del]
    BY <2>1 DEF NoShf
  <2>3. h' = [h EXCEPT ![p] = r] /\ h \in [Procs -> ShfRec]
    BY <1>0, <2>1, TypesOfRecords DEF AttachOpen
  <2>4. r \in ShfRec
    BY <2>2 DEF ShfRec
  <2>5. QED BY <2>2, <2>3, <2>4
<1>2. CASE at = 0
  <2>1. pc' = [pc EXCEPT ![p] = "create"] /\ UNCHANGED <<at, dir, mon, why, harmed>>
    BY <1>2 DEF AttachOpen, Goto
  <2>2. TypeOK' /\ HarmedIsMade' /\ HasDir' /\ NewInAttach' /\ MappedCounted'
    BY <1>0, <1>1, <2>1 DEF LifeInv, TypeOK, ShfRec, HarmedIsMade, HasDir, NewInAttach, MappedCounted
  <2>3. TempWhole' /\ OneCreator'
    BY <1>0, <1>1, <2>1, TempsLeftAlone, CreatorsLeftAlone DEF TypeOK
  <2>4. ShortIsHarmed' /\ CountedExist' /\ WholeAtName' /\ TablesCounted'
    BY <2>1 DEF LifeInv, ShortIsHarmed, CountedExist, WholeAtName, TablesCounted, Emptied
  <2>5. QED BY <2>2, <2>3, <2>4 DEF LifeInv
<1>3. CASE at # 0
  <2>1. OpenMain(p) /\ pc' = [pc EXCEPT ![p] = "existing"] /\ UNCHANGED <<at, mon, why>>
    BY <1>3 DEF AttachOpen, Goto
  <2>2. TypeOK'
    BY SMTT(40), <1>0, <1>1, <1>3, <2>1, OpenMainEffect, TabsCount DEF TypeOK, DirRec, ShfRec
  <2>3. HasDir' /\ NewInAttach' /\ MappedCounted'
    BY SMTT(40), <1>0, <1>1, <1>3, <2>1, OpenMainEffect
       DEF LifeInv, TypeOK, HasDir, NewInAttach, MappedCounted
  <2>4. TempWhole' /\ OneCreator'
    BY SMTT(40), <1>0, <1>1, <1>3, <2>1, OpenMainEffect, TempsLeftAlone, CreatorsLeftAlone DEF TypeOK
  <2>5. QED BY <1>3, <2>1, <2>2, <2>3, <2>4, OpenMainKeeps DEF LifeInv
<1>4. QED BY <1>2, <1>3

LEMMA OpenExistingInv ==
  ASSUME LifeInv, NEW p \in Procs, OpenExisting(p)
  PROVE  LifeInv'
<1>0. /\ TypeOK /\ dir \in [Dirs -> DirRec] /\ h \in [Procs -> ShfRec] /\ pc[p] = "existing"
      /\ pc' = [pc EXCEPT ![p] = IF h[p].new /\ at # 0 THEN "publish" ELSE "monitor"]
      /\ UNCHANGED <<at, mon, why>>
  BY TypesOfRecords DEF LifeInv, OpenExisting, Goto
<1>1. /\ h' \in [Procs -> ShfRec] /\ h'[p].dir = at
      /\ h'[p].new = h[p].new /\ h'[p].mapped = h[p].mapped
      /\ \A q \in Procs : q # p => h'[q] = h[q]
  BY SMTT(40), <1>0 DEF OpenExisting, ShfRec, TypeOK
<1>2. CASE at = 0
  <2>1. UNCHANGED <<dir, harmed>>
    BY <1>2 DEF OpenExisting
  <2>1a. TypeOK'
    BY <1>0, <1>1, <2>1 DEF TypeOK, ShfRec
  <2>2. HarmedIsMade' /\ HasDir' /\ NewInAttach' /\ MappedCounted'
    BY <1>0, <1>1, <1>2, <2>1
       DEF LifeInv, TypeOK, HarmedIsMade, HasDir, NewInAttach, MappedCounted
  <2>3. TempWhole' /\ OneCreator'
    BY <1>0, <1>1, <1>2, <2>1, TempsLeftAlone, CreatorsLeftAlone DEF TypeOK
  <2>4. ShortIsHarmed' /\ CountedExist' /\ WholeAtName' /\ TablesCounted'
    BY <1>0, <2>1 DEF LifeInv, ShortIsHarmed, CountedExist, WholeAtName, TablesCounted, Emptied
  <2>5. QED BY <2>1a, <2>2, <2>3, <2>4 DEF LifeInv
<1>3. CASE at # 0
  <2>1. OpenMain(p)
    BY <1>3 DEF OpenExisting
  <2>2. TypeOK'
    <3>1. dir' \in [Dirs -> DirRec] /\ harmed' \subseteq Dirs
      BY <1>0, <1>3, <2>1, OpenMainEffect DEF TypeOK
    <3>2. QED BY <1>0, <1>1, <3>1, TabsCount DEF TypeOK, DirRec, ShfRec
  <2>3. HasDir' /\ NewInAttach' /\ MappedCounted'
    BY <1>0, <1>1, <1>3, <2>1, OpenMainEffect
       DEF LifeInv, TypeOK, HarmedIsMade, HasDir, NewInAttach, MappedCounted
  <2>4. TempWhole'
    BY SMTT(40), <1>0, <1>1, <1>3, <2>1, OpenMainEffect, TempsLeftAlone DEF TypeOK
  <2>5. OneCreator'
    <3>1. CASE h[p].new /\ h[p].dir # at
      <4>1. at \in harmed'
        BY <3>1, <1>0, <1>3, <2>1, OpenMainEffect
      <4> SUFFICES ASSUME NEW q \in Procs, h'[q].new, h'[q].dir # 0, h'[q].dir \notin harmed'
                   PROVE  Creator(q)'
        BY DEF OneCreator, Creator
      <4>2. /\ q # p /\ h'[q] = h[q] /\ h[q].dir \in Dirs /\ Creator(q) /\ pc'[q] = pc[q]
            /\ h[q].dir # at
        BY <4>1, <1>0, <1>1 DEF LifeInv, TypeOK, OneCreator, ShfRec
      <4>3. h[q].dir \notin harmed /\ dir'[h[q].dir] = dir[h[q].dir]
        BY <4>2, <1>0, <1>3, <2>1, OpenMainEffect
      <4>4. \A o \in Procs : o # q => ~h'[o].new \/ h'[o].dir # h[q].dir
        BY <4>2, <4>3, <1>1 DEF Creator
      <4>5. QED BY <4>2, <4>3, <4>4 DEF Creator
    <3>2. CASE ~h[p].new \/ h[p].dir = at
      BY <3>2, <1>0, <1>1, <1>3, <2>1, OpenMainEffect, CreatorsLeftAlone DEF TypeOK
    <3>3. QED BY <3>1, <3>2
  <2>6. QED BY <1>0, <1>3, <2>1, <2>2, <2>3, <2>4, <2>5, OpenMainKeeps DEF LifeInv
<1>4. QED BY <1>2, <1>3

LEMMA StartMonitorInv ==
  ASSUME LifeInv, NEW p \in Procs, StartMonitor(p)
  PROVE  LifeInv'
<1>0. /\ TypeOK /\ h \in [Procs -> ShfRec] /\ pc[p] = "monitor"
      /\ pc' = [pc EXCEPT ![p] = IF h[p].dir = 0 THEN "out" ELSE "in"]
      /\ mon' = [mon EXCEPT ![p] = IF h[p].del THEN "watch" ELSE mon[p]]
      /\ UNCHANGED <<at, dir, why, harmed>>
  BY TypesOfRecords DEF LifeInv, StartMonitor, Goto
<1>1. /\ h' \in [Procs -> ShfRec] /\ ~h'[p].new
      /\ h'[p].dir = h[p].dir /\ h'[p].mapped = h[p].mapped
      /\ \A q \in Procs : q # p => h'[q] = h[q]
  BY ZenonT(40), <1>0 DEF StartMonitor, ShfRec
<1>1a. TypeOK'
  BY <1>0, <1>1 DEF TypeOK, ShfRec
<1>2. HarmedIsMade' /\ HasDir' /\ NewInAttach' /\ MappedCounted'
  BY <1>0, <1>1 DEF LifeInv, TypeOK, HarmedIsMade, HasDir, NewInAttach, MappedCounted
<1>3. TempWhole' /\ OneCreator'
  BY <1>0, <1>1, TempsLeftAlone, CreatorsLeftAlone DEF TypeOK
<1>4. ShortIsHarmed' /\ CountedExist' /\ WholeAtName' /\ TablesCounted'
  BY <1>0 DEF LifeInv, ShortIsHarmed, CountedExist, WholeAtName, TablesCounted, Emptied
<1>5. QED BY <1>1a, <1>2, <1>3, <1>4 DEF LifeInv

LEMMA UseInv ==
  ASSUME LifeInv, NEW p \in Procs, NEW t \in Tabs, Use(p, t)
  PROVE  LifeInv'
<1> DEFINE d == h[p].dir
<1>0. /\ TypeOK /\ dir \in [Dirs -> DirRec] /\ h \in [Procs -> ShfRec] /\ pc[p] = "in"
      /\ d \in Dirs /\ (t < dir[d].tabs_used \/ t = 0)
  BY TypesOfRecords DEF LifeInv, Use, HasDir, ShfRec
<1>1. CASE Bus(p)
  BY <1>1, EndInv DEF Use
<1>2. CASE ~Bus(p) /\ t \notin h[p].mapped /\ (at = 0 \/ t \notin dir[at].tabs)
  BY <1>2, EndInv DEF Use
<1>3. CASE ~Bus(p) /\ ~(t \notin h[p].mapped /\ (at = 0 \/ t \notin dir[at].tabs))
  <2>1. /\ h' = [h EXCEPT ![p].mapped = @ \cup {t}]
        /\ dir' = [dir EXCEPT ![d].hurried = @ \/ dir[d].tabs_used = 0]
        /\ UNCHANGED <<at, pc, mon, why, harmed>>
    BY <1>3 DEF Use
  <2>2. /\ h' \in [Procs -> ShfRec] /\ h'[p].dir = d
        /\ h'[p].new = h[p].new /\ h'[p].mapped = h[p].mapped \cup {t}
        /\ \A q \in Procs : q # p => h'[q] = h[q]
    BY <1>0, <2>1 DEF ShfRec
  <2>3. /\ dir' \in [Dirs -> DirRec]
        /\ dir'[d].hurried <=> dir[d].hurried \/ dir[d].tabs_used = 0
        /\ \A e \in Dirs :
             /\ e # d => dir'[e] = dir[e]
             /\ dir'[e].made = dir[e].made /\ dir'[e].main = dir[e].main
             /\ dir'[e].tabs = dir[e].tabs /\ dir'[e].tabs_used = dir[e].tabs_used
    <3>1. PICK b \in BOOLEAN : b = (dir[d].hurried \/ dir[d].tabs_used = 0)
      OBVIOUS
    <3>2. dir' = [dir EXCEPT ![d].hurried = b]
      BY <2>1, <3>1, Zenon
    <3>3. dir'[d].hurried = b
      BY <1>0, <3>2 DEF DirRec
    <3>4. dir'[d].hurried <=> dir[d].hurried \/ dir[d].tabs_used = 0
      BY <3>1, <3>3, Zenon
    <3>5. dir' \in [Dirs -> DirRec]
      BY ZenonT(40), <1>0, <3>1, <3>2 DEF DirRec
    <3>6. QED BY <1>0, <3>2, <3>4, <3>5 DEF DirRec
  <2>4. TypeOK'
    BY <1>0, <2>1, <2>2, <2>3, TabsCount DEF TypeOK, DirRec, ShfRec
  <2>5. HarmedIsMade' /\ HasDir' /\ NewInAttach' /\ ShortIsHarmed' /\ WholeAtName'
    <3>1. HarmedIsMade'
      BY SMTT(40), <1>0, <2>1, <2>2, <2>3 DEF LifeInv, TypeOK, HarmedIsMade
    <3>2. HasDir'
      BY SMTT(40), <1>0, <2>1, <2>2, <2>3 DEF LifeInv, TypeOK, HasDir
    <3>3. NewInAttach'
      BY SMTT(40), <1>0, <2>1, <2>2, <2>3 DEF LifeInv, TypeOK, NewInAttach
    <3>4. ShortIsHarmed'
      BY SMTT(40), <1>0, <2>1, <2>2, <2>3 DEF LifeInv, TypeOK, ShortIsHarmed
    <3>5. WholeAtName'
      BY SMTT(40), <1>0, <2>1, <2>2, <2>3 DEF LifeInv, TypeOK, WholeAtName, Emptied
    <3>6. QED BY <3>1, <3>2, <3>3, <3>4, <3>5
  <2>6. TempWhole' /\ OneCreator'
    BY SMTT(40), <1>0, <2>1, <2>2, <2>3, TempsLeftAlone, CreatorsLeftAlone DEF LifeInv, NewInAttach
  <2>7. MappedCounted'
    <3> SUFFICES ASSUME NEW q \in Procs, pc'[q] = "in", h'[q].dir \notin harmed',
                        ~dir'[h'[q].dir].hurried, NEW u \in h'[q].mapped
                 PROVE  u < dir'[h'[q].dir].tabs_used
      BY <1>0, <2>1, <2>2 DEF LifeInv, MappedCounted
    <3>1. h'[q].dir = h[q].dir /\ h[q].dir \in Dirs /\ pc[q] = "in"
      BY <1>0, <2>1, <2>2 DEF LifeInv, HasDir, ShfRec
    <3>2. ~dir[h[q].dir].hurried /\ (h[q].dir = d => dir[d].tabs_used # 0)
      BY <1>0, <2>3, <3>1
    <3>3. CASE u \in h[q].mapped
      BY SMTT(40), <2>1, <2>3, <3>1, <3>2, <3>3 DEF LifeInv, MappedCounted
    <3>4. CASE q = p /\ u = t
      BY <1>0, <2>3, <3>1, <3>2, <3>4 DEF DirRec
    <3>5. QED BY <2>2, <3>3, <3>4
  <2>8. CountedExist' /\ TablesCounted'
    BY SMTT(40), <1>0, <2>1, <2>3 DEF LifeInv, TypeOK, CountedExist, TablesCounted
  <2>9. QED BY <2>4, <2>5, <2>6, <2>7, <2>8 DEF LifeInv
<1>4. QED BY <1>1, <1>2, <1>3

LEMMA DetachInv ==
  ASSUME LifeInv, NEW p \in Procs, NEW del \in BOOLEAN, Detach(p, del)
  PROVE  LifeInv'
<1>1. CASE Bus(p)
  BY <1>1, EndInv DEF Detach
<1>2. CASE ~Bus(p) /\ Cardinality(Unmapped(p)) # Cardinality(h[p].mapped)
  BY <1>2, EndInv DEF Detach
<1>3. CASE ~Bus(p) /\ ~(Cardinality(Unmapped(p)) # Cardinality(h[p].mapped))
  <2>1. /\ pc[p] = "in" /\ pc' = [pc EXCEPT ![p] = IF del THEN "rm" ELSE "out"]
        /\ h' = [h EXCEPT ![p] = NoShf] /\ UNCHANGED <<at, dir, mon, why, harmed>>
    BY <1>3 DEF Detach, Goto
  <2>2. /\ TypeOK /\ h' \in [Procs -> ShfRec] /\ h'[p].dir = 0 /\ ~h'[p].new
        /\ h'[p].mapped = {} /\ \A q \in Procs : q # p => h'[q] = h[q]
    BY <2>1, TypesOfRecords DEF LifeInv, NoShf, ShfRec
  <2>3. TypeOK'
    BY <2>1, <2>2 DEF TypeOK, ShfRec
  <2>4. HarmedIsMade' /\ HasDir' /\ NewInAttach' /\ MappedCounted'
    BY <2>1, <2>2 DEF LifeInv, TypeOK, HarmedIsMade, HasDir, NewInAttach, MappedCounted
  <2>5. TempWhole' /\ OneCreator'
    BY <2>1, <2>2, TempsLeftAlone, CreatorsLeftAlone DEF TypeOK
  <2>6. ShortIsHarmed' /\ CountedExist' /\ WholeAtName' /\ TablesCounted'
    BY <2>1 DEF LifeInv, ShortIsHarmed, CountedExist, WholeAtName, TablesCounted, Emptied
  <2>7. QED BY <2>3, <2>4, <2>5, <2>6 DEF LifeInv
<1>4. QED BY <1>1, <1>2, <1>3

(* A split that goes well writes by name, and counts where p is attached.  *)
LEMMA SplitEffect ==
  ASSUME TypeOK, NEW d \in Dirs, NEW t \in Tabs, at \in Dirs,
         dir' = [dir EXCEPT ![at].tabs = @ \cup {t}, ![d].tabs_used = t + 1,
                            ![d].hurried = @ \/ t = 0]
  PROVE  /\ dir' \in [Dirs -> DirRec]
         /\ dir'[at].tabs = dir[at].tabs \cup {t} /\ dir'[d].tabs_used = t + 1
         /\ dir'[d].hurried <=> dir[d].hurried \/ t = 0
         /\ \A e \in Dirs :
              /\ dir'[e].made = dir[e].made /\ dir'[e].main = dir[e].main
              /\ e # at => dir'[e].tabs = dir[e].tabs
              /\ e # d => dir'[e].tabs_used = dir[e].tabs_used
                          /\ dir'[e].hurried = dir[e].hurried
              /\ e # at /\ e # d => dir'[e] = dir[e]
<1>1. dir \in [Dirs -> DirRec]
  BY TypesOfRecords
<1>2. PICK b \in BOOLEAN : b = (dir[d].hurried \/ t = 0)
  OBVIOUS
<1>3. PICK f : f = [dir EXCEPT ![at].tabs = @ \cup {t}]
  OBVIOUS
<1>4. f \in [Dirs -> DirRec] /\ f[at].tabs = dir[at].tabs \cup {t}
  BY <1>1, <1>3 DEF DirRec
<1>5. PICK g : g = [f EXCEPT ![d].tabs_used = t + 1]
  OBVIOUS
<1>6. g \in [Dirs -> DirRec] /\ g[d].tabs_used = t + 1
  BY <1>4, <1>5 DEF DirRec, Tabs
<1>7. /\ f[d].hurried = dir[d].hurried
      /\ \A e \in Dirs : /\ f[e].made = dir[e].made /\ f[e].main = dir[e].main
                         /\ f[e].tabs_used = dir[e].tabs_used
                         /\ e # at => f[e] = dir[e]
  BY <1>1, <1>3 DEF DirRec
<1>8. /\ g[d].hurried = f[d].hurried
      /\ \A e \in Dirs : /\ g[e].made = f[e].made /\ g[e].main = f[e].main
                         /\ g[e].tabs = f[e].tabs
                         /\ e # d => g[e] = f[e]
  BY <1>4, <1>5 DEF DirRec
<1>9. dir' = [g EXCEPT ![d].hurried = b]
  <2>1. dir' = [g EXCEPT ![d].hurried = @ \/ t = 0]
    BY <1>3, <1>5
  <2>2. (g[d].hurried \/ t = 0) = b
    BY <1>2, <1>7, <1>8, Zenon
  <2>3. QED BY <2>1, <2>2, Zenon
<1>10. PICK r : r = [g[d] EXCEPT !.hurried = b]
  OBVIOUS
<1>11. /\ r \in DirRec /\ r.hurried = b /\ r.made = g[d].made /\ r.main = g[d].main
       /\ r.tabs = g[d].tabs /\ r.tabs_used = g[d].tabs_used
       /\ dir' = [g EXCEPT ![d] = r]
  <2>1. g[d] \in DirRec  BY <1>6
  <2>2. r \in DirRec  BY <1>10, <2>1 DEF DirRec
  <2>3. r.hurried = b /\ r.made = g[d].made  BY <1>10, <2>1 DEF DirRec
  <2>4. r.main = g[d].main /\ r.tabs = g[d].tabs /\ r.tabs_used = g[d].tabs_used
    BY <1>10, <2>1 DEF DirRec
  <2>5. dir' = [g EXCEPT ![d] = r]  BY <1>9, <1>10
  <2>6. QED BY <2>2, <2>3, <2>4, <2>5
<1>12. /\ dir' \in [Dirs -> DirRec] /\ dir'[d] = r
       /\ \A e \in Dirs : e # d => dir'[e] = g[e]
  BY ZenonT(40), <1>6, <1>11
<1>12a. dir'[d].hurried <=> dir[d].hurried \/ t = 0
  BY <1>2, <1>11, <1>12, Zenon
<1>13. dir'[at].tabs = dir[at].tabs \cup {t} /\ dir'[d].tabs_used = t + 1
  BY <1>4, <1>6, <1>8, <1>11, <1>12
<1>14. ASSUME NEW e \in Dirs
       PROVE  /\ dir'[e].made = dir[e].made /\ dir'[e].main = dir[e].main
              /\ e # at => dir'[e].tabs = dir[e].tabs
  <2>1. dir'[e].made = g[e].made /\ dir'[e].main = g[e].main /\ dir'[e].tabs = g[e].tabs
    BY <1>11, <1>12
  <2>2. QED BY <2>1, <1>7, <1>8
<1>15. ASSUME NEW e \in Dirs, e # d
       PROVE  /\ dir'[e].tabs_used = dir[e].tabs_used /\ dir'[e].hurried = dir[e].hurried
              /\ e # at => dir'[e] = dir[e]
  <2>1. dir'[e] = f[e]
    BY <1>8, <1>12, <1>15
  <2>2. f[e].hurried = dir[e].hurried
    BY <1>1, <1>3 DEF DirRec
  <2>3. QED BY <2>1, <2>2, <1>7
<1>16. QED BY <1>12, <1>12a, <1>13, <1>14, <1>15

LEMMA SplitInv ==
  ASSUME LifeInv, NEW p \in Procs, Split(p)
  PROVE  LifeInv'
<1> DEFINE d == h[p].dir
           t == dir[d].tabs_used
<1>0. /\ TypeOK /\ dir \in [Dirs -> DirRec] /\ h \in [Procs -> ShfRec] /\ pc[p] = "in"
      /\ d \in Dirs /\ t \in Tabs /\ 0 \in h[p].mapped /\ UNCHANGED <<at, mon>>
      /\ ~h[p].new
  BY TypesOfRecords DEF LifeInv, Split, HasDir, ShfRec, NewInAttach
<1> HIDE DEF t
<1>1. CASE at = 0
  BY <1>0, <1>1, EndInv DEF Split
<1>2. CASE at # 0 /\ 0 \notin dir[at].tabs
  <2>1. /\ End(p, "file") /\ dir' = [dir EXCEPT ![at].tabs = @ \cup {t}]
        /\ harmed' = harmed \cup {at} /\ at \in Dirs
    BY <1>0, <1>2 DEF Split, TypeOK, t
  <2>2. /\ dir' \in [Dirs -> DirRec]
        /\ \A e \in Dirs :
             /\ e # at => dir'[e] = dir[e]
             /\ dir'[e].made = dir[e].made /\ dir'[e].main = dir[e].main
             /\ dir'[e].tabs_used = dir[e].tabs_used /\ dir'[e].hurried = dir[e].hurried
    BY <1>0, <2>1 DEF DirRec
  <2>3. /\ h' \in [Procs -> ShfRec] /\ h'[p].dir = 0 /\ ~h'[p].new
        /\ h'[p].mapped = {} /\ \A q \in Procs : q # p => h'[q] = h[q]
        /\ pc' = [pc EXCEPT ![p] = "gone"] /\ why' = [why EXCEPT ![p] = "file"]
    BY <1>0, <2>1 DEF End, NoShf, ShfRec
  <2>4. TypeOK'
    BY <1>0, <2>1, <2>2, <2>3, TabsCount DEF TypeOK, ShfRec, DirRec
  <2>5. HarmedIsMade' /\ ShortIsHarmed' /\ NewInAttach'
    <3>1. \A e \in Dirs : dir'[e].made = dir[e].made /\ dir'[e].main = dir[e].main
      BY <2>2
    <3>2. HarmedIsMade'
      <4>1. dir[at].made /\ (\A e \in harmed : e \in Dirs /\ dir[e].made) /\ at' = at
        BY <1>0, <1>2 DEF LifeInv, TypeOK, HarmedIsMade
      <4>2. QED BY <2>1, <3>1, <4>1 DEF HarmedIsMade
    <3>3. ShortIsHarmed'
      BY <1>0, <2>1, <3>1 DEF LifeInv, ShortIsHarmed
    <3>4. NewInAttach'
      BY <1>0, <2>3 DEF LifeInv, TypeOK, NewInAttach
    <3>5. QED BY <3>2, <3>3, <3>4
  <2>5a. HasDir'
    BY <1>0, <2>2, <2>3 DEF LifeInv, TypeOK, HasDir, ShfRec
  <2>5b. MappedCounted'
    BY <1>0, <2>1, <2>2, <2>3 DEF LifeInv, TypeOK, HasDir, MappedCounted, ShfRec
  <2>6. TempWhole' /\ OneCreator'
    BY SMTT(40), <1>0, <2>1, <2>2, <2>3, TempsLeftAlone, CreatorsLeftAlone DEF TypeOK
  <2>7. CountedExist' /\ WholeAtName' /\ TablesCounted'
    BY <1>0, <2>1 DEF CountedExist, WholeAtName, TablesCounted
  <2>8. QED BY <2>4, <2>5, <2>5a, <2>5b, <2>6, <2>7 DEF LifeInv
<1>3. CASE at # 0 /\ 0 \in dir[at].tabs
  <2>1. /\ dir' = [dir EXCEPT ![at].tabs = @ \cup {t}, ![d].tabs_used = t + 1,
                              ![d].hurried = @ \/ t = 0]
        /\ h' = [h EXCEPT ![p].mapped = @ \cup {t}]
        /\ harmed' = (IF at = d THEN harmed ELSE harmed \cup {at})
        /\ at \in Dirs /\ UNCHANGED <<pc, why>>
    BY <1>0, <1>3 DEF Split, TypeOK, t
  <2>2. /\ h' \in [Procs -> ShfRec] /\ h'[p].dir = d
        /\ h'[p].new = h[p].new /\ h'[p].mapped = h[p].mapped \cup {t}
        /\ \A q \in Procs : q # p => h'[q] = h[q]
    BY <1>0, <2>1 DEF ShfRec
  <2>3. /\ dir' \in [Dirs -> DirRec]
        /\ dir'[at].tabs = dir[at].tabs \cup {t} /\ dir'[d].tabs_used = t + 1
        /\ dir'[d].hurried <=> dir[d].hurried \/ t = 0
        /\ \A e \in Dirs :
             /\ dir'[e].made = dir[e].made /\ dir'[e].main = dir[e].main
             /\ e # at => dir'[e].tabs = dir[e].tabs
             /\ e # d => dir'[e].tabs_used = dir[e].tabs_used
                         /\ dir'[e].hurried = dir[e].hurried
             /\ e # at /\ e # d => dir'[e] = dir[e]
    BY <1>0, <2>1, SplitEffect
  <2>4. TypeOK'
    <3>1. harmed' \subseteq Dirs
      BY <1>0, <2>1 DEF TypeOK
    <3>2. dir' \in [Dirs -> DirRec]
      BY <2>3
    <3>3. QED BY <1>0, <2>1, <2>2, <3>1, <3>2, TabsCount DEF TypeOK, DirRec, ShfRec
  <2>5. HarmedIsMade' /\ ShortIsHarmed'
    <3>1. at' = at /\ (\A e \in harmed' : e \in harmed \/ e = at) /\ harmed \subseteq harmed'
      BY <1>0, <2>1
    <3>2. \A e \in Dirs : dir'[e].made = dir[e].made /\ dir'[e].main = dir[e].main
      BY <2>3
    <3>3. HarmedIsMade'
      <4>1. dir[at].made /\ (\A e \in harmed : e \in Dirs /\ dir[e].made)
        BY <1>0, <1>3 DEF LifeInv, TypeOK, HarmedIsMade
      <4>2. QED BY <2>1, <3>1, <3>2, <4>1 DEF HarmedIsMade
    <3>4. ShortIsHarmed'
      BY <3>1, <3>2 DEF LifeInv, ShortIsHarmed
    <3>5. QED BY <3>3, <3>4
  <2>5a. HasDir' /\ NewInAttach'
    <3>1. \A e \in Dirs : dir'[e].made = dir[e].made
      BY <2>3
    <3>2. \A q \in Procs : h'[q].dir = h[q].dir /\ h'[q].new = h[q].new /\ pc'[q] = pc[q]
      BY <2>1, <2>2
    <3>3. \A q \in Procs : h[q].dir \in Dirs \cup {0}
      BY <1>0 DEF ShfRec
    <3>4. QED BY <3>1, <3>2, <3>3 DEF LifeInv, HasDir, NewInAttach
  <2>6. TempWhole'
    BY <1>0, <2>1, <2>2, <2>3, TempsLeftAlone
  <2>7. OneCreator'
    <3>1. \A e \in Dirs : ~dir'[e].hurried /\ e \notin harmed' =>
            ~dir[e].hurried /\ (dir[e].tabs_used = 0 => dir'[e].tabs_used = 0)
      BY <1>0, <2>3 DEF t
    <3>2. QED BY <1>0, <2>1, <2>2, <3>1, CreatorsLeftAlone
  <2>8. MappedCounted'
    <3> SUFFICES ASSUME NEW q \in Procs, pc'[q] = "in", h'[q].dir \notin harmed',
                        ~dir'[h'[q].dir].hurried, NEW u \in h'[q].mapped
                 PROVE  u < dir'[h'[q].dir].tabs_used
      BY <1>0, <2>1, <2>2 DEF LifeInv, MappedCounted
    <3>1. /\ h'[q].dir = h[q].dir /\ h[q].dir \in Dirs /\ pc[q] = "in"
          /\ h[q].dir \notin harmed /\ h[q].mapped \subseteq Tabs
      BY <1>0, <2>1, <2>2 DEF LifeInv, HasDir, ShfRec
    <3>2. ~dir[h[q].dir].hurried
      BY <1>0, <2>3, <3>1
    <3>3. CASE u \in h[q].mapped
      <4>1. u < dir[h[q].dir].tabs_used
        BY <3>1, <3>2, <3>3 DEF LifeInv, MappedCounted
      <4>2. QED BY <1>0, <2>3, <3>1, <3>3, <4>1 DEF t, Tabs
    <3>4. CASE q = p /\ u = t
      BY <1>0, <2>3, <3>1, <3>4 DEF Tabs
    <3>5. QED BY <2>2, <3>3, <3>4
  <2>9. CountedExist' /\ WholeAtName' /\ TablesCounted'
    <3>1. CASE at # d
      BY <1>0, <2>1, <3>1 DEF CountedExist, WholeAtName, TablesCounted
    <3>2. CASE at = d
      <4>1. /\ dir'[at].tabs = dir[at].tabs \cup {t} /\ dir'[at].tabs_used = t + 1
            /\ ~dir'[at].hurried => ~dir[at].hurried
            /\ dir'[at].main = dir[at].main /\ UNCHANGED <<at, harmed>>
        BY <1>0, <2>1, <2>3, <3>2
      <4>2. dir[at].tabs \subseteq Tabs /\ t = dir[at].tabs_used
        BY <1>0, <2>1, <3>2 DEF DirRec, t
      <4>3. CountedExist'
        BY <1>0, <1>3, <4>1, <4>2 DEF LifeInv, CountedExist, Tabs
      <4>4. WholeAtName'
        BY <1>3, <4>1 DEF LifeInv, WholeAtName, Emptied
      <4>5. TablesCounted'
        BY <1>0, <1>3, <4>1, <4>2 DEF LifeInv, TablesCounted, Tabs
      <4>6. QED BY <4>3, <4>4, <4>5
    <3>3. QED BY <3>1, <3>2
  <2>10. QED BY <2>4, <2>5, <2>5a, <2>6, <2>7, <2>8, <2>9 DEF LifeInv
<1>4. QED BY <1>1, <1>2, <1>3

(* What rm -rf does to the files. *)
LEMMA RmFilesEffect ==
  ASSUME TypeOK, RmFiles
  PROVE  /\ dir' \in [Dirs -> DirRec]
         /\ at # 0 => dir'[at].main = "none" /\ dir'[at].tabs = {}
         /\ \A e \in Dirs :
              /\ e # at => dir'[e] = dir[e]
              /\ dir'[e].made = dir[e].made /\ dir'[e].tabs_used = dir[e].tabs_used
              /\ dir'[e].hurried = dir[e].hurried
<1>1. dir \in [Dirs -> DirRec] /\ at \in Dirs \cup {0} /\ 0 \notin Dirs
  BY TypesOfRecords DEF TypeOK, Dirs
<1>2. CASE at = 0
  BY <1>1, <1>2 DEF RmFiles
<1>3. CASE at # 0
  <2>1. dir' = [dir EXCEPT ![at].main = "none", ![at].tabs = {}]
    BY <1>3 DEF RmFiles
  <2>2. QED BY <1>1, <1>3, <2>1 DEF DirRec
<1>4. QED BY <1>2, <1>3

LEMMA RmFilesInv ==
  ASSUME LifeInv, NEW p \in Procs, DelFiles(p) \/ MonFiles(p)
  PROVE  LifeInv'
<1>1. /\ RmFiles /\ UNCHANGED <<at, h, why, harmed>>
      /\ \/ UNCHANGED pc
         \/ pc[p] = "rm" /\ pc' = [pc EXCEPT ![p] = "rmdir"]
      /\ mon' = mon \/ mon' = [mon EXCEPT ![p] = "rmdir"]
  BY DEF DelFiles, MonFiles, Goto
<1>2. TypeOK /\ at \in Dirs \cup {0} /\ 0 \notin Dirs
  BY DEF LifeInv, TypeOK, Dirs
<1>3. TypeOK'
  BY <1>1, <1>2, RmFilesEffect, TabsCount DEF TypeOK, DirRec
<1>4a. HarmedIsMade' /\ ShortIsHarmed' /\ NewInAttach'
  BY <1>1, <1>2, RmFilesEffect
     DEF LifeInv, TypeOK, HarmedIsMade, NewInAttach, ShortIsHarmed
<1>4b. \A q \in Procs : h[q].dir # 0 => h[q].dir \in Dirs
  BY <1>2 DEF TypeOK
<1>4c. HasDir'
  BY <1>1, <1>2, <1>4b, RmFilesEffect DEF LifeInv, TypeOK, HasDir
<1>4. MappedCounted'
  BY <1>1, <1>2, <1>4b, RmFilesEffect DEF LifeInv, TypeOK, HasDir, MappedCounted
<1>5. TempWhole' /\ OneCreator'
  BY <1>1, <1>2, RmFilesEffect, TempsLeftAlone, CreatorsLeftAlone DEF TypeOK
<1>6. CountedExist' /\ WholeAtName' /\ TablesCounted'
  BY <1>1, <1>2, RmFilesEffect DEF CountedExist, WholeAtName, TablesCounted, Emptied
<1>7. QED BY <1>3, <1>4a, <1>4c, <1>4, <1>5, <1>6 DEF LifeInv

LEMMA RmDirInv ==
  ASSUME LifeInv, NEW p \in Procs, DelDir(p) \/ MonDir(p)
  PROVE  LifeInv'
<1>1. /\ at' \in {0, at} /\ UNCHANGED <<dir, h, why, harmed>>
      /\ \/ UNCHANGED pc
         \/ pc[p] = "rmdir" /\ pc' = [pc EXCEPT ![p] = "out"]
      /\ mon' = mon \/ mon' = [mon EXCEPT ![p] = "none"]
  BY DEF DelDir, MonDir, RmDir, Goto
<1>2. TypeOK
  BY DEF LifeInv
<1>3. TypeOK'
  BY <1>1, <1>2 DEF TypeOK
<1>4. HarmedIsMade' /\ HasDir' /\ NewInAttach' /\ MappedCounted' /\ ShortIsHarmed'
  BY <1>1, <1>2
     DEF LifeInv, TypeOK, HarmedIsMade, HasDir, NewInAttach, MappedCounted, ShortIsHarmed
<1>5. TempWhole' /\ OneCreator'
  BY <1>1, <1>2, TempsLeftAlone, CreatorsLeftAlone DEF TypeOK
<1>6. CountedExist' /\ WholeAtName' /\ TablesCounted'
  BY <1>1 DEF LifeInv, CountedExist, WholeAtName, TablesCounted, Emptied
<1>7. QED BY <1>3, <1>4, <1>5, <1>6 DEF LifeInv

-----------------------------------------------------------------------------
(* The theorems. *)

LEMMA LifeStep ==
  ASSUME LifeInv, [Next]_vars
  PROVE  LifeInv'
<1>1. CASE UNCHANGED vars
  BY <1>1 DEF vars, LifeInv, TypeOK, HarmedIsMade, HasDir, TempWhole, WholeTemp, ShortIsHarmed,
     OneCreator, Creator, NewInAttach, MappedCounted, CountedExist, WholeAtName, TablesCounted,
     Emptied
<1>2. CASE Next
  <2>1. PICK p \in Procs :
          \/ \E del \in BOOLEAN : AttachOpen(p, del) \/ Detach(p, del)
          \/ MakeTemp(p) \/ Rename(p)
          \/ AttachExisting(p) \/ OpenExisting(p) \/ Publish(p) \/ StartMonitor(p)
          \/ \E t \in Tabs : Use(p, t)
          \/ Split(p) \/ DelFiles(p) \/ DelDir(p) \/ Exit(p) \/ Reborn(p)
          \/ MonCheck(p) \/ MonFiles(p) \/ MonDir(p)
    BY <1>2 DEF Next
  <2>2. CASE \E del \in BOOLEAN : AttachOpen(p, del) \/ Detach(p, del)
    BY <2>2, AttachOpenInv, DetachInv
  <2>3. CASE \E t \in Tabs : Use(p, t)
    BY <2>3, UseInv
  <2>4. CASE Exit(p)
    BY <2>4, EndInv DEF Exit
  <2>5. QED BY <2>1, <2>2, <2>3, <2>4, MakeTempInv, RenameInv, AttachExistingInv,
               OpenExistingInv, PublishInv, StartMonitorInv, SplitInv, RmFilesInv, RmDirInv,
               RebornInv, MonCheckInv
<1>3. QED BY <1>1, <1>2

(* The invariant of shf_attach, shf_detach, shf_del and shf.monitor.       *)
THEOREM LifeInvariant == Spec => []LifeInv
BY LifeInit, LifeStep, PTL DEF Spec

(* Creation by rename is atomic: the name never leads to a directory that  *)
(* is only partly made, whoever creates, deletes or dies when, unless an   *)
(* open() or a split put a file into one that was being removed.           *)
THEOREM LifeWholeAtName == Spec => []WholeAtName
BY LifeInvariant, PTL DEF LifeInv

(* tabs_used, which shf_detach and the next split go by, counts the table  *)
(* files of the directory at the name.                                     *)
THEOREM LifeTablesCounted == Spec => []TablesCounted
BY LifeInvariant, PTL DEF LifeInv

(* No assertion and no signal ends a process except where NoNeedlessEnd    *)
(* says: its causes are a removal or a use that came too early.            *)
THEOREM LifeNoNeedlessEnd == Spec => NoNeedlessEnd
<1> DEFINE A == \A p \in Procs :
       pc[p] # "gone" /\ pc'[p] = "gone" =>
         /\ why'[p] = "munmap" => dir[h[p].dir].hurried \/ h[p].dir \in harmed
         /\ why'[p] = "sigbus" => h[p].dir \in harmed
         /\ why'[p] = "file" =>
              h[p].dir # at \/ 0 \notin dir[at].tabs \/ at \in harmed
<1>1. LifeInv /\ [Next]_vars => [A]_vars
  <2> SUFFICES ASSUME LifeInv, Next, NEW p \in Procs, pc[p] # "gone", pc'[p] = "gone"
               PROVE  /\ why'[p] = "munmap" => dir[h[p].dir].hurried \/ h[p].dir \in harmed
                      /\ why'[p] = "sigbus" => h[p].dir \in harmed
                      /\ why'[p] = "file" =>
                           h[p].dir # at \/ 0 \notin dir[at].tabs \/ at \in harmed
    OBVIOUS
  <2>0. TypeOK
    BY DEF LifeInv
  <2>1. PICK q \in Procs :
          \/ \E del \in BOOLEAN : AttachOpen(q, del) \/ Detach(q, del)
          \/ MakeTemp(q) \/ Rename(q)
          \/ AttachExisting(q) \/ OpenExisting(q) \/ Publish(q) \/ StartMonitor(q)
          \/ \E t \in Tabs : Use(q, t)
          \/ Split(q) \/ DelFiles(q) \/ DelDir(q) \/ Exit(q) \/ Reborn(q)
          \/ MonCheck(q) \/ MonFiles(q) \/ MonDir(q)
    BY DEF Next
  <2>2. /\ ~AttachExisting(q) /\ ~OpenExisting(q) /\ ~StartMonitor(q) /\ ~MakeTemp(q)
        /\ ~(\E del \in BOOLEAN : AttachOpen(q, del))
    BY <2>0 DEF AttachExisting, OpenExisting, StartMonitor, MakeTemp, AttachOpen, Goto, TypeOK
  <2>3. /\ ~DelFiles(q) /\ ~DelDir(q) /\ ~Reborn(q)
        /\ ~MonCheck(q) /\ ~MonFiles(q) /\ ~MonDir(q)
    BY <2>0 DEF DelFiles, DelDir, Reborn, MonCheck, MonFiles, MonDir, Goto, TypeOK
  <2>4. ASSUME NEW cause, End(q, cause)
        PROVE  q = p /\ why'[p] = cause
    BY <2>0, <2>4 DEF End, TypeOK
  <2>5. ASSUME NEW l \in {"existing", "monitor", "out", "rm"}, Goto(q, l)
        PROVE  FALSE
    BY <2>0, <2>5 DEF Goto, TypeOK
  <2>6. pc[p] \in {"publish", "in"} => h[p].dir \in Dirs /\ (Bus(p) => h[p].dir \in harmed)
    BY <2>0, TypesOfRecords DEF LifeInv, HasDir, ShortIsHarmed, Bus, ShfRec
  <2>7. CASE Rename(q)
    BY <2>4, <2>5, <2>7 DEF Rename
  <2>8. CASE Publish(q)
    BY <2>4, <2>5, <2>6, <2>8 DEF Publish
  <2>9. CASE Exit(q)
    BY <2>4, <2>9 DEF Exit
  <2>10. CASE Split(q)
    <3>1. at = 0 \/ 0 \notin dir[at].tabs
      BY <2>10 DEF Split
    <3>2. End(q, "file") /\ pc[q] = "in"
      BY <2>10, <3>1 DEF Split
    <3>3. q = p /\ why'[p] = "file"
      BY <2>4, <3>2
    <3>4. h[p].dir # 0
      BY <3>2, <3>3 DEF LifeInv, HasDir
    <3>5. QED BY <3>1, <3>3, <3>4
  <2>11. CASE \E del \in BOOLEAN : Detach(q, del)
    <3>1. PICK del \in BOOLEAN : Detach(q, del)
      BY <2>11
    <3>2. CASE Bus(q)
      BY <2>4, <2>6, <3>1, <3>2 DEF Detach
    <3>3. CASE ~Bus(q) /\ Cardinality(Unmapped(q)) # Cardinality(h[q].mapped)
      <4>1. q = p /\ why'[p] = "munmap" /\ pc[p] = "in"
        BY <2>4, <3>1, <3>3 DEF Detach
      <4>2. Unmapped(p) # h[p].mapped
        BY <3>3, <4>1
      <4>3. QED BY <4>1, <4>2 DEF Unmapped, LifeInv, MappedCounted
    <3>4. CASE ~Bus(q) /\ ~(Cardinality(Unmapped(q)) # Cardinality(h[q].mapped))
      BY <2>5, <3>1, <3>4 DEF Detach
    <3>5. QED BY <3>2, <3>3, <3>4
  <2>12. CASE \E t \in Tabs : Use(q, t)
    <3>1. PICK t \in Tabs : Use(q, t)
      BY <2>12
    <3>2. CASE Bus(q)
      BY <2>4, <2>6, <3>1, <3>2 DEF Use
    <3>3. CASE ~Bus(q) /\ t \notin h[q].mapped /\ (at = 0 \/ t \notin dir[at].tabs)
      <4>1. q = p /\ why'[p] = "file" /\ pc[p] = "in"
        BY <2>4, <3>1, <3>3 DEF Use
      <4>2. h[p].dir # 0 /\ (t < dir[h[p].dir].tabs_used \/ t = 0)
        BY <3>1, <4>1 DEF Use, LifeInv, HasDir
      <4>3. CASE h[p].dir = at /\ 0 \in dir[at].tabs /\ at \notin harmed
        BY <3>3, <4>2, <4>3 DEF LifeInv, CountedExist
      <4>4. QED BY <4>1, <4>3
    <3>4. CASE ~Bus(q) /\ ~(t \notin h[q].mapped /\ (at = 0 \/ t \notin dir[at].tabs))
      BY <3>1, <3>4 DEF Use
    <3>5. QED BY <3>2, <3>3, <3>4
  <2>13. QED BY <2>1, <2>2, <2>3, <2>7, <2>8, <2>9, <2>10, <2>11, <2>12
<1>2. QED BY <1>1, LifeInvariant, PTL DEF Spec, NoNeedlessEnd
=============================================================================
