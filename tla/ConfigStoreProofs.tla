------------------------- MODULE ConfigStoreProofs -------------------------
(***************************************************************************)
(* ConfigStore proved for any number of edits, sends, backups, cuts,       *)
(* failures, spoiled files and flashes: the types, that no cut costs a     *)
(* complete save, and that rolling codes never fall behind as long as the  *)
(* sends do not wrap them.                                                 *)
(***************************************************************************)
EXTENDS ConfigStore, TLAPS

Events == {"edit", "send", "backup", "cut", "fault", "spoil", "flash"}
Memory == [edit : 0 .. MaxEdits, code : 0 .. CodeSpan - 1]

\* Every edit on flash, in memory or promised is one that was made.
EditsMade ==
  /\ \A f \in Files : disk[f].edit <= count["edit"]
  /\ shades.edit <= count["edit"] /\ download.edit <= count["edit"] /\ kept <= count["edit"]

\* What a boot finds in shades.cfg, or in the .tmp of a commit that was cut after
\* it removed the file, is not older than the edit promised.
OnFlash ==
  \/ kept = 0
  \/ disk["cfg"].is = "whole" /\ disk["cfg"].edit >= kept
  \/ /\ disk["cfg"].is = "absent" /\ disk["cfg.tmp"].is = "whole" /\ disk["cfg.tmp"].edit >= kept
     /\ pc = "off" \/ (pc = "removed" /\ target = "cfg")

\* Nor is what is in memory, and will be saved next; an unreadable file had nothing.
InMemory ==
  /\ pc # "off" => shades.edit >= kept
  /\ pc \in {"unreadable", "fallback"} => kept = 0

Backed ==
  /\ pc \in {"write", "written", "removed"} => mounted
  /\ trusted => mounted /\ OnFlash /\ InMemory

\* The inductive invariant.
IInv == TypeOK /\ EditsMade /\ Backed

-----------------------------------------------------------------------------
\* The bounds, one by one.
LEMMA LimitFacts ==
  /\ DOMAIN Limit = Events /\ Limit["edit"] = MaxEdits /\ Limit["send"] = MaxSends
  /\ \A e \in Events : Limit[e] \in Nat
  /\ CodeSpan \in Nat /\ CodeSpan > 0 /\ MaxEdits \in Nat /\ MaxSends \in Nat
BY StoreAssumption DEF StoreAssumption, Limit, Events

\* What counting an event does.
LEMMA Counted ==
  ASSUME TypeOK, NEW e \in Events, Happens(e)
  PROVE  /\ count' \in [Events -> Nat] /\ \A x \in Events : count'[x] <= Limit[x]
         /\ \A x \in Events \ {e} : count'[x] = count[x]
         /\ count'[e] = count[e] + 1 /\ count[e] \in Nat
BY LimitFacts DEF TypeOK, Happens

\* The files a step writes are files.
LEMMA Contents ==
  /\ Absent \in Content /\ Torn \in Content
  /\ \A s \in Memory : Whole(s) \in Content
  /\ NoShades \in Memory /\ Empty \in [Files -> Content]
  /\ \A t \in {"cfg", "backup"} : TmpOf(t) \in Files /\ t \in Files /\ TmpOf(t) \notin {"cfg", "backup"}
BY LimitFacts DEF Absent, Torn, Whole, NoShades, Content, Memory, Empty, Files, TmpOf

\* Promoting an orphan moves the .tmp or changes nothing.
LEMMA Promotion ==
  ASSUME NEW d \in [Files -> Content]
  PROVE  /\ Promoted(d) \in [Files -> Content]
         /\ d["cfg"].is # "absent" \/ d["cfg.tmp"].is = "absent" => Promoted(d) = d
         /\ d["cfg"].is = "absent" /\ d["cfg.tmp"].is # "absent" => Promoted(d)["cfg"] = d["cfg.tmp"]
         /\ \A f \in Files : \/ Promoted(d)[f] = Absent
                             \/ \E g \in Files : Promoted(d)[f] = d[g]
BY Contents DEF Promoted, Files, Absent

\* Reading a file leaves its edit in memory, and codes in their range.
LEMMA ReadTyped ==
  ASSUME NEW file \in Content, nvs \in 0 .. CodeSpan - 1, Read(file)
  PROVE  shades' \in Memory /\ nvs' \in 0 .. CodeSpan - 1 /\ shades'.edit = file.edit
BY LimitFacts DEF Read, Larger, Content, Memory

\* A device as it is flashed for the first time.
LEMMA InitInv == Init => IInv
<1> SUFFICES ASSUME Init PROVE IInv
  OBVIOUS
<1>1. count \in [DOMAIN Limit -> Nat] /\ \A e \in DOMAIN Limit : count[e] <= Limit[e]
  BY LimitFacts DEF Init
<1>2. disk \in [Files -> Content] /\ shades \in Memory /\ download \in Content
  BY Contents DEF Init
<1>3. nvs \in 0 .. CodeSpan - 1 /\ kept \in 0 .. MaxEdits
  BY LimitFacts DEF Init
<1>4. /\ mounted \in BOOLEAN /\ isDirty \in BOOLEAN /\ lockFS \in BOOLEAN /\ trusted \in BOOLEAN
      /\ pc = "off" /\ target = "cfg"
  BY DEF Init
<1>5. TypeOK
  BY <1>1, <1>2, <1>3, <1>4 DEF TypeOK, Memory
<1>6. EditsMade /\ Backed
  BY LimitFacts DEF Init, EditsMade, Backed, OnFlash, InMemory, Empty, Absent, NoShades, Events
<1>7. QED
  BY <1>5, <1>6 DEF IInv

\* Every step keeps the types.
LEMMA StepTyped == TypeOK /\ [Next]_vars => TypeOK'
<1> SUFFICES ASSUME TypeOK, [Next]_vars PROVE TypeOK'
  OBVIOUS
<1> USE DEF Memory
<1>1. CASE BootLoad
  <2>1. disk' \in [Files -> Content] /\ disk'["cfg"] \in Content
    BY <1>1, Promotion DEF TypeOK, BootLoad, Files
  <2>2. shades' \in Memory /\ nvs' \in 0 .. CodeSpan - 1
    BY <1>1, <2>1, ReadTyped DEF TypeOK, BootLoad
  <2>3. pc' \in {"run", "open", "unreadable"}
    BY <1>1 DEF BootLoad
  <2>4. QED
    BY <1>1, <2>1, <2>2, <2>3 DEF TypeOK, BootLoad, history
<1>2. CASE BootUnmounted
  BY <1>2 DEF TypeOK, BootUnmounted, memory, history
<1>3. CASE BootDropBad
  BY <1>3, Contents DEF TypeOK, BootDropBad, memory, history, Files
<1>4. CASE BootSetAside
  BY <1>4, Contents DEF TypeOK, BootSetAside, memory, history, Files
<1>5. CASE BootFallback
  <2>1. shades' \in Memory /\ nvs' \in 0 .. CodeSpan - 1 /\ pc' \in {"open", "run"}
    BY <1>5, ReadTyped DEF TypeOK, BootFallback, Files
  <2>2. QED
    BY <1>5, <2>1 DEF TypeOK, BootFallback, history
<1>6. CASE Edit
  <2>1. /\ count' \in [DOMAIN Limit -> Nat] /\ \A e \in DOMAIN Limit : count'[e] <= Limit[e]
        /\ count'["edit"] \in 0 .. MaxEdits
    BY <1>6, Counted, LimitFacts DEF Edit, Events
  <2>2. shades' \in Memory
    BY <1>6, <2>1 DEF TypeOK, Edit
  <2>3. QED
    BY <1>6, <2>1, <2>2 DEF TypeOK, Edit, history
<1>7. CASE Send
  <2>1. count' \in [DOMAIN Limit -> Nat] /\ \A e \in DOMAIN Limit : count'[e] <= Limit[e]
    BY <1>7, Counted, LimitFacts DEF Send, Events
  <2>2. nvs' \in 0 .. CodeSpan - 1
    BY <1>7, LimitFacts DEF TypeOK, Send
  <2>3. shades' \in Memory
    BY <1>7, <2>2 DEF TypeOK, Send
  <2>4. QED
    BY <1>7, <2>1, <2>2, <2>3 DEF TypeOK, Send, history
<1>8. CASE LoopCommit
  BY <1>8 DEF TypeOK, LoopCommit, memory, history
<1>9. CASE Backup
  <2>1. count' \in [DOMAIN Limit -> Nat] /\ \A e \in DOMAIN Limit : count'[e] <= Limit[e]
    BY <1>9, Counted, LimitFacts DEF Backup, Events
  <2>2. QED
    BY <1>9, <2>1 DEF TypeOK, Backup, memory, history
<1>10. CASE Restore
  <2>1. count' \in [DOMAIN Limit -> Nat] /\ \A e \in DOMAIN Limit : count'[e] <= Limit[e]
    BY <1>10, Counted, LimitFacts DEF Restore, Events
  <2>2. shades' \in Memory /\ nvs' \in 0 .. CodeSpan - 1
    BY <1>10, ReadTyped DEF TypeOK, Restore
  <2>3. kept' \in 0 .. MaxEdits
    BY <1>10 DEF TypeOK, Restore, Content
  <2>4. QED
    BY <1>10, <2>1, <2>2, <2>3 DEF TypeOK, Restore
<1>11. CASE Open
  BY <1>11, Contents DEF TypeOK, Open, memory, history
<1>12. CASE OpenFails
  BY <1>12 DEF TypeOK, OpenFails, memory, history
<1>13. CASE OpenFaulty
  <2>1. count' \in [DOMAIN Limit -> Nat] /\ \A e \in DOMAIN Limit : count'[e] <= Limit[e]
    BY <1>13, Counted, LimitFacts DEF OpenFaulty, Events
  <2>2. QED
    BY <1>13, <2>1 DEF TypeOK, OpenFaulty, memory, history
<1>14. CASE Write
  BY <1>14, Contents DEF TypeOK, Write, memory, history
<1>15. CASE WriteFaulty
  <2>1. count' \in [DOMAIN Limit -> Nat] /\ \A e \in DOMAIN Limit : count'[e] <= Limit[e]
    BY <1>15, Counted, LimitFacts DEF WriteFaulty, Events
  <2>2. QED
    BY <1>15, <2>1, Contents DEF TypeOK, WriteFaulty, memory, history
<1>16. CASE Remove
  <2>1. disk' \in [Files -> Content] /\ disk'[TmpOf(target)] = disk[TmpOf(target)]
    BY <1>16, Contents DEF TypeOK, Remove
  <2>2. QED
    BY <1>16, <2>1 DEF TypeOK, Remove, memory, history
<1>17. CASE Rename
  <2>1. disk' \in [Files -> Content] /\ disk'["backup"] \in Content
    BY <1>17, Contents DEF TypeOK, Rename
  <2>2. download' \in Content /\ kept' \in 0 .. MaxEdits
    BY <1>17, <2>1 DEF TypeOK, Rename, history
  <2>3. isDirty' \in BOOLEAN /\ trusted' \in BOOLEAN
    BY <1>17 DEF TypeOK, Rename, history
  <2>4. QED
    BY <1>17, <2>1, <2>2, <2>3 DEF TypeOK, Rename
<1>18. CASE FlashBegin
  <2>1. count' \in [DOMAIN Limit -> Nat] /\ \A e \in DOMAIN Limit : count'[e] <= Limit[e]
    BY <1>18, Counted, LimitFacts DEF FlashBegin, Events
  <2>2. QED
    BY <1>18, <2>1, Contents DEF TypeOK, FlashBegin
<1>19. CASE FlashEnd
  BY <1>19 DEF TypeOK, FlashEnd, history
<1>20. CASE FlashEndFaulty
  <2>1. count' \in [DOMAIN Limit -> Nat] /\ \A e \in DOMAIN Limit : count'[e] <= Limit[e]
    BY <1>20, Counted, LimitFacts DEF FlashEndFaulty, Events
  <2>2. QED
    BY <1>20, <2>1 DEF TypeOK, FlashEndFaulty, history
<1>21. CASE PowerCut
  <2>1. count' \in [DOMAIN Limit -> Nat] /\ \A e \in DOMAIN Limit : count'[e] <= Limit[e]
    BY <1>21, Counted, LimitFacts DEF PowerCut, Events
  <2>2. mounted' \in BOOLEAN
    BY <1>21, Zenon DEF TypeOK, PowerCut
  <2>3. QED
    BY <1>21, <2>1, <2>2, Contents DEF TypeOK, PowerCut, history
<1>22. CASE Spoil
  <2>1. count' \in [DOMAIN Limit -> Nat] /\ \A e \in DOMAIN Limit : count'[e] <= Limit[e]
    BY <1>22, Counted, LimitFacts DEF Spoil, Events
  <2>2. disk' \in [Files -> Content] /\ \A t \in {"cfg", "backup"} : disk'[TmpOf(t)] = disk[TmpOf(t)]
    BY <1>22, Contents DEF TypeOK, Spoil
  <2>3. trusted' \in BOOLEAN
    BY <1>22, Zenon DEF TypeOK, Spoil
  <2>4. QED
    BY <1>22, <2>1, <2>2, <2>3 DEF TypeOK, Spoil, memory
<1>23. CASE UNCHANGED vars
  BY <1>23 DEF TypeOK, vars, memory, history
<1>24. QED
  BY <1>1, <1>2, <1>3, <1>4, <1>5, <1>6, <1>7, <1>8, <1>9, <1>10, <1>11, <1>12, <1>13, <1>14,
     <1>15, <1>16, <1>17, <1>18, <1>19, <1>20, <1>21, <1>22, <1>23 DEF Next, Boot, Save, Fault

\* Every step keeps the edits in memory, on flash and promised to those made.
LEMMA StepEdits == TypeOK /\ EditsMade /\ [Next]_vars => EditsMade'
<1> SUFFICES ASSUME TypeOK, EditsMade, [Next]_vars PROVE EditsMade'
  OBVIOUS
<1> USE DEF EditsMade
<1>0. count["edit"] \in Nat /\ \A x \in Events : x # "edit" /\ Happens(x) => count'["edit"] = count["edit"]
  BY LimitFacts, Counted DEF TypeOK, Events
<1>1. CASE BootLoad
  <2>1. disk' \in [Files -> Content] /\ \A f \in Files : disk'[f].edit <= count["edit"]
    BY <1>0, <1>1, Promotion DEF TypeOK, BootLoad, Absent
  <2>2. shades'.edit <= count["edit"]
    BY <1>1, <2>1, ReadTyped DEF TypeOK, BootLoad, Files
  <2>3. QED
    BY <1>1, <2>1, <2>2 DEF BootLoad, history
<1>2. CASE BootUnmounted
  BY <1>2 DEF BootUnmounted, memory, history
<1>3. CASE BootDropBad
  BY <1>0, <1>3 DEF BootDropBad, TypeOK, memory, history, Files, TmpOf, Absent, Torn, Whole
<1>4. CASE BootSetAside
  BY <1>0, <1>4 DEF BootSetAside, TypeOK, memory, history, Files, TmpOf, Absent, Torn, Whole
<1>5. CASE BootFallback
  <2>1. shades'.edit <= count["edit"]
    BY <1>5, ReadTyped DEF TypeOK, BootFallback, Files
  <2>2. QED
    BY <1>5, <2>1 DEF BootFallback, history
<1>6. CASE Edit
  <2>1. count'["edit"] = count["edit"] + 1
    BY <1>6, Counted DEF Edit, Events
  <2>2. shades'.edit = count'["edit"]
    BY <1>6, <2>1, <1>0 DEF Edit, TypeOK
  <2>3. QED
    BY <1>0, <1>6, <2>1, <2>2 DEF Edit, TypeOK, Content, Files, history
<1>7. CASE Send
  <2>1. shades'.edit = shades.edit
    BY <1>7 DEF Send, TypeOK
  <2>2. QED
    BY <1>0, <1>7, <2>1 DEF Send, history, Events
<1>8. CASE LoopCommit
  BY <1>8 DEF LoopCommit, memory, history
<1>9. CASE Backup
  BY <1>0, <1>9 DEF Backup, memory, history, Events
<1>10. CASE Restore
  <2>1. shades'.edit = download.edit
    BY <1>10, ReadTyped DEF TypeOK, Restore
  <2>2. QED
    BY <1>0, <1>10, <2>1 DEF Restore, TypeOK, Events
<1>11. CASE Open
  BY <1>0, <1>11 DEF Open, TypeOK, memory, history, Files, TmpOf, Absent, Torn, Whole
<1>12. CASE OpenFails
  BY <1>12 DEF OpenFails, memory, history
<1>13. CASE OpenFaulty
  BY <1>0, <1>13 DEF OpenFaulty, memory, history, Events
<1>14. CASE Write
  BY <1>0, <1>14 DEF Write, TypeOK, memory, history, Files, TmpOf, Absent, Torn, Whole
<1>15. CASE WriteFaulty
  BY <1>0, <1>15 DEF WriteFaulty, TypeOK, memory, history, Files, TmpOf, Absent, Events
<1>16. CASE Remove
  BY <1>0, <1>16 DEF Remove, TypeOK, memory, history, Files, TmpOf, Absent, Torn, Whole
<1>17. CASE Rename
  <2>1. \A f \in Files : disk'[f].edit <= count["edit"]
    BY <1>0, <1>17, Contents DEF Rename, TypeOK, Absent
  <2>2. QED
    BY <1>17, <2>1 DEF Rename, history, Files
<1>18. CASE FlashBegin
  BY <1>0, <1>18 DEF FlashBegin, Empty, Absent, Events
<1>19. CASE FlashEnd
  BY <1>19 DEF FlashEnd, memory, history
<1>20. CASE FlashEndFaulty
  BY <1>0, <1>20 DEF FlashEndFaulty, memory, history, Events
<1>21. CASE PowerCut
  BY <1>0, <1>21 DEF PowerCut, NoShades, history, Events
<1>22. CASE Spoil
  BY <1>0, <1>22 DEF Spoil, TypeOK, memory, Torn, Files, Events
<1>23. CASE UNCHANGED vars
  BY <1>23 DEF vars, memory, history
<1>24. QED
  BY <1>1, <1>2, <1>3, <1>4, <1>5, <1>6, <1>7, <1>8, <1>9, <1>10, <1>11, <1>12, <1>13, <1>14,
     <1>15, <1>16, <1>17, <1>18, <1>19, <1>20, <1>21, <1>22, <1>23 DEF Next, Boot, Save, Fault

\* Every step keeps what was promised on flash and in memory.
LEMMA StepBacked == TypeOK /\ EditsMade /\ Backed /\ [Next]_vars => Backed'
<1> SUFFICES ASSUME TypeOK, EditsMade, Backed, [Next]_vars PROVE Backed'
  OBVIOUS
<1> USE DEF Backed, OnFlash, InMemory
<1>0. kept \in Nat /\ kept' \in Nat /\ shades.edit \in Nat /\ shades'.edit \in Nat
  BY StepTyped, LimitFacts DEF TypeOK
<1>1. CASE BootLoad
  <2>1. CASE disk["cfg"].is # "absent" \/ disk["cfg.tmp"].is = "absent"
    <3>1. disk' = disk
      BY <1>1, <2>1, Promotion DEF BootLoad, TypeOK
    <3>2. disk["cfg"].is = "whole" => shades'.edit = disk["cfg"].edit
      BY <1>1, <3>1, ReadTyped DEF BootLoad, TypeOK, Files
    <3>3. \/ disk["cfg"].is = "whole" /\ pc' \in {"run", "open"}
          \/ disk["cfg"].is = "absent" /\ pc' = "run"
          \/ disk["cfg"].is = "torn" /\ pc' = "unreadable"
      BY <1>1, <3>1 DEF BootLoad, TypeOK, Content, Files
    <3>4. UNCHANGED <<mounted, kept, trusted>>
      BY <1>1 DEF BootLoad, history
    <3>5. QED
      BY <1>0, <2>1, <3>1, <3>2, <3>3, <3>4
  <2>2. CASE disk["cfg"].is = "absent" /\ disk["cfg.tmp"].is # "absent"
    <3>1. disk'["cfg"] = disk["cfg.tmp"]
      BY <1>1, <2>2, Promotion DEF BootLoad, TypeOK
    <3>2. disk'["cfg"].is = "whole" => shades'.edit = disk'["cfg"].edit
      BY <1>1, <3>1, ReadTyped DEF BootLoad, TypeOK, Files
    <3>3. \/ disk["cfg.tmp"].is = "whole" /\ pc' \in {"run", "open"}
          \/ disk["cfg.tmp"].is = "torn" /\ pc' = "unreadable"
      BY <1>1, <2>2, <3>1 DEF BootLoad, TypeOK, Content, Files
    <3>4. UNCHANGED <<mounted, kept, trusted>>
      BY <1>1 DEF BootLoad, history
    <3>5. QED
      BY <1>0, <2>2, <3>1, <3>2, <3>3, <3>4
  <2>3. QED
    BY <2>1, <2>2
<1>2. CASE BootUnmounted
  BY <1>0, <1>2 DEF BootUnmounted, TypeOK, TmpOf, Files, Absent, Torn, memory, history
<1>3. CASE BootDropBad
  BY <1>0, <1>3 DEF BootDropBad, TypeOK, TmpOf, Files, Absent, Torn, memory, history
<1>4. CASE BootSetAside
  BY <1>0, <1>4 DEF BootSetAside, TypeOK, TmpOf, Files, Absent, Torn, memory, history
<1>5. CASE BootFallback
  BY <1>0, <1>5 DEF BootFallback, history
<1>6. CASE Edit
  <2>1. shades'.edit > count["edit"]
    BY <1>6, Counted DEF Edit, Events, TypeOK
  <2>2. shades'.edit >= kept
    BY <1>0, <2>1, LimitFacts DEF EditsMade, TypeOK, Events
  <2>3. QED
    BY <1>0, <1>6, <2>2 DEF Edit, history
<1>7. CASE Send
  <2>1. shades'.edit = shades.edit
    BY <1>7 DEF Send, TypeOK
  <2>2. QED
    BY <1>0, <1>7, <2>1 DEF Send, history
<1>8. CASE LoopCommit
  BY <1>0, <1>8 DEF LoopCommit, TypeOK, TmpOf, Files, Absent, Torn, memory, history
<1>9. CASE Backup
  BY <1>0, <1>9 DEF Backup, TypeOK, TmpOf, Files, Absent, Torn, memory, history
<1>10. CASE Restore
  <2>1. shades'.edit = download.edit
    BY <1>10, ReadTyped DEF TypeOK, Restore
  <2>2. kept' <= kept /\ kept' <= download.edit
    BY <1>0, <1>10 DEF Restore, TypeOK, Content
  <2>3. QED
    BY <1>0, <1>10, <2>1, <2>2 DEF Restore, TypeOK, Content, Files
<1>11. CASE Open
  BY <1>0, <1>11 DEF Open, TypeOK, TmpOf, Files, Absent, Torn, memory, history
<1>12. CASE OpenFails
  BY <1>0, <1>12 DEF OpenFails, TypeOK, TmpOf, Files, Absent, Torn, memory, history
<1>13. CASE OpenFaulty
  BY <1>0, <1>13 DEF OpenFaulty, TypeOK, TmpOf, Files, Absent, Torn, memory, history
<1>14. CASE Write
  BY <1>0, <1>14 DEF Write, TypeOK, TmpOf, Files, Absent, Torn, memory, history
<1>15. CASE WriteFaulty
  BY <1>0, <1>15 DEF WriteFaulty, TypeOK, TmpOf, Files, Absent, Torn, memory, history
<1>16. CASE Remove
  <2>1. CASE target = "cfg"
    BY <1>0, <1>16, <2>1 DEF Remove, TypeOK, TmpOf, Files, Whole, Absent, memory, history
  <2>2. CASE target = "backup"
    BY <1>0, <1>16, <2>2 DEF Remove, TypeOK, TmpOf, Files, memory, history
  <2>3. QED
    BY <2>1, <2>2 DEF TypeOK
<1>17. CASE Rename
  <2>1. CASE target = "cfg"
    <3>1. disk'["cfg"] = Whole(shades)
      BY <1>17, <2>1 DEF Rename, TypeOK, TmpOf, Files
    <3>2. QED
      BY <1>0, <1>17, <2>1, <3>1 DEF Rename, Whole
  <2>2. CASE target = "backup"
    BY <1>0, <1>17, <2>2 DEF Rename, TypeOK, TmpOf, Files, history
  <2>3. QED
    BY <2>1, <2>2 DEF TypeOK
<1>18. CASE FlashBegin
  BY <1>0, <1>18 DEF FlashBegin, TypeOK, TmpOf, Files, Absent, Torn, memory, history
<1>19. CASE FlashEnd
  BY <1>0, <1>19 DEF FlashEnd, TypeOK, TmpOf, Files, Absent, Torn, memory, history
<1>20. CASE FlashEndFaulty
  BY <1>0, <1>20 DEF FlashEndFaulty, TypeOK, TmpOf, Files, Absent, Torn, memory, history
<1>21. CASE PowerCut
  BY <1>0, <1>21 DEF PowerCut, TypeOK, TmpOf, Files, Absent, Torn, memory, history
<1>22. CASE Spoil
  BY <1>0, <1>22 DEF Spoil, TypeOK, TmpOf, Files, Absent, Torn, memory, history
<1>23. CASE UNCHANGED vars
  BY <1>23 DEF vars, memory, history
<1>24. QED
  BY <1>1, <1>2, <1>3, <1>4, <1>5, <1>6, <1>7, <1>8, <1>9, <1>10, <1>11, <1>12, <1>13, <1>14,
     <1>15, <1>16, <1>17, <1>18, <1>19, <1>20, <1>21, <1>22, <1>23 DEF Next, Boot, Save, Fault

\* The invariant, inductively.
LEMMA Inductive == Spec => []IInv
<1>1. IInv /\ [Next]_vars => IInv'
  BY StepTyped, StepEdits, StepBacked DEF IInv
<1>2. QED
  BY InitInv, <1>1, PTL DEF Spec

(* ConfigStore's variables stay well typed.                                *)
THEOREM TypeCorrect == Spec => []TypeOK
<1>1. IInv => TypeOK
  BY DEF IInv
<1>2. QED
  BY Inductive, <1>1, PTL

(* A cut between any two steps never costs a complete save.                *)
THEOREM SaveSurvivesCorrect == Spec => []SaveSurvives
<1>1. IInv => SaveSurvives
  <2> SUFFICES ASSUME IInv, trusted PROVE Bootable >= kept
    BY DEF SaveSurvives
  <2>1. /\ mounted /\ OnFlash /\ kept \in Nat
        /\ \A f \in Files : disk[f].edit \in Nat
    BY LimitFacts DEF IInv, Backed, TypeOK, Content
  <2>2. disk \in [Files -> Content] /\ disk["cfg"].is \in {"absent", "torn", "whole"}
    BY DEF IInv, TypeOK, Content, Files
  <2>3. CASE kept = 0
    <3>1. \A f \in Files : Promoted(disk)[f].edit \in Nat
      BY <2>1, <2>2, Promotion DEF Absent
    <3>2. QED
      BY <2>1, <2>3, <3>1 DEF Bootable, Files
  <2>4. CASE disk["cfg"].is = "whole" /\ disk["cfg"].edit >= kept
    BY <2>1, <2>2, <2>4, Promotion DEF Bootable
  <2>5. CASE /\ disk["cfg"].is = "absent" /\ disk["cfg.tmp"].is = "whole"
             /\ disk["cfg.tmp"].edit >= kept
    BY <2>1, <2>2, <2>5, Promotion DEF Bootable
  <2>6. QED
    BY <2>1, <2>3, <2>4, <2>5 DEF OnFlash
<1>2. QED
  BY Inductive, <1>1, PTL

-----------------------------------------------------------------------------
\* While the codes do not wrap: NVS has the last one sent, and nothing a later one.
CodesSent ==
  /\ nvs = count["send"]
  /\ shades.code <= nvs /\ download.code <= nvs /\ \A f \in Files : disk[f].code <= nvs

LEMMA InitCodes == Init => CodesSent
BY LimitFacts DEF Init, CodesSent, Empty, Absent, NoShades, Events

\* Reading a file whose code NVS has passed leaves NVS as it is.
LEMMA ReadKeeps ==
  ASSUME NEW file \in Content, nvs \in 0 .. CodeSpan - 1, file.code <= nvs, Read(file)
  PROVE  nvs' = nvs /\ shades'.code = nvs
BY LimitFacts DEF Read, Larger, Content

LEMMA StepCodes ==
  ASSUME MaxSends < CodeSpan
  PROVE  TypeOK /\ CodesSent /\ [Next]_vars => CodesSent'
<1> SUFFICES ASSUME TypeOK, CodesSent, [Next]_vars PROVE CodesSent'
  OBVIOUS
<1> USE DEF CodesSent
<1>0. nvs \in Nat /\ \A x \in Events : x # "send" /\ Happens(x) => count'["send"] = count["send"]
  BY LimitFacts, Counted DEF TypeOK, Events
<1>1. CASE BootLoad
  <2>1. disk' \in [Files -> Content] /\ \A f \in Files : disk'[f].code <= nvs
    BY <1>0, <1>1, Promotion DEF TypeOK, BootLoad, Absent
  <2>2. nvs' = nvs /\ shades'.code <= nvs
    BY <1>0, <1>1, <2>1, ReadKeeps DEF TypeOK, BootLoad, Files
  <2>3. QED
    BY <1>1, <2>1, <2>2 DEF BootLoad
<1>2. CASE BootUnmounted
  BY <1>0, <1>2 DEF BootUnmounted, TypeOK, TmpOf, Files, Absent, Torn, Whole, Empty, NoShades, memory, Events
<1>3. CASE BootDropBad
  BY <1>0, <1>3 DEF BootDropBad, TypeOK, TmpOf, Files, Absent, Torn, Whole, Empty, NoShades, memory, Events
<1>4. CASE BootSetAside
  BY <1>0, <1>4 DEF BootSetAside, TypeOK, TmpOf, Files, Absent, Torn, Whole, Empty, NoShades, memory, Events
<1>5. CASE BootFallback
  <2>1. nvs' = nvs /\ shades'.code <= nvs
    BY <1>0, <1>5, ReadKeeps DEF TypeOK, BootFallback, Files
  <2>2. QED
    BY <1>5, <2>1 DEF BootFallback
<1>6. CASE Edit
  <2>1. shades'.code = shades.code
    BY <1>6 DEF Edit, TypeOK
  <2>2. QED
    BY <1>0, <1>6, <2>1 DEF Edit, Events
<1>7. CASE Send
  <2>1. count'["send"] = nvs + 1 /\ nvs + 1 < CodeSpan
    BY <1>0, <1>7, Counted, LimitFacts DEF Send, Events
  <2>2. (nvs + 1) % CodeSpan = nvs + 1
    BY <1>0, <2>1, LimitFacts
  <2>3. nvs' = nvs + 1 /\ shades'.code = nvs'
    BY <1>7, <2>2 DEF Send, TypeOK
  <2>4. QED
    BY <1>0, <1>7, <2>1, <2>3 DEF Send, TypeOK, Content
<1>8. CASE LoopCommit
  BY <1>0, <1>8 DEF LoopCommit, TypeOK, TmpOf, Files, Absent, Torn, Whole, Empty, NoShades, memory, Events
<1>9. CASE Backup
  BY <1>0, <1>9 DEF Backup, TypeOK, TmpOf, Files, Absent, Torn, Whole, Empty, NoShades, memory, Events
<1>10. CASE Restore
  <2>1. nvs' = nvs /\ shades'.code <= nvs
    BY <1>0, <1>10, ReadKeeps DEF TypeOK, Restore
  <2>2. QED
    BY <1>0, <1>10, <2>1 DEF Restore, Events
<1>11. CASE Open
  BY <1>0, <1>11 DEF Open, TypeOK, TmpOf, Files, Absent, Torn, Whole, Empty, NoShades, memory, Events
<1>12. CASE OpenFails
  BY <1>0, <1>12 DEF OpenFails, TypeOK, TmpOf, Files, Absent, Torn, Whole, Empty, NoShades, memory, Events
<1>13. CASE OpenFaulty
  BY <1>0, <1>13 DEF OpenFaulty, TypeOK, TmpOf, Files, Absent, Torn, Whole, Empty, NoShades, memory, Events
<1>14. CASE Write
  BY <1>0, <1>14 DEF Write, TypeOK, TmpOf, Files, Absent, Torn, Whole, Empty, NoShades, memory, Events
<1>15. CASE WriteFaulty
  BY <1>0, <1>15 DEF WriteFaulty, TypeOK, TmpOf, Files, Absent, Torn, Whole, Empty, NoShades, memory, Events
<1>16. CASE Remove
  BY <1>0, <1>16 DEF Remove, TypeOK, TmpOf, Files, Absent, Torn, Whole, Empty, NoShades, memory, Events
<1>17. CASE Rename
  <2>1. \A f \in Files : disk'[f].code <= nvs
    BY <1>0, <1>17, Contents DEF Rename, TypeOK, Absent
  <2>2. QED
    BY <1>17, <2>1 DEF Rename, Files
<1>18. CASE FlashBegin
  BY <1>0, <1>18 DEF FlashBegin, TypeOK, TmpOf, Files, Absent, Torn, Whole, Empty, NoShades, memory, Events
<1>19. CASE FlashEnd
  BY <1>0, <1>19 DEF FlashEnd, TypeOK, TmpOf, Files, Absent, Torn, Whole, Empty, NoShades, memory, Events
<1>20. CASE FlashEndFaulty
  BY <1>0, <1>20 DEF FlashEndFaulty, TypeOK, TmpOf, Files, Absent, Torn, Whole, Empty, NoShades, memory, Events
<1>21. CASE PowerCut
  BY <1>0, <1>21 DEF PowerCut, TypeOK, TmpOf, Files, Absent, Torn, Whole, Empty, NoShades, memory, Events
<1>22. CASE Spoil
  BY <1>0, <1>22 DEF Spoil, TypeOK, TmpOf, Files, Absent, Torn, Whole, Empty, NoShades, memory, Events
<1>23. CASE UNCHANGED vars
  BY <1>23 DEF vars, memory
<1>24. QED
  BY <1>1, <1>2, <1>3, <1>4, <1>5, <1>6, <1>7, <1>8, <1>9, <1>10, <1>11, <1>12, <1>13, <1>14,
     <1>15, <1>16, <1>17, <1>18, <1>19, <1>20, <1>21, <1>22, <1>23 DEF Next, Boot, Save, Fault

(* Fewer sends than rolling codes: none is sent twice, none is skipped.    *)
THEOREM NeverBehindCorrect ==
  ASSUME MaxSends < CodeSpan
  PROVE  Spec => []NeverBehind
<1>1. TypeOK /\ CodesSent => NeverBehind
  <2> SUFFICES ASSUME TypeOK, CodesSent PROVE NeverBehind
    OBVIOUS
  <2>1. count["send"] \in Nat /\ count["send"] < CodeSpan
    BY LimitFacts DEF TypeOK, CodesSent
  <2>2. QED
    BY <2>1, LimitFacts DEF NeverBehind, CodesSent
<1>2. TypeOK /\ CodesSent /\ [Next]_vars => (TypeOK /\ CodesSent)'
  BY StepTyped, StepCodes
<1>3. Init => TypeOK /\ CodesSent
  BY InitInv, InitCodes DEF IInv
<1>4. QED
  BY <1>1, <1>2, <1>3, PTL DEF Spec

=============================================================================
