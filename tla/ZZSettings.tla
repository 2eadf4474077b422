------------------------------ MODULE ZZSettings ------------------------------
(***************************************************************************)
(* The settings of src/ZZSettings.cpp: parameters in memory, saved to a    *)
(* temporary file that is renamed over the settings file, loaded and       *)
(* merged with the factory values of the running firmware at boot.         *)
(*                                                                         *)
(* Every public method holds m_mutex from start to end, so a call is one   *)
(* action; the steps of a save are separate because the power may fail     *)
(* between any two of them.  A section and a name are one name here.       *)
(***************************************************************************)
EXTENDS Naturals, Sequences, FiniteSets

CONSTANTS
    Names, Values,
    Firmware,      \* firmware versions that may run after a reboot
    Factory,       \* Factory[f]: what init() appends in firmware f
    AppParams,     \* parameters the application appends after each load()
    MaxSize,       \* SETTINGS_MAX_SIZE: most parameters load() reads back
    Requests,      \* update requests: sequences of [name, value]
    FirstFiles,    \* what the flash may hold before the first boot
    ReadErrors     \* whether opening or reading an existing file may fail

(* range abstracts type_u8, min_u16 and max_u16: the values they allow. *)
Param == [name : Names, range : SUBSET Values, readonly : BOOLEAN, value : Values]

NoFile     == [kind |-> "none",    params |-> <<>>]
Damaged    == [kind |-> "damaged", params |-> <<>>]
Legacy(m)  == [kind |-> "legacy",  params |-> m]
Whole(m)   == [kind |-> "whole",   params |-> m]
File == [kind : {"none", "damaged", "legacy", "whole"}, params : Seq(Param)]

(* isValidValue *)
IsValid(p, v) == v \in p.range

ASSUME SettingsAssumption ==
    /\ Factory \in [Firmware -> Seq(Param)]
    /\ Firmware # {} /\ "nobody" \notin Firmware
    /\ AppParams \subseteq Param
    /\ Requests \subseteq Seq([name : Names, value : Values])
    /\ MaxSize \in Nat
    /\ FirstFiles \subseteq File
    /\ ReadErrors \in BOOLEAN

(* What a firmware appends it appends once, with a value of the range it   *)
(* gives.                                                                  *)
ASSUME FirmwareAssumption ==
    /\ \A f \in Firmware : \A i, j \in DOMAIN Factory[f] :
         /\ IsValid(Factory[f][i], Factory[f][i].value)
         /\ Factory[f][i].name = Factory[f][j].name => i = j
    /\ \A p \in AppParams : IsValid(p, p.value)

VARIABLES
    mem,      \* m_section_ost, in file order; <<>> while the power is off
    file,     \* the settings file
    tmp,      \* SETTINGS_TMP_PATH
    pc,       \* "off", "load", "ready" or the next step of a save
    bOk,      \* save's bOk
    result,   \* what the last call returned
    fw,       \* the running firmware
    appended, \* application parameters appended since the last boot
    before,   \* history: the settings file when the save began
    savedBy   \* history: firmware that wrote file; "nobody" at first

vars == <<mem, file, tmp, pc, bOk, result, fw, appended, before, savedBy>>

Init ==
    /\ mem = <<>>
    /\ file \in FirstFiles
    /\ tmp = NoFile
    /\ pc = "off"
    /\ bOk = FALSE
    /\ result = FALSE
    /\ fw \in Firmware
    /\ appended = {}
    /\ before = NoFile
    /\ savedBy = "nobody"

-----------------------------------------------------------------------------
(* Parameters in memory *)

Found(m, n) == {i \in DOMAIN m : m[i].name = n}
First(S) == CHOOSE i \in S : \A j \in S : i <= j

(* findParam(n) # NULL, and the parameter it returns *)
Known(m, n) == Found(m, n) # {}
Find(m, n)  == m[First(Found(m, n))]

SetValue(m, n, v) == [m EXCEPT ![First(Found(m, n))].value = v]

(* setParam: no check of readonly_b. *)
SetParam(n, v) ==
    /\ pc = "ready"
    /\ result' = (Known(mem, n) /\ IsValid(Find(mem, n), v))
    /\ mem' = IF result' THEN SetValue(mem, n, v) ELSE mem
    /\ UNCHANGED <<file, tmp, pc, bOk, fw, appended, before, savedBy>>

Apply(m, us) ==
    LET After[i \in 0..Len(us)] ==
          IF i = 0 THEN m ELSE SetValue(After[i - 1], us[i].name, us[i].value)
    IN  After[Len(us)]

Acceptable(m, us) ==
    \A i \in DOMAIN us :
        Known(m, us[i].name) /\ IsValid(Find(m, us[i].name), us[i].value)

(* Slip: each entry is set as soon as it is validated. *)
SetParamsOneByOne(us) ==
    LET good == SelectSeq(us, LAMBDA u : Acceptable(mem, <<u>>))
    IN /\ pc = "ready"
       /\ result' = Acceptable(mem, us)
       /\ mem' = Apply(mem, good)
       /\ UNCHANGED <<file, tmp, pc, bOk, fw, appended, before, savedBy>>

(* setParams: validate every value before changing anything. *)
SetParams(us) ==
    /\ pc = "ready"
    /\ result' = Acceptable(mem, us)
    /\ mem' = IF result' THEN Apply(mem, us) ELSE mem
    /\ UNCHANGED <<file, tmp, pc, bOk, fw, appended, before, savedBy>>

(* setData: the same for a request from outside, which may not touch       *)
(* read-only parameters.                                                   *)
SetData(us) ==
    /\ pc = "ready"
    /\ result' = /\ Acceptable(mem, us)
                 /\ \A i \in DOMAIN us : ~Find(mem, us[i].name).readonly
    /\ mem' = IF result' THEN Apply(mem, us) ELSE mem
    /\ UNCHANGED <<file, tmp, pc, bOk, fw, appended, before, savedBy>>

(* append called by the application, once for each of its parameters after *)
(* the settings are loaded: it neither validates nor looks for a parameter *)
(* of that name.                                                           *)
AppAppend(p) ==
    /\ pc = "ready"
    /\ p \notin appended
    /\ appended' = appended \cup {p}
    /\ mem' = Append(mem, p)
    /\ UNCHANGED <<file, tmp, pc, bOk, result, fw, before, savedBy>>

-----------------------------------------------------------------------------
(* save(): open the temporary file, write, close, rename. *)

StartSave ==
    /\ pc' = "open"
    /\ before' = file

AppSave ==
    /\ pc = "ready"
    /\ StartSave
    /\ UNCHANGED <<mem, file, tmp, bOk, result, fw, appended, savedBy>>

Return(r) == pc' = "ready" /\ result' = r /\ bOk' = FALSE /\ before' = NoFile

OpenFails ==
    /\ pc = "open"
    /\ Return(FALSE)
    /\ UNCHANGED <<mem, file, tmp, fw, appended, savedBy>>

(* FILE_WRITE truncates; until the payload is complete load() would reject *)
(* what the file holds.                                                    *)
Open ==
    /\ pc = "open"
    /\ tmp' = Damaged
    /\ bOk' = TRUE
    /\ pc' = "payload"
    /\ UNCHANGED <<mem, file, result, fw, appended, before, savedBy>>

(* All the writes before the trailer; after a short one bOk stays false    *)
(* and nothing more is written.  A payload without trailer reads as legacy.*)
WritePayload ==
    /\ pc = "payload"
    /\ \/ tmp' = Legacy(mem) /\ bOk' = bOk
       \/ tmp' = tmp /\ bOk' = FALSE
    /\ pc' = "trailer"
    /\ UNCHANGED <<mem, file, result, fw, appended, before, savedBy>>

(* Slip: a short write of the trailer goes unnoticed. *)
WriteTrailerUnchecked ==
    /\ pc = "trailer"
    /\ \/ bOk /\ tmp' = Whole(mem) /\ bOk' = bOk
       \/ tmp' = tmp /\ bOk' = bOk
    /\ pc' = "rename"
    /\ UNCHANGED <<mem, file, result, fw, appended, before, savedBy>>

WriteTrailer ==
    /\ pc = "trailer"
    /\ \/ bOk /\ tmp' = Whole(mem) /\ bOk' = bOk
       \/ tmp' = tmp /\ bOk' = FALSE
    /\ pc' = "rename"
    /\ UNCHANGED <<mem, file, result, fw, appended, before, savedBy>>

(* LittleFS renames atomically. *)
Rename ==
    /\ pc = "rename" /\ bOk
    /\ file' = tmp
    /\ tmp' = NoFile
    /\ savedBy' = fw
    /\ Return(TRUE)
    /\ UNCHANGED <<mem, fw, appended>>

(* A write failed (rename is not called), or the rename failed. *)
RenameSkipped ==
    /\ pc = "rename"
    /\ pc' = "remove"
    /\ UNCHANGED <<mem, file, tmp, bOk, result, fw, appended, before, savedBy>>

(* Slip: the error path reports success. *)
RemoveReportsTrue ==
    /\ pc = "remove"
    /\ tmp' \in {NoFile, tmp}
    /\ Return(TRUE)
    /\ UNCHANGED <<mem, file, fw, appended, savedBy>>

(* The temporary file is removed, or stays if that fails. *)
RemoveTmp ==
    /\ pc = "remove"
    /\ tmp' \in {NoFile, tmp}
    /\ Return(FALSE)
    /\ UNCHANGED <<mem, file, fw, appended, savedBy>>

-----------------------------------------------------------------------------
(* Power and load() *)

(* A reset of the device, wherever the program is; the flash keeps what it *)
(* holds.                                                                  *)
PowerLoss ==
    /\ pc # "off"
    /\ pc' = "off"
    /\ mem' = <<>> /\ appended' = {}
    /\ bOk' = FALSE /\ result' = FALSE /\ before' = NoFile
    /\ UNCHANGED <<file, tmp, fw, savedBy>>

(* Upgrades and downgrades happen between two boots. *)
Boot ==
    /\ pc = "off"
    /\ pc' = "load"
    /\ fw' \in Firmware
    /\ UNCHANGED <<mem, file, tmp, bOk, result, appended, before, savedBy>>

(* Slip: unknown parameters are not kept. *)
OverlayKnownOnly(acc, p) ==
    IF Known(acc.mem, p.name) /\ IsValid(Find(acc.mem, p.name), p.value)
      THEN [acc EXCEPT !.mem = SetValue(acc.mem, p.name, p.value),
                       !.matched = @ \cup {p.name}]
      ELSE acc

(* Slip: the file's attributes replace the firmware's. *)
OverlayWhole(acc, p) ==
    IF Known(acc.mem, p.name)
      THEN [acc EXCEPT !.mem[First(Found(acc.mem, p.name))] = p,
                       !.matched = @ \cup {p.name}]
      ELSE [acc EXCEPT !.mem = Append(@, p)]

(* Slip: only a value that differs from the factory's counts as stored. *)
OverlayChanged(acc, p) ==
    IF Known(acc.mem, p.name)
      THEN IF IsValid(Find(acc.mem, p.name), p.value) /\ p # Find(acc.mem, p.name)
             THEN [acc EXCEPT !.mem = SetValue(acc.mem, p.name, p.value),
                              !.matched = @ \cup {p.name}]
             ELSE acc
      ELSE IF IsValid(p, p.value)
             THEN [acc EXCEPT !.mem = Append(@, p)]
             ELSE [acc EXCEPT !.dropped = TRUE]

(* load()'s overlay of one stored parameter on the factory configuration. *)
OverlayOne(acc, p) ==
    IF Known(acc.mem, p.name)
      THEN IF IsValid(Find(acc.mem, p.name), p.value)
             THEN [acc EXCEPT !.mem = SetValue(acc.mem, p.name, p.value),
                              !.matched = @ \cup {p.name}]
             ELSE acc
      ELSE IF IsValid(p, p.value)
             THEN [acc EXCEPT !.mem = Append(@, p)]
             ELSE [acc EXCEPT !.dropped = TRUE]

Overlay(f, stored) ==
    LET After[i \in 0..Len(stored)] ==
          IF i = 0 THEN [mem |-> Factory[f], matched |-> {}, dropped |-> FALSE]
          ELSE OverlayOne(After[i - 1], stored[i])
    IN  After[Len(stored)]

(* Every check load() makes before it uses the content of the file. *)
Readable == file.kind \in {"legacy", "whole"} /\ Len(file.params) <= MaxSize

LoadFactory ==
    /\ pc = "load"
    /\ ~Readable \/ ReadErrors
    /\ mem' = Factory[fw]
    /\ StartSave
    /\ UNCHANGED <<file, tmp, bOk, result, fw, appended, savedBy>>

LoadStored ==
    /\ pc = "load"
    /\ Readable
    /\ LET o == Overlay(fw, file.params)
           save == \/ file.kind = "legacy"
                   \/ o.dropped
                   \/ Cardinality(o.matched) < Len(Factory[fw])
       IN /\ mem' = o.mem
          /\ IF save THEN StartSave ELSE pc' = "ready" /\ before' = before
    /\ UNCHANGED <<file, tmp, bOk, result, fw, appended, savedBy>>

-----------------------------------------------------------------------------

Next ==
    \/ \E n \in Names, v \in Values : SetParam(n, v)
    \/ \E us \in Requests : SetParams(us) \/ SetData(us)
    \/ \E p \in AppParams : AppAppend(p)
    \/ AppSave \/ OpenFails \/ Open \/ WritePayload \/ WriteTrailer
    \/ Rename \/ RenameSkipped \/ RemoveTmp
    \/ PowerLoss \/ Boot \/ LoadFactory \/ LoadStored

Spec == Init /\ [][Next]_vars

-----------------------------------------------------------------------------
(* Properties *)

(* Every variable keeps its type: what a save writes and what a load       *)
(* rebuilds are well-formed parameters.                                    *)
TypeOK ==
    /\ mem \in Seq(Param)
    /\ file \in File
    /\ tmp \in File
    /\ pc \in {"off", "load", "ready", "open", "payload", "trailer", "rename", "remove"}
    /\ bOk \in BOOLEAN
    /\ result \in BOOLEAN
    /\ fw \in Firmware
    /\ appended \subseteq AppParams
    /\ before \in File
    /\ savedBy \in Firmware \cup {"nobody"}

Saving == pc \in {"open", "payload", "trailer", "rename", "remove"}
Loaded == pc = "ready" \/ Saving

(* "write to a temporary file and rename it over the settings file, so a   *)
(* power loss never leaves a truncated settings file behind"               *)
(* (src/ZZSettings.cpp:630): whatever fails and whenever the power does,   *)
(* the flash behaves as the atomic SettingsStore.                          *)
Store == INSTANCE SettingsStore WITH
           Contents  <- FirstFiles,
           Written   <- Whole,
           Recovered <- LAMBDA f : {Factory[v] : v \in Firmware}
                              \cup {Overlay(v, f.params).mem : v \in Firmware},
           live <- mem, durable <- file, up <- Loaded

ImplementsStore == Store!Spec

(* "false if the file could not be written; the old file is kept"          *)
(* (include/ZZSettings.h:49), and true only if it holds what is in memory: *)
(* the value save() returns tells which of the two the flash holds.        *)
SaveTellsTruth ==
    [][Saving /\ pc' = "ready" =>
         file' = IF result' THEN Whole(mem) ELSE before]_vars

(* After any sequence of updates, reboots and firmware changes every       *)
(* parameter holds a value that isValidValue accepts: getIntParam and      *)
(* getDblParam never fail on a known parameter of their type.              *)
MemValid == \A i \in DOMAIN mem : IsValid(mem[i], mem[i].value)

(* "parameters added by a newer firmware are always present" and "the      *)
(* firmware defines the parameter attributes": whatever the file holds.    *)
FactoryDefines ==
    Loaded => \A i \in DOMAIN Factory[fw] :
        LET p == Factory[fw][i] IN
        /\ Known(mem, p.name)
        /\ [Find(mem, p.name) EXCEPT !.value = p.value] = p

(* Whatever was done before, what is in memory is well-formed, valid and   *)
(* defined by the firmware.                                                *)
MemorySound == TypeOK /\ MemValid /\ FactoryDefines

Survives(n) ==
    LET p == Find(file.params, n) IN
    IF Known(Factory[fw], n)
      THEN IsValid(Find(Factory[fw], n), p.value) => Find(mem', n).value = p.value
      ELSE IsValid(p, p.value) => Known(mem', n) /\ Find(mem', n) = p

(* A load keeps what is stored: a value that the firmware, or for unknown  *)
(* parameters the file, accepts is read back after the reboot as it was    *)
(* before.  "the file only supplies the value. parameters not known to     *)
(* this firmware are kept, so a downgrade/upgrade does not lose them"      *)
(* (src/ZZSettings.cpp:849); "manual off survives a reboot" (:934).        *)
StoredSurvives ==
    [][pc = "load" /\ pc' # "off" /\ Readable =>
         \A n \in Names : Known(file.params, n) => Survives(n)]_vars

(* It does when the file could be read and holds no name twice: every load *)
(* that merges, upgrade or downgrade, keeps such a value.                  *)
StoredOnceSurvives ==
    [][LoadStored =>
         \A n \in Names : Cardinality(Found(file.params, n)) = 1 => Survives(n)]_vars

(* "all-or-nothing: false, and nothing changed": an update that returns    *)
(* false has not touched any parameter.                                    *)
FalseChangesNothing ==
    [][pc = "ready" /\ pc' = "ready" /\ ~result' /\ DOMAIN mem' = DOMAIN mem
         => mem' = mem]_vars

(* A request from outside never changes a read-only parameter, whatever it *)
(* is combined with.                                                       *)
DataLeavesReadOnly ==
    [][\A i \in DOMAIN mem \cap DOMAIN mem' :
         mem[i].readonly /\ mem'[i] # mem[i] => \A us \in Requests : ~SetData(us)]_vars

(* An update that is refused changes nothing, and one from outside nothing *)
(* that is read-only.                                                      *)
UpdatesGuarded == FalseChangesNothing /\ DataLeavesReadOnly

(* A load that merges rewrites the flash to settle new, invalid or legacy  *)
(* parameters, and then no more: a file the running firmware wrote is not  *)
(* written again by its next boot.                                         *)
SettlesAfterSave ==
    [][LoadStored /\ pc' = "open" => savedBy # fw]_vars

=============================================================================
