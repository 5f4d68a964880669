---------------------------- MODULE NumericTags ----------------------------
(***************************************************************************)
(* The numeric configuration of a draft: the engineering range, command    *)
(* limits and alarm trigger of a tag, and the ranges of the sliders and    *)
(* gauges bound to it (shared/numeric-tag-config.js, shared/alarm.js).     *)
(* They are edited one field at a time, each field shows what the other    *)
(* fields make of it, and a save is refused while validateProjectSchema    *)
(* reports an error; opening a project migrates an older one.              *)
(*                                                                         *)
(* Numbers are integers in units small enough for the fractions of a span. *)
(* A field is Missing in a project of an older version only: what is typed *)
(* in is always a number.                                                  *)
(***************************************************************************)
EXTENDS Integers, Sequences

CONSTANTS
    Numbers,        \* the numbers that are typed in
    Projects,       \* the stored projects a run begins with
    MaxEdits,       \* bound of the edits
    Missing

ASSUME NumericAssumption == Numbers \subseteq Int /\ MaxEdits \in Nat

VARIABLES
    sheet,      \* the project that is open: [tag, parts], or Missing
    stored,     \* the project as it was last saved
    age,        \* of the stored project: "current" or "legacy"
    typed       \* the number of edits

numericVars == <<sheet, stored, age, typed>>

Least(x, y)    == IF x <= y THEN x ELSE y
Greatest(x, y) == IF x >= y THEN x ELSE y

-----------------------------------------------------------------------------
(* numeric-tag-config.js: a tag is [access, eng, write, alarm], a part     *)
(* [type, mode, min, max, step, low, high].                                *)

DefaultEngineering == [min |-> 0, max |-> 100]

HasEngineering(tag) == tag.eng # Missing /\ tag.eng.max > tag.eng.min

Engineering(tag) == IF HasEngineering(tag) THEN tag.eng ELSE DefaultEngineering

Within(range, limits) == limits.min <= range.min /\ range.max <= limits.max /\ range.min < range.max

\* numericWriteConstraints
WriteLimits(tag) ==
    LET eng == Engineering(tag)
        range == IF tag.write # Missing /\ Within(tag.write, eng) THEN tag.write ELSE eng
        span == range.max - range.min
        given == tag.write # Missing /\ 0 < tag.write.step /\ tag.write.step <= span
    IN [min |-> range.min, max |-> range.max,
        step |-> IF given THEN tag.write.step ELSE Least(1, span)]

\* Mutant: the custom range is taken as it is.
ResolveWriteAsTyped(tag, part) ==
    IF part.mode # "inherit" /\ part.max > part.min
    THEN [min |-> part.min, max |-> part.max, step |-> part.step]
    ELSE WriteLimits(tag)

\* resolveNumericRange(tag, properties, 'write'): a custom range may narrow the
\* tag's limits, and counts for nothing if it does not meet them.
ResolveWrite(tag, part) ==
    LET limits == WriteLimits(tag)
        low == Greatest(limits.min, part.min)
        high == Least(limits.max, part.max)
        whole == part.step >= limits.step /\ part.step <= high - low /\ part.step % limits.step = 0
    IN IF (part.mode = "inherit" /\ HasEngineering(tag)) \/ part.max <= part.min THEN limits
       ELSE IF ~HasEngineering(tag)
            THEN [min |-> part.min, max |-> part.max,
                  step |-> IF 0 < part.step /\ part.step <= part.max - part.min THEN part.step
                           ELSE Least(limits.step, part.max - part.min)]
       ELSE IF high <= low THEN limits
       ELSE [min |-> low, max |-> high, step |-> IF whole THEN part.step ELSE limits.step]

\* resolveNumericRange(tag, properties, 'display')
ResolveDisplay(tag, part) ==
    IF (part.mode = "inherit" /\ HasEngineering(tag)) \/ part.max <= part.min
    THEN [min |-> Engineering(tag).min, max |-> Engineering(tag).max]
    ELSE [min |-> part.min, max |-> part.max]

ZonesFit(range, zones) == range.min <= zones.low /\ zones.low <= zones.high /\ zones.high <= range.max

DefaultZones(range) ==
    LET span == range.max - range.min
    IN [low |-> range.min + (span * 3) \div 10, high |-> range.min + (span * 7) \div 10]

\* resolveGaugeZones
GaugeZones(range, part) ==
    IF ZonesFit(range, part) THEN [low |-> part.low, high |-> part.high] ELSE DefaultZones(range)

-----------------------------------------------------------------------------
(* alarm.js: a trigger is [op, lo, hi], with lo = hi for a comparison.     *)

\* normalizeNumericAlarmRule({ operator }, tag)
NewTrigger(tag, op) ==
    LET eng == Engineering(tag)
        span == eng.max - eng.min
        high == eng.min + (span * 8) \div 10
    IN [op |-> op, lo |-> IF op = "range" THEN eng.min + (span * 2) \div 10 ELSE high, hi |-> high]

InRange(trigger, eng) == eng.min <= trigger.lo /\ trigger.hi <= eng.max

\* numericAlarmRule: what a runtime goes by; anything wrong and there is no trigger.
EffectiveTrigger(tag) ==
    IF \/ tag.alarm = Missing
       \/ tag.alarm.lo > tag.alarm.hi
       \/ HasEngineering(tag) /\ ~InRange(tag.alarm, tag.eng)
    THEN Missing
    ELSE tag.alarm

-----------------------------------------------------------------------------
(* validateProjectSchema, as far as it is about numbers.                   *)

\* Mutant: a trigger is checked when it is typed in, not against the range of now.
TriggerIsOrdered(tag) == tag.alarm # Missing => tag.alarm.lo <= tag.alarm.hi

TriggerIsValid(tag) ==
    tag.alarm # Missing =>
        /\ tag.alarm.lo <= tag.alarm.hi
        /\ HasEngineering(tag) => InRange(tag.alarm, Engineering(tag))

TagIsValid(tag) ==
    /\ tag.eng # Missing => tag.eng.max > tag.eng.min
    /\ TriggerIsValid(tag)
    /\ tag.access # "read" /\ tag.write # Missing =>
          /\ Within(tag.write, Engineering(tag))
          /\ 0 < tag.write.step /\ tag.write.step <= tag.write.max - tag.write.min

\* Mutant: a custom range need not stay inside the tag's limits.
SliderIsOrdered(tag, part) ==
    LET range == ResolveWrite(tag, part)
    IN tag.access # "read" /\ 0 < range.step /\ range.step <= range.max - range.min

SliderIsValid(tag, part) ==
    LET range == ResolveWrite(tag, part)
        limits == WriteLimits(tag)
    IN /\ tag.access # "read"
       /\ range.min < range.max
       /\ 0 < range.step /\ range.step <= range.max - range.min
       /\ ~HasEngineering(tag) =>
             part.min < part.max /\ 0 < part.step /\ part.step <= part.max - part.min
       /\ HasEngineering(tag) /\ part.mode = "custom" =>
             Within(part, limits) /\ part.step >= limits.step /\ part.step % limits.step = 0

GaugeIsValid(tag, part) ==
    LET range == ResolveDisplay(tag, part)
        zones == IF part.mode = "inherit" THEN GaugeZones(range, part) ELSE part
    IN /\ range.min < range.max
       /\ ~HasEngineering(tag) => part.min < part.max
       /\ ZonesFit(range, zones)

PartIsValid(tag, part) == IF part.type = "slider" THEN SliderIsValid(tag, part) ELSE GaugeIsValid(tag, part)

Valid(d) == TagIsValid(d.tag) /\ \A i \in DOMAIN d.parts : PartIsValid(d.tag, d.parts[i])

-----------------------------------------------------------------------------
(* migrateNumericConfiguration                                             *)

FirstOf(parts, types) ==
    LET found == {i \in DOMAIN parts : parts[i].type \in types /\ parts[i].min < parts[i].max}
    IN IF found = {} THEN Missing ELSE parts[CHOOSE i \in found : \A j \in found : i <= j]

\* normalizeWriteConstraints
NormalWrite(write, eng) ==
    LET range == IF Within(write, eng) THEN write ELSE eng
        span == range.max - range.min
    IN [min |-> range.min, max |-> range.max,
        step |-> IF 0 < write.step /\ write.step <= span THEN write.step ELSE Least(1, span)]

\* What a tag without a range gets: the range of its first gauge, or slider.
MigratedTag(d, legacy) ==
    LET shown == IF FirstOf(d.parts, {"gauge"}) # Missing THEN FirstOf(d.parts, {"gauge"})
                 ELSE FirstOf(d.parts, {"slider"})
        hint == IF shown = Missing THEN DefaultEngineering ELSE [min |-> shown.min, max |-> shown.max]
        eng == IF HasEngineering(d.tag) THEN d.tag.eng ELSE hint
        slider == FirstOf(d.parts, {"slider"})
        write == IF d.tag.write # Missing THEN d.tag.write
                 ELSE IF slider # Missing
                      THEN [min |-> slider.min, max |-> slider.max,
                            step |-> IF slider.step > 0 THEN slider.step ELSE 1]
                 ELSE [min |-> eng.min, max |-> eng.max, step |-> 1]
    IN IF ~legacy /\ d.tag.eng # Missing THEN d.tag
       ELSE [d.tag EXCEPT !.eng = eng,
                          !.write = IF @ # Missing \/ d.tag.access # "read" THEN NormalWrite(write, eng) ELSE Missing]

\* Mutant: every part inherits from its tag.
MigratedPartInherits(tag, part) == IF part.mode # Missing THEN part ELSE [part EXCEPT !.mode = "inherit"]

\* A part keeps a range of its own if it differs from what it would inherit.
MigratedPart(tag, part) ==
    LET inherited == IF part.type = "slider" THEN WriteLimits(tag) ELSE Engineering(tag)
        own == part.min < part.max /\ ~(part.min = inherited.min /\ part.max = inherited.max)
        with == [part EXCEPT !.mode = IF own THEN "custom" ELSE "inherit"]
        range == ResolveDisplay(tag, with)
    IN IF part.mode # Missing THEN part
       ELSE IF part.type = "slider" \/ ZonesFit(range, part) THEN with
       ELSE [with EXCEPT !.low = DefaultZones(range).low, !.high = DefaultZones(range).high]

Migrated(d, legacy) ==
    LET tag == MigratedTag(d, legacy)
    IN [tag |-> tag, parts |-> [i \in DOMAIN d.parts |-> MigratedPart(tag, d.parts[i])]]

-----------------------------------------------------------------------------
(* The page.                                                               *)

NumericInit ==
    /\ \E p \in Projects : stored = p.doc /\ age = p.age
    /\ sheet = Missing
    /\ typed = 0

Open ==
    /\ sheet = Missing
    /\ sheet' = Migrated(stored, age = "legacy")
    /\ UNCHANGED <<stored, age, typed>>

\* The browser is closed, what was not saved is gone.
Leave ==
    /\ sheet # Missing
    /\ sheet' = Missing
    /\ UNCHANGED <<stored, age, typed>>

\* saveDraft, and the same check at PUT /api/draft.
Save ==
    /\ sheet # Missing
    /\ Valid(sheet)
    /\ stored' = sheet
    /\ age' = "current"
    /\ UNCHANGED <<sheet, typed>>

Change(tag, parts) ==
    /\ typed < MaxEdits
    /\ typed' = typed + 1
    /\ sheet' = [tag |-> tag, parts |-> parts]
    /\ UNCHANGED <<stored, age>>

\* The card of the tag: a field changes one number of what the card shows.
EditEngineering ==
    \E field \in {"min", "max"}, n \in Numbers :
        Change([sheet.tag EXCEPT !.eng = [Engineering(sheet.tag) EXCEPT ![field] = n]], sheet.parts)

EditLimits ==
    \E field \in {"min", "max", "step"}, n \in Numbers :
        /\ sheet.tag.access # "read"
        /\ Change([sheet.tag EXCEPT !.write = [WriteLimits(sheet.tag) EXCEPT ![field] = n]], sheet.parts)

EditAccess ==
    \E access \in {"read", "read-write"} :
        LET eng == Engineering(sheet.tag)
            write == IF access # "read" /\ sheet.tag.write = Missing
                     THEN [min |-> eng.min, max |-> eng.max, step |-> 1] ELSE sheet.tag.write
        IN Change([sheet.tag EXCEPT !.access = access, !.write = write], sheet.parts)

EditTrigger ==
    \/ \E trigger \in {Missing} \cup {NewTrigger(sheet.tag, op) : op \in {"limit", "range"}} :
          Change([sheet.tag EXCEPT !.alarm = trigger], sheet.parts)
    \/ \E n \in Numbers :
          /\ sheet.tag.alarm # Missing
          /\ LET alarm == sheet.tag.alarm
             IN \/ alarm.op = "limit" /\ Change([sheet.tag EXCEPT !.alarm = [alarm EXCEPT !.lo = n, !.hi = n]], sheet.parts)
                \/ alarm.op = "range" /\ Change([sheet.tag EXCEPT !.alarm = [alarm EXCEPT !.lo = n]], sheet.parts)
                \/ alarm.op = "range" /\ Change([sheet.tag EXCEPT !.alarm = [alarm EXCEPT !.hi = n]], sheet.parts)

\* The inspector: a custom range begins as what the part shows, and only a
\* custom range can be typed in.
EditMode ==
    \E i \in DOMAIN sheet.parts :
        LET part == sheet.parts[i]
            shown == ResolveWrite(sheet.tag, part)
            range == ResolveDisplay(sheet.tag, part)
            own == IF part.type = "slider"
                   THEN [part EXCEPT !.mode = "custom", !.min = shown.min, !.max = shown.max, !.step = shown.step]
                   ELSE [part EXCEPT !.mode = "custom", !.min = range.min, !.max = range.max]
        IN \E new \in {own, [part EXCEPT !.mode = "inherit"]} : Change(sheet.tag, [sheet.parts EXCEPT ![i] = new])

EditPart ==
    \E i \in DOMAIN sheet.parts, n \in Numbers :
        LET part == sheet.parts[i] IN
        \E field \in (IF part.mode = "inherit" THEN {} ELSE {"min", "max"})
                     \cup (IF part.type = "gauge" THEN {"low", "high"}
                           ELSE IF part.mode = "inherit" THEN {} ELSE {"step"}) :
            Change(sheet.tag, [sheet.parts EXCEPT ![i] = [part EXCEPT ![field] = n]])

Edits == EditEngineering \/ EditLimits \/ EditAccess \/ EditTrigger \/ EditMode \/ EditPart

NumericNext == Open \/ Leave \/ Save \/ (sheet # Missing /\ Edits)

-----------------------------------------------------------------------------
(***************************************************************************)
(* Properties.                                                             *)
(***************************************************************************)

\* A slider of a tag that has a range never leaves the tag's command limits,
\* nor they the tag's range, whatever the fields of the page and the older
\* projects hold (resolveNumericRange, numericWriteConstraints).
SliderWithinTag ==
    sheet # Missing /\ HasEngineering(sheet.tag) =>
        \A i \in DOMAIN sheet.parts :
            LET limits == WriteLimits(sheet.tag)
                range == ResolveWrite(sheet.tag, sheet.parts[i])
            IN /\ Within(limits, Engineering(sheet.tag))
               /\ Within(range, limits)
               /\ 0 < range.step

\* A part of its own range is shown with it: what was saved is what a runtime
\* resolves, nothing falls back to a default.  Left out are the two cases that do,
\* because validateProjectSchema looks at the resolved range only: a step larger
\* than its slider's range, and a gauge whose maximum is not above its minimum.
SavedIsApplied ==
    age = "current" /\ Valid(stored) =>
        \A i \in DOMAIN stored.parts :
            LET part == stored.parts[i]
                set == ResolveWrite(stored.tag, part)
                shown == ResolveDisplay(stored.tag, part)
            IN part.mode = "custom" =>
                IF part.type = "slider"
                THEN /\ set.min = part.min /\ set.max = part.max
                     /\ part.step <= part.max - part.min => set.step = part.step
                ELSE /\ part.min < part.max => shown.min = part.min /\ shown.max = part.max
                     /\ GaugeZones(shown, part) = [low |-> part.low, high |-> part.high]

\* A trigger that is saved is armed: validateProjectSchema and numericAlarmRule
\* agree on what a valid trigger is, after any edit of the tag's range.
SavedTriggerIsArmed ==
    age = "current" /\ Valid(stored) => EffectiveTrigger(stored.tag) = stored.tag.alarm

\* Opening an older project changes no range: a gauge shows, and a slider sends,
\* what its own minimum and maximum were, or the migrated draft is reported.
MigrationKeepsRanges ==
    sheet # Missing /\ age = "legacy" /\ typed = 0 /\ Valid(sheet) =>
        \A i \in DOMAIN sheet.parts :
            LET old == stored.parts[i]
                range == IF old.type = "slider" THEN ResolveWrite(sheet.tag, sheet.parts[i])
                         ELSE ResolveDisplay(sheet.tag, sheet.parts[i])
            IN old.min < old.max /\ old.mode = Missing => range.min = old.min /\ range.max = old.max

NumericInv == SliderWithinTag /\ SavedIsApplied /\ SavedTriggerIsArmed /\ MigrationKeepsRanges
=============================================================================
