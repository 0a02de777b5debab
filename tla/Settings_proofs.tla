--------------------------- MODULE Settings_proofs ---------------------------
(***************************************************************************)
(* Proofs about the configuration: a change is never forgotten, the         *)
(* controllers follow it, and a save that the power cuts leaves the old or   *)
(* the new configuration, for any number of changes, boots and power cuts.  *)
(* Everything rests on SettingsAssumption.                                  *)
(***************************************************************************)
EXTENDS Settings, Integers, FiniteSetTheorems, TLAPS

Chars == {"none", "digit", "brace", "newline"}
Files == [exists : BOOLEAN, cfg : Configs, size : Nat, chars : [Position -> Chars]]

\* The variables that the arguments below compute with have their types.
TypeInv ==
    /\ file \in Files
    /\ app \in Configs
    /\ updated \in BOOLEAN /\ saveFailed \in BOOLEAN
    /\ jumped \in BOOLEAN /\ missedApply \in BOOLEAN
    /\ faults \in Nat

\* A file with contents covers its closing brace, and has nothing but newlines
\* behind it.
WellFormed(f) ==
    f.size > 0 =>
        /\ f.exists
        /\ f.size > Longer(f.cfg)
        /\ \A p \in Position : Longer(f.cfg) + 1 < p /\ p <= f.size => f.chars[p] = "newline"

IInv ==
    /\ TypeInv
    /\ faults = 0 /\ ~jumped => WellFormed(file) /\ Loaded(file) \in promised

-----------------------------------------------------------------------------
(* Texts and files *)

\* The length of a text is a natural number.
LEMMA LongerIsNat == \A cfg : Longer(cfg) \in Nat
<1>1. IsFiniteSet(Channels)
  <2>1. 1 \in Int /\ 2 \in Int
    OBVIOUS
  <2>2. IsFiniteSet(1 .. 2)
    BY <2>1, FS_Interval, Zenon
  <2> QED BY <2>2 DEF Channels
<1>2. \A cfg : {c \in Channels : cfg[c].baud = 1000} \subseteq Channels
  OBVIOUS
<1> QED BY <1>1, <1>2, FS_Subset, FS_CardinalityType DEF Longer

LEMMA DefaultsType == Defaults \in Configs
<1>1. [baud |-> 250, mode |-> "listen only"] \in [baud : Bauds, mode : Modes]
  BY SettingsAssumption
<1> QED BY <1>1 DEF Defaults, Configs

\* Overwriting yields a file with the new text in front.
LEMMA OverwrittenIs ==
  ASSUME NEW f \in Files, NEW cfg \in Configs
  PROVE  LET g == Overwritten(f, cfg)
         IN  /\ g \in Files
             /\ g.exists = f.exists /\ g.cfg = cfg /\ g.size = f.size
             /\ \A p \in Position :
                   g.chars[p] = IF p <= TextLength(cfg) THEN TextEnd(cfg, p) ELSE f.chars[p]
<1> DEFINE cs == [p \in Position |-> IF p <= TextLength(cfg) THEN TextEnd(cfg, p) ELSE f.chars[p]]
           g == [f EXCEPT !.cfg = cfg, !.chars = cs]
<1>1. Overwritten(f, cfg) = g
  BY DEF Overwritten
<1>2. cs \in [Position -> Chars]
  BY DEF Files, TextEnd, Chars
<1>3. g \in Files /\ g.exists = f.exists /\ g.cfg = cfg /\ g.size = f.size /\ g.chars = cs
  BY <1>2 DEF Files
<1>4. \A p \in Position : cs[p] = IF p <= TextLength(cfg) THEN TextEnd(cfg, p) ELSE f.chars[p]
  OBVIOUS
<1> QED BY <1>1, <1>3, <1>4

\* So does a completed save, which also covers the text.
LEMMA ClosedIs ==
  ASSUME NEW f \in Files, NEW cfg \in Configs
  PROVE  LET g == Closed(f, cfg)
         IN  /\ g \in Files
             /\ g.exists /\ g.cfg = cfg
             /\ g.size = IF TextLength(cfg) > f.size THEN TextLength(cfg) ELSE f.size
             /\ \A p \in Position :
                   g.chars[p] = IF p <= TextLength(cfg) THEN TextEnd(cfg, p) ELSE f.chars[p]
<1> DEFINE o == Overwritten(f, cfg)
           n == IF TextLength(cfg) > o.size THEN TextLength(cfg) ELSE o.size
           g == [o EXCEPT !.exists = TRUE, !.size = n]
<1>1. Closed(f, cfg) = g
  BY DEF Closed
<1>2. /\ o \in Files /\ o.cfg = cfg /\ o.size = f.size
      /\ \A p \in Position :
            o.chars[p] = IF p <= TextLength(cfg) THEN TextEnd(cfg, p) ELSE f.chars[p]
  BY OverwrittenIs
<1> HIDE DEF o
<1>3. n \in Nat
  BY <1>2, LongerIsNat DEF TextLength, Files
<1> HIDE DEF n
<1>4. g \in Files /\ g.exists /\ g.cfg = o.cfg /\ g.size = n /\ g.chars = o.chars
  BY <1>2, <1>3 DEF Files
<1> QED BY <1>1, <1>2, <1>4 DEF n

\* A file in good order is read as it was written, or has no contents.
LEMMA LoadedIs ==
  ASSUME NEW f \in Files, WellFormed(f)
  PROVE  Loaded(f) = IF f.size > 0 THEN f.cfg ELSE Defaults
<1>1. CASE f.size > 0
  BY <1>1 DEF WellFormed, Loaded, Readable
<1>2. CASE ~(f.size > 0)
  <2>1. ~(f.size > Longer(f.cfg))
    BY <1>2, LongerIsNat DEF Files
  <2> QED BY <1>2, <2>1 DEF Loaded, Readable
<1> QED BY <1>1, <1>2

\* What an overwritten file shows behind the new brace.
LEMMA OnlyNewlines ==
  ASSUME NEW f \in Files, WellFormed(f), NEW cfg \in Configs, ~Jump(f, cfg),
         NEW p \in Position, Longer(cfg) + 1 < p,
         p <= TextLength(cfg) \/ p <= f.size
  PROVE  (IF p <= TextLength(cfg) THEN TextEnd(cfg, p) ELSE f.chars[p]) = "newline"
<1> USE LongerIsNat
<1>0. p \in Nat /\ p > 0 /\ f.size \in Nat
  BY DEF Position, Files
<1>1. CASE p <= TextLength(cfg)
  BY <1>0, <1>1 DEF TextEnd
<1>2. CASE ~(p <= TextLength(cfg))
  <2>1. f.size > 0 /\ p <= f.size
    BY <1>0, <1>2
  <2>2. Longer(f.cfg) + 1 < p
    BY <1>0, <1>2 DEF Jump, TextLength
  <2> QED BY <1>2, <2>1, <2>2 DEF WellFormed
<1> QED BY <1>1, <1>2

\* Every outcome of a save but a jump leaves the file in good order, with its
\* old or its new contents.
LEMMA SaveKeepsOrder ==
  ASSUME NEW f \in Files, WellFormed(f), NEW cfg \in Configs, ~Jump(f, cfg)
  PROVE  /\ WellFormed(Closed(f, cfg)) /\ Loaded(Closed(f, cfg)) = cfg
         /\ \A g \in HalfClosed(f, cfg) :
               g \in Files /\ WellFormed(g) /\ Loaded(g) \in {Loaded(f), cfg}
<1> USE LongerIsNat
<1> DEFINE c == Closed(f, cfg)
           o == Overwritten(f, cfg)
<1>1. /\ c \in Files /\ c.exists /\ c.cfg = cfg
      /\ c.size = IF TextLength(cfg) > f.size THEN TextLength(cfg) ELSE f.size
      /\ \A p \in Position :
            c.chars[p] = IF p <= TextLength(cfg) THEN TextEnd(cfg, p) ELSE f.chars[p]
  BY ClosedIs
<1>2. /\ o \in Files /\ o.exists = f.exists /\ o.cfg = cfg /\ o.size = f.size
      /\ \A p \in Position :
            o.chars[p] = IF p <= TextLength(cfg) THEN TextEnd(cfg, p) ELSE f.chars[p]
  BY OverwrittenIs
<1> HIDE DEF c, o
<1>3. WellFormed(c) /\ Loaded(c) = cfg
  <2>1. c.size > Longer(cfg) /\ c.size > 0
    BY <1>1 DEF TextLength, Files
  <2>2. \A p \in Position : Longer(cfg) + 1 < p /\ p <= c.size => c.chars[p] = "newline"
    <3> SUFFICES ASSUME NEW p \in Position, Longer(cfg) + 1 < p, p <= c.size
                 PROVE  c.chars[p] = "newline"
      OBVIOUS
    <3>1. p <= TextLength(cfg) \/ p <= f.size
      BY <1>1
    <3> QED BY <1>1, <3>1, OnlyNewlines
  <2>3. WellFormed(c)
    BY <1>1, <2>1, <2>2 DEF WellFormed
  <2> QED BY <1>1, <2>1, <2>3, LoadedIs
<1>4. f.size > 0 => WellFormed(o) /\ Loaded(o) = cfg
  <2> SUFFICES ASSUME f.size > 0
               PROVE  WellFormed(o) /\ Loaded(o) = cfg
    OBVIOUS
  <2>1. o.size > Longer(cfg)
    BY <1>2 DEF Jump, Files
  <2>2. \A p \in Position : Longer(cfg) + 1 < p /\ p <= o.size => o.chars[p] = "newline"
    <3> SUFFICES ASSUME NEW p \in Position, Longer(cfg) + 1 < p, p <= o.size
                 PROVE  o.chars[p] = "newline"
      OBVIOUS
    <3> QED BY <1>2, OnlyNewlines
  <2>3. WellFormed(o)
    BY <1>2, <2>1, <2>2 DEF WellFormed
  <2> QED BY <1>2, <2>3, LoadedIs
<1>5. \A g \in HalfClosed(f, cfg) :
        g \in Files /\ WellFormed(g) /\ Loaded(g) \in {Loaded(f), cfg}
  <2> SUFFICES ASSUME NEW g \in HalfClosed(f, cfg)
               PROVE  g \in Files /\ WellFormed(g) /\ Loaded(g) \in {Loaded(f), cfg}
    OBVIOUS
  <2>1. g = f \/ (f.size > 0 /\ g = o)
    BY DEF HalfClosed, o, Files
  <2> QED BY <1>2, <1>4, <2>1
<1> QED BY <1>3, <1>5 DEF c

-----------------------------------------------------------------------------
(* Saving and loading *)

\* What cannot be read gives the defaults, so that loading is total.
LEMMA LoadedType ==
  ASSUME NEW f \in Files
  PROVE  Loaded(f) \in Configs
BY DefaultsType DEF Loaded, Files

\* A controller takes over the baud rate, and every mode but "off".
LEMMA ConfiguredIs ==
  ASSUME NEW old, NEW cfg \in Configs, NEW c \in Channels
  PROVE  /\ Configured(old, cfg)[c].baud = cfg[c].baud
         /\ cfg[c].mode # "off" => Configured(old, cfg)[c].mode = cfg[c].mode
<1>1. cfg[c] \in [baud : Bauds, mode : Modes]
  BY DEF Configs
<1>2. Configured(old, cfg)[c] =
        [cfg[c] EXCEPT !.mode = IF @ = "off" THEN old[c].mode ELSE @]
  BY DEF Configured
<1> QED BY <1>1, <1>2

\* No file, and an emptied one, are files in good order.
LEMMA EmptyIs ==
  /\ NoFile \in Files /\ WellFormed(NoFile) /\ Loaded(NoFile) = Defaults
  /\ EmptyFile \in Files /\ WellFormed(EmptyFile)
<1>1. NoFile \in Files /\ NoFile.size = 0
  BY DefaultsType DEF NoFile, Files, Chars
<1>2. EmptyFile \in Files /\ EmptyFile.size = 0
  BY <1>1 DEF EmptyFile, Files
<1> QED BY <1>1, <1>2, LoadedIs DEF WellFormed

\* A half-closed file is a file.
LEMMA HalfClosedType ==
  ASSUME NEW f \in Files, NEW cfg \in Configs, NEW g \in HalfClosed(f, cfg)
  PROVE  g \in Files
<1>1. g = f \/ g = Overwritten(f, cfg)
  BY DEF HalfClosed
<1> QED BY <1>1, OverwrittenIs

\* The state of the card and the ghosts after a round of the loop that saves.
LEMMA SaveStep ==
  ASSUME IInv, SaveReportsOk \/ SaveReportsFailure \/ SaveReplacesFile
  PROVE  /\ file' \in Files /\ faults' \in Nat
         /\ jumped' \in BOOLEAN /\ saveFailed' \in BOOLEAN
         /\ faults' = 0 /\ ~jumped' => WellFormed(file') /\ Loaded(file') \in promised'
         /\ saved' = app \/ saveFailed'
<1> USE DEF IInv, TypeInv
<1>1. CASE SaveReportsOk
  <2>1. /\ file' = Closed(file, app) /\ faults' = faults
        \/ /\ file' \in HalfClosed(file, app) /\ faults' = faults + 1
    BY <1>1 DEF SaveReportsOk, Failed
  <2>2. file' \in Files
    BY <2>1, ClosedIs, HalfClosedType
  <2>3. ASSUME faults' = 0, ~jumped'
        PROVE  WellFormed(file') /\ Loaded(file') \in promised'
    <3>1. faults = 0 /\ file' = Closed(file, app)
      BY <2>1, <2>3
    <3>2. ~jumped /\ ~Jump(file, app)
      BY <1>1, <2>3 DEF SaveReportsOk
    <3>3. promised' = {app}
      BY <1>1 DEF SaveReportsOk
    <3> QED BY <3>1, <3>2, <3>3, SaveKeepsOrder
  <2>4. jumped' = (jumped \/ Jump(file, app))
    BY <1>1 DEF SaveReportsOk
  <2>5. (jumped \/ Jump(file, app)) \in BOOLEAN
    BY Zenon DEF Jump
  <2>6. saved' = app /\ saveFailed' = FALSE
    BY <1>1 DEF SaveReportsOk
  <2>7. faults' \in Nat
    BY <2>1
  <2> QED BY <2>2, <2>3, <2>4, <2>5, <2>6, <2>7
<1>2. CASE SaveReportsFailure
  <2>1. /\ file' = file /\ faults' = faults
        \/ /\ file' \in {file, EmptyFile} /\ faults' = faults + 1
    BY <1>2 DEF SaveReportsFailure, Failed
  <2>2. file' \in Files
    BY <2>1, EmptyIs
  <2>3. UNCHANGED <<promised, jumped>> /\ saveFailed' = TRUE
    BY <1>2 DEF SaveReportsFailure
  <2>4. faults' \in Nat /\ (faults' = 0 => faults = 0 /\ file' = file)
    BY <2>1
  <2> QED BY <2>2, <2>3, <2>4
<1>3. CASE SaveReplacesFile
  <2>1. file' = Closed(EmptyFile, app) /\ faults' = faults + 1
    BY <1>3 DEF SaveReplacesFile, Failed
  <2>2. file' \in Files
    BY <2>1, EmptyIs, ClosedIs
  <2>3. UNCHANGED jumped /\ saveFailed' = FALSE /\ saved' = app
    BY <1>3 DEF SaveReplacesFile
  <2>4. faults' \in Nat /\ faults' # 0
    BY <2>1
  <2> QED BY <2>2, <2>3, <2>4
<1> QED BY <1>1, <1>2, <1>3

-----------------------------------------------------------------------------
(* The invariant of the file *)

LEMMA InitInv == Init => IInv
<1> SUFFICES ASSUME Init PROVE IInv
  OBVIOUS
<1>1. TypeInv
  BY EmptyIs, DefaultsType DEF Init, TypeInv
<1> QED BY <1>1, EmptyIs DEF Init, IInv

\* A power cut in a save leaves one of the two configurations.
LEMMA CutStep ==
  ASSUME IInv, PowerCutInSave
  PROVE  IInv'
<1> USE DEF IInv, TypeInv
<1>1. /\ file' \in HalfClosed(file, app) \cup {Closed(file, app)}
      /\ promised' = promised \cup {app}
      /\ jumped' = (jumped \/ Jump(file, app))
      /\ UNCHANGED <<saveFailed, missedApply, faults>>
      /\ app' = Defaults /\ updated' = FALSE
  BY DEF PowerCutInSave, LoseRam
<1>2. file' \in Files
  BY <1>1, HalfClosedType, ClosedIs
<1>3. jumped' \in BOOLEAN
  BY <1>1, Zenon DEF Jump
<1>4. ASSUME faults' = 0, ~jumped'
      PROVE  WellFormed(file') /\ Loaded(file') \in promised'
  <2>1. WellFormed(file) /\ Loaded(file) \in promised /\ ~Jump(file, app)
    BY <1>1, <1>4
  <2> QED BY <1>1, <2>1, SaveKeepsOrder
<1> QED BY <1>1, <1>2, <1>3, <1>4, DefaultsType

LEMMA BootStep ==
  ASSUME IInv, Boot
  PROVE  IInv'
<1> USE DEF IInv, TypeInv
<1>1. /\ UNCHANGED <<file, updated, jumped>>
      /\ saveFailed' = FALSE /\ missedApply' = FALSE /\ promised' = {app'}
      /\ \/ app' = Loaded(file) /\ faults' = faults
         \/ app' = Defaults /\ faults' = faults + 1
  BY DEF Boot, Loads, Failed
<1>2. app' \in Configs
  BY <1>1, LoadedType, DefaultsType
<1>3. faults' \in Nat /\ (faults' = 0 => faults = 0 /\ app' = Loaded(file))
  BY <1>1
<1> QED BY <1>1, <1>2, <1>3

LEMMA LoopStep ==
  ASSUME IInv, Loop
  PROVE  IInv'
<1> USE DEF IInv, TypeInv
<1>1. app' = app /\ updated' = FALSE
  BY DEF Loop
<1>2. missedApply' \in BOOLEAN
  BY Zenon DEF Loop, Apply
<1>3. CASE updated
  <2>1. SaveReportsOk \/ SaveReportsFailure \/ SaveReplacesFile
    BY <1>3 DEF Loop
  <2> QED BY <1>1, <1>2, <2>1, SaveStep
<1>4. CASE ~updated
  <2>1. UNCHANGED <<file, saveFailed, promised, jumped, faults>>
    BY <1>4 DEF Loop
  <2> QED BY <1>1, <1>2, <2>1
<1> QED BY <1>3, <1>4

LEMMA StepInv == IInv /\ [Next]_vars => IInv'
<1> SUFFICES ASSUME IInv, [Next]_vars PROVE IInv'
  OBVIOUS
<1> USE DEF IInv, TypeInv
<1>1. ASSUME NEW c \in Channels, NEW b \in Bauds, SetBaud(c, b) PROVE IInv'
  <2>1. [app EXCEPT ![c].baud = b] \in Configs
    BY DEF Configs
  <2> QED BY <1>1, <2>1 DEF SetBaud
<1>8. ASSUME NEW c \in Channels, NEW m \in Modes, SetMode(c, m) PROVE IInv'
  <2>1. [app EXCEPT ![c].mode = m] \in Configs
    BY DEF Configs
  <2> QED BY <1>8, <2>1 DEF SetMode
<1>2. CASE RequestApply
  BY <1>2 DEF RequestApply, ghostVars
<1>3. CASE RequestRecording
  BY <1>3 DEF RequestRecording, ghostVars
<1>4. CASE RecordingCancelled
  BY <1>4 DEF RecordingCancelled, ghostVars
<1>5. CASE HandoverFails
  BY <1>5 DEF HandoverFails, ghostVars
<1>6. CASE PowerCut
  BY <1>6, DefaultsType DEF PowerCut, LoseRam, ghostVars
<1>7. CASE UNCHANGED vars
  BY <1>7 DEF vars, ramVars, ghostVars
<1> QED BY <1>1, <1>2, <1>3, <1>4, <1>5, <1>6, <1>7, <1>8, CutStep, BootStep, LoopStep DEF Next

-----------------------------------------------------------------------------
(* Theorems *)

\* The invariant that the file and what it promises keep.
THEOREM Invariance == Spec => []IInv
<1> QED BY InitInv, StepInv, PTL DEF Spec

\* A save that the power cuts, in any place and any number of times, leaves the
\* configuration before or the new one, unless the brace moved too far.
THEOREM SavesSurvivePowerCuts == Spec => []SavedConfigLoads
<1>1. IInv => SavedConfigLoads
  BY DEF IInv, SavedConfigLoads
<1> QED BY <1>1, Invariance, PTL

\* A change in RAM is saved, marked, or its save has failed.
THEOREM ChangesAreKept == Spec => []NoChangeForgotten
<1>1. Init => NoChangeForgotten
  BY DEF Init, NoChangeForgotten
<1>2. IInv /\ NoChangeForgotten /\ [Next]_vars => NoChangeForgotten'
  <2> SUFFICES ASSUME IInv, NoChangeForgotten, [Next]_vars
               PROVE  NoChangeForgotten'
    OBVIOUS
  <2> USE DEF NoChangeForgotten
  <2>1. ASSUME NEW c \in Channels, NEW b \in Bauds, SetBaud(c, b)
        PROVE  NoChangeForgotten'
    BY <2>1 DEF SetBaud
  <2>7. ASSUME NEW c \in Channels, NEW m \in Modes, SetMode(c, m)
        PROVE  NoChangeForgotten'
    BY <2>7 DEF SetMode
  <2>2. CASE Loop
    <3>1. up' = up /\ app' = app
      BY <2>2 DEF Loop
    <3>2. CASE updated
      <4>1. SaveReportsOk \/ SaveReportsFailure \/ SaveReplacesFile
        BY <2>2, <3>2 DEF Loop
      <4>2. saved' = app \/ saveFailed'
        BY <4>1, SaveStep
      <4> QED BY <3>1, <4>2
    <3>3. CASE ~updated
      <4>1. saved' = saved /\ saveFailed' = saveFailed
        BY <2>2, <3>3 DEF Loop
      <4> QED BY <3>1, <3>3, <4>1
    <3> QED BY <3>2, <3>3
  <2>3. CASE Boot
    BY <2>3 DEF Boot, Loads
  <2>4. CASE PowerCut \/ PowerCutInSave
    BY <2>4 DEF PowerCut, PowerCutInSave, LoseRam
  <2>5. CASE RequestApply \/ RequestRecording \/ RecordingCancelled \/ HandoverFails
    BY <2>5 DEF RequestApply, RequestRecording, RecordingCancelled, HandoverFails, ghostVars
  <2>6. CASE UNCHANGED vars
    BY <2>6 DEF vars, ramVars, ghostVars
  <2> QED BY <2>1, <2>2, <2>3, <2>4, <2>5, <2>6, <2>7 DEF Next
<1> QED BY <1>1, <1>2, Invariance, PTL DEF Spec

\* The controllers have the configuration in RAM, but for the exceptions that
\* HardwareFollows names.
THEOREM ControllersFollow == Spec => []HardwareFollows
<1>1. Init => HardwareFollows
  BY DEF Init, HardwareFollows
<1>2. IInv /\ HardwareFollows /\ [Next]_vars => HardwareFollows'
  <2> SUFFICES ASSUME IInv, HardwareFollows, [Next]_vars
               PROVE  HardwareFollows'
    OBVIOUS
  <2> USE DEF HardwareFollows
  <2>1. ASSUME NEW c \in Channels, NEW b \in Bauds, SetBaud(c, b)
        PROVE  HardwareFollows'
    BY <2>1 DEF SetBaud
  <2>2. ASSUME NEW c \in Channels, NEW m \in Modes, SetMode(c, m)
        PROVE  HardwareFollows'
    BY <2>2 DEF SetMode
  <2>3. CASE Loop
    <3>1. up' = up /\ app' = app
      BY <2>3 DEF Loop
    <3>2. CASE applyConfig /\ ~recording' /\ updated
      <4>1. controllers' = Configured(controllers, app) /\ untold' = FALSE
        BY <2>3, <3>2 DEF Loop, Apply
      <4>2. app \in Configs
        BY DEF IInv, TypeInv
      <4> QED BY <3>1, <4>1, <4>2, ConfiguredIs
    <3>3. CASE ~(applyConfig /\ ~recording' /\ updated)
      <4>1. controllers' = controllers /\ untold' = untold
        BY <2>3, <3>3 DEF Loop, Apply
      <4>2. ~missedApply' => ~missedApply /\ ~updated
        BY <2>3, <3>3 DEF Loop, Apply
      <4> QED BY <3>1, <4>1, <4>2
    <3> QED BY <3>2, <3>3
  <2>4. CASE Boot
    <3>1. \/ Loads(Loaded(file), Readable(file))
          \/ Loads(Defaults, FALSE)
      BY <2>4 DEF Boot
    <3>2. ASSUME NEW cfg \in Configs, Loads(cfg, TRUE)
          PROVE  HardwareFollows'
      <4>1. app' = cfg /\ controllers' = Configured(Initialised, cfg) /\ untold' = FALSE
        BY <3>2 DEF Loads
      <4> QED BY <4>1, ConfiguredIs
    <3>3. ASSUME Loads(Defaults, FALSE)
          PROVE  HardwareFollows'
      <4>1. app' = Defaults /\ controllers' = Initialised /\ untold' = TRUE
        BY <3>3 DEF Loads
      <4> QED BY <4>1 DEF Defaults, Initialised
    <3>4. Readable(file) \/ Loaded(file) = Defaults
      BY DEF Loaded
    <3>5. Readable(file) \in BOOLEAN
      BY DEF Readable
    <3>6. Loaded(file) \in Configs
      BY LoadedType DEF IInv, TypeInv
    <3> QED BY <3>1, <3>2, <3>3, <3>4, <3>5, <3>6
  <2>5. CASE PowerCut \/ PowerCutInSave
    BY <2>5 DEF PowerCut, PowerCutInSave, LoseRam
  <2>6. CASE RequestApply \/ RequestRecording \/ RecordingCancelled \/ HandoverFails
    <3>1. UNCHANGED <<up, app, updated, controllers, missedApply, untold>>
      BY <2>6 DEF RequestApply, RequestRecording, RecordingCancelled, HandoverFails, ghostVars
    <3> QED BY <3>1
  <2>7. CASE UNCHANGED vars
    <3>1. UNCHANGED <<up, app, updated, controllers, missedApply, untold>>
      BY <2>7 DEF vars, ramVars, ghostVars
    <3> QED BY <3>1
  <2> QED BY <2>1, <2>2, <2>3, <2>4, <2>5, <2>6, <2>7 DEF Next
<1> QED BY <1>1, <1>2, Invariance, PTL DEF Spec
=============================================================================
