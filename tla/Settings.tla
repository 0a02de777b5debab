------------------------------ MODULE Settings ------------------------------
(***************************************************************************)
(* The configuration of the two CAN channels: changed by the parameters of  *)
(* web forms (SettingsHandler.c), saved and applied by the main loop        *)
(* (Core0Task0.c), kept in CONF.TXT (ConfigManager.c, FileHandler.c) and    *)
(* loaded at boot.  The card fails and the power goes at any time, also     *)
(* between the two sectors that closing a file writes.                      *)
(*                                                                          *)
(* A configuration is the baud rate of each channel in kbit/s and its mode. *)
(* Of the text only its last characters matter: a baud rate of 1000000      *)
(* makes it one character longer, a mode never does, and a shorter text     *)
(* does not cut the file.                                                   *)
(***************************************************************************)
EXTENDS Naturals, FiniteSets

CONSTANTS
    Bauds,      \* the baud rates the form offers
    Modes,      \* the modes a request may name: FDCAN_MODE_1, _2 and, not on the form, _3
    MaxChanges, \* bound: changes of a baud rate or a mode
    MaxBoots,   \* bound: boots
    MaxFaults   \* bound: failing operations of the card

Channels == 1 .. 2
Configs == [Channels -> [baud : Bauds, mode : Modes]]

ASSUME SettingsAssumption ==
    /\ Bauds \subseteq {250, 500, 1000} /\ 250 \in Bauds
    /\ Modes \subseteq {"normal", "listen only", "off"} /\ "listen only" \in Modes
    /\ {MaxChanges, MaxFaults} \subseteq Nat /\ MaxBoots \in Nat \ {0}

VARIABLES
    file,       \* CONF.TXT on the card
    up,         \* the boot is through
    mounted,    \* AppCtrlData.mountRes
    app,        \* AppConfig, which AppSettings points to
    updated,    \* AppConfig.updated
    applyConfig, \* AppCtrlData.applyConfig
    recording,  \* AppCtrlData.runCanTracer
    requested,  \* AppCtrlData.requestedRunCanTracer, canTracerActionPending
    controllers, \* what the CAN controllers run with
    log,        \* the baud rates the log manager knows (CanLogCtrlData)
    saved,      \* ghost: the configuration of the last save that reported success
    promised,   \* ghost: what the next boot may find
    saveFailed, \* ghost: the last save reported a failure
    jumped,     \* ghost: a save moved the closing brace too far (Jump)
    missedApply, \* ghost: a change was saved by a loop that did not apply it
    untold,     \* ghost: the boot found no configuration, and none was applied since
    cut,        \* ghost: the power went during a save
    changes, boots, faults

ramVars == <<up, mounted, app, updated, applyConfig, recording, requested, controllers, log>>
ghostVars == <<saved, promised, saveFailed, jumped, missedApply, untold, cut,
              changes, boots, faults>>
vars == <<file, ramVars, ghostVars>>

Defaults == [c \in Channels |-> [baud |-> 250, mode |-> "listen only"]]
BaudRates(cfg) == [c \in Channels |-> cfg[c].baud]
Unknown == [c \in Channels |-> 0]   \* CanLogCtrlData before a parameter is set

\* appFdcanInit is given the default baud rates, and no mode: the build's
\* FDCAN_MODE_DEFAULT is FDCAN_MODE_NORMAL.
Initialised == [c \in Channels |-> [baud |-> 250, mode |-> "normal"]]

\* appCanCtrlSetBaudrate and appCanCtrlSetMode: FDCAN_SetMode does not know the
\* mode "off" and refuses it, which nobody acts upon.
Configured(old, cfg) ==
    [c \in Channels |-> [cfg[c] EXCEPT !.mode = IF @ = "off" THEN old[c].mode ELSE @]]

MayFail == faults < MaxFaults
Failed == MayFail /\ faults' = faults + 1

-----------------------------------------------------------------------------
(* The file *)

\* Characters that the text of a configuration has more than the shortest.
Longer(cfg) == Cardinality({c \in Channels : cfg[c].baud = 1000})

\* The end of the text: digits in the place of what a shorter text has there,
\* the closing brace and the newline.  Positions count from the shortest
\* text's brace.
Position == 1 .. 4
\* (a slip: no newline behind the brace)
TextLengthNoNewline(cfg) == Longer(cfg) + 1
TextLength(cfg) == Longer(cfg) + 2
TextEnd(cfg, p) == IF p <= Longer(cfg) THEN "digit"
                   ELSE IF p = Longer(cfg) + 1 THEN "brace" ELSE "newline"

NoFile == [exists |-> FALSE, cfg |-> Defaults, size |-> 0, chars |-> [p \in Position |-> "none"]]
EmptyFile == [NoFile EXCEPT !.exists = TRUE]

\* f_write from the file's start: what the text does not reach stays.
Overwritten(f, cfg) ==
    [f EXCEPT !.cfg = cfg,
              !.chars = [p \in Position |->
                           IF p <= TextLength(cfg) THEN TextEnd(cfg, p) ELSE @[p]]]

\* The directory entry is written behind the data; a file never shrinks.
Closed(f, cfg) ==
    [Overwritten(f, cfg) EXCEPT !.exists = TRUE,
                                !.size = IF TextLength(cfg) > @ THEN TextLength(cfg) ELSE @]

\* What the close leaves when the power goes or the card fails in between: a
\* file that had no cluster yet shows none of its data.
HalfClosed(f, cfg) == {f} \cup (IF f.size = 0 THEN {} ELSE {Overwritten(f, cfg)})

\* JSON_Validate: one value, and nothing but white space behind it.
Readable(f) ==
    /\ f.exists
    /\ f.size > Longer(f.cfg)
    /\ \A p \in Position : Longer(f.cfg) + 1 < p /\ p <= f.size => f.chars[p] = "newline"

\* What the boot makes of it.
Loaded(f) == IF Readable(f) THEN f.cfg ELSE Defaults

-----------------------------------------------------------------------------
(* Callbacks of the web server *)

\* (a slip: a parameter that changes nothing clears the mark of one that did)
SetBaudAssignsMark(c, b) ==
    /\ up /\ changes < MaxChanges
    /\ changes' = changes + 1
    /\ app' = [app EXCEPT ![c].baud = b]
    /\ updated' = (app[c].baud # b)
    /\ UNCHANGED <<file, up, mounted, applyConfig, recording, requested, controllers, log,
                   saved, promised, saveFailed, jumped, missedApply, untold, cut, boots, faults>>

\* consume_param_values for a baud rate; a form's parameters may come in
\* several segments, and the main loop may run in between.
SetBaud(c, b) ==
    /\ up /\ changes < MaxChanges
    /\ app[c].baud # b
    /\ changes' = changes + 1
    /\ app' = [app EXCEPT ![c].baud = b]
    /\ updated' = TRUE
    /\ UNCHANGED <<file, up, mounted, applyConfig, recording, requested, controllers, log,
                   saved, promised, saveFailed, jumped, missedApply, untold, cut, boots, faults>>

\* ... and for a mode.
SetMode(c, m) ==
    /\ up /\ changes < MaxChanges
    /\ app[c].mode # m
    /\ changes' = changes + 1
    /\ app' = [app EXCEPT ![c].mode = m]
    /\ updated' = TRUE
    /\ UNCHANGED <<file, up, mounted, applyConfig, recording, requested, controllers, log,
                   saved, promised, saveFailed, jumped, missedApply, untold, cut, boots, faults>>

RequestApply ==
    /\ up
    /\ applyConfig' = TRUE
    /\ UNCHANGED <<file, up, mounted, app, updated, recording, requested, controllers, log, ghostVars>>

\* The main loop acts on the request a few rounds later.
RequestRecording ==
    /\ up
    /\ requested' \in {"start", "stop"}
    /\ UNCHANGED <<file, up, mounted, app, updated, applyConfig, recording, controllers, log, ghostVars>>

\* The ingest task cancels a recording.
RecordingCancelled ==
    /\ up /\ recording
    /\ recording' = FALSE
    /\ UNCHANGED <<file, up, mounted, app, updated, applyConfig, requested, controllers, log, ghostVars>>

-----------------------------------------------------------------------------
(* The main loop *)

ActOnRequest ==
    \/ UNCHANGED <<recording, requested>>
    \/ /\ requested # "none"
       /\ recording' = (requested = "start")
       /\ requested' = "none"

\* The closing brace moves behind the old end of the file, or back by two.
Jump(f, cfg) ==
    /\ f.size > 0
    /\ f.size <= Longer(cfg) \/ Longer(cfg) + 1 < Longer(f.cfg)

\* ConfigManager_UpdateConfig reports success.  The result of the close is not
\* looked at, so that a card failing there is not noticed.
SaveReportsOk ==
    /\ mounted
    /\ \/ file' = Closed(file, app) /\ UNCHANGED faults
       \/ file' \in HalfClosed(file, app) /\ Failed
    /\ log' = BaudRates(app)
    /\ saved' = app /\ saveFailed' = FALSE
    /\ promised' = {app}
    /\ jumped' = (jumped \/ Jump(file, app))

\* It fails: no card, or the card fails at the open or the write.  An open
\* that fails is tried again with FA_CREATE_ALWAYS, which empties the file.
SaveReportsFailure ==
    /\ \/ ~mounted /\ UNCHANGED <<file, faults>>
       \/ mounted /\ file' \in {file, EmptyFile} /\ Failed
    /\ saveFailed' = TRUE
    /\ UNCHANGED <<log, saved, promised, jumped>>

\* ... or the second open succeeds, and with it the save.
SaveReplacesFile ==
    /\ mounted /\ Failed
    /\ file' = Closed(EmptyFile, app)
    /\ log' = BaudRates(app)
    /\ saved' = app /\ saveFailed' = FALSE
    /\ promised' = {app}
    /\ UNCHANGED jumped

\* An apply request takes effect in the round that saves the change, when
\* nothing is recorded, and is dropped in any other.
Apply ==
    /\ IF applyConfig /\ ~recording' /\ updated
       THEN /\ controllers' = Configured(controllers, app)
            /\ missedApply' = FALSE /\ untold' = FALSE
       ELSE UNCHANGED <<controllers, untold>> /\ missedApply' = (missedApply \/ updated)
    /\ applyConfig' = FALSE

\* One round of the loop.
Loop ==
    /\ up
    /\ ActOnRequest
    /\ IF updated
       THEN SaveReportsOk \/ SaveReportsFailure \/ SaveReplacesFile
       ELSE UNCHANGED <<file, log, saved, saveFailed, promised, jumped, faults>>
    /\ updated' = FALSE
    /\ Apply
    /\ UNCHANGED <<up, mounted, app, cut, changes, boots>>

\* A firmware hand-over unmounts the card; when it fails the loop goes on
\* without it.
HandoverFails ==
    /\ up /\ ~recording /\ mounted
    /\ mounted' = FALSE
    /\ UNCHANGED <<file, up, app, updated, applyConfig, recording, requested, controllers, log, ghostVars>>

-----------------------------------------------------------------------------
(* Power and boot *)

LoseRam ==
    /\ up' = FALSE /\ mounted' = FALSE
    /\ updated' = FALSE /\ applyConfig' = FALSE /\ recording' = FALSE /\ requested' = "none"
    /\ app' = Defaults /\ controllers' = Initialised /\ log' = Unknown

PowerCut ==
    /\ up /\ boots < MaxBoots
    /\ LoseRam
    /\ UNCHANGED <<file, ghostVars>>

\* The power goes while the loop saves: before, between or after the sectors
\* that the close writes.
PowerCutInSave ==
    /\ up /\ boots < MaxBoots
    /\ updated /\ mounted
    /\ LoseRam
    /\ file' \in HalfClosed(file, app) \cup {Closed(file, app)}
    /\ cut' = TRUE
    /\ promised' = promised \cup {app}
    /\ jumped' = (jumped \/ Jump(file, app))
    /\ UNCHANGED <<saved, saveFailed, missedApply, untold, changes, boots, faults>>

\* (a slip: the controllers are not told what was loaded)
LoadsIntoRamOnly(cfg, known) ==
    /\ app' = cfg /\ saved' = cfg
    /\ log' = IF known THEN BaudRates(cfg) ELSE Unknown
    /\ controllers' = Initialised
    /\ untold' = ~known

\* appConfigSetDefaults and appFdcanInit, then ConfigManager_LoadConfig; what
\* cannot be read or parsed leaves the defaults in RAM, the log manager without
\* a baud rate and the controllers as they were initialised.
Loads(cfg, known) ==
    /\ app' = cfg /\ saved' = cfg
    /\ log' = IF known THEN BaudRates(cfg) ELSE Unknown
    /\ controllers' = IF known THEN Configured(Initialised, cfg) ELSE Initialised
    /\ untold' = ~known

Boot ==
    /\ ~up
    /\ boots' = boots + 1
    /\ up' = TRUE /\ mounted' = TRUE
    /\ saveFailed' = FALSE /\ missedApply' = FALSE
    /\ \/ Loads(Loaded(file), Readable(file)) /\ UNCHANGED faults
       \/ Loads(Defaults, FALSE) /\ Failed
    /\ promised' = {app'}
    /\ cut' = FALSE
    /\ UNCHANGED <<file, updated, applyConfig, recording, requested, jumped, changes>>

Init ==
    /\ file = NoFile
    /\ up = FALSE /\ mounted = FALSE
    /\ updated = FALSE /\ applyConfig = FALSE /\ recording = FALSE /\ requested = "none"
    /\ app = Defaults /\ controllers = Initialised /\ log = Unknown
    /\ saved = Defaults /\ promised = {Defaults}
    /\ saveFailed = FALSE /\ jumped = FALSE /\ missedApply = FALSE /\ untold = FALSE /\ cut = FALSE
    /\ changes = 0 /\ boots = 0 /\ faults = 0

Next ==
    \/ \E c \in Channels, b \in Bauds : SetBaud(c, b)
    \/ \E c \in Channels, m \in Modes : SetMode(c, m)
    \/ RequestApply
    \/ RequestRecording
    \/ RecordingCancelled
    \/ Loop
    \/ HandoverFails
    \/ PowerCut
    \/ PowerCutInSave
    \/ Boot

Spec == Init /\ [][Next]_vars

-----------------------------------------------------------------------------
(* Properties *)

\* A save that the power cuts leaves either the configuration before or the
\* new one, although the text is overwritten in place and its length enters the
\* directory last: a text that grew by one character and is read with its old
\* length only lacks the newline behind the brace (SaveRaw, m_CreateJSonString).
\* Left out: a card that fails, both channels leaving the longest baud rate in
\* one save, and a brace that comes to lie behind the old end of the file: both
\* channels entering it in one save, or one after the other over two cut saves.
SavedConfigLoads ==
    faults = 0 /\ ~jumped => Loaded(file) \in promised

\* A change in RAM that is not saved is still marked as updated, or its save
\* failed, which the loop does not try again (consume_param_values, the loop).
NoChangeForgotten ==
    up /\ app # saved => updated \/ saveFailed

\* The controllers run with the configuration in RAM, but for a change not
\* taken up yet or one that a round saved without an apply request of its own
\* or during a recording; also after failing saves and boots.  The mode "off"
\* is never taken over (FDCAN_SetMode), and a boot that finds no configuration
\* leaves the mode "normal", whatever the default in RAM is (Core0Task0Main).
HardwareFollows ==
    up => \/ updated \/ missedApply
          \/ \A c \in Channels :
                /\ controllers[c].baud = app[c].baud
                /\ app[c].mode # "off" =>
                      controllers[c].mode = IF untold THEN "normal" ELSE app[c].mode

\* doc/arc42-template-EN.md:791, "System starts with last persisted CAN baud
\* rates, modes, and IP settings."  Violated without any fault or power cut in
\* a save.
SavedConfigSurvives ==
    faults = 0 /\ ~cut => Loaded(file) = saved
=============================================================================
