--------------------------- MODULE FirmwareUpdate ---------------------------
(***************************************************************************)
(* The firmware update: uploads over HTTP (httpd_post.c), the requests to  *)
(* prepare the slot and to apply the image (fs_custom_iap.c), the          *)
(* verification and the hand-over to the bootloader in the main loop       *)
(* (Iap.c, Core0Task0.c, FwUpdateHandoff.c), and the boot                  *)
(* (mcuboot_port.c).                                                       *)
(*                                                                         *)
(* Everything but the logger's flag belongs to Core0Task0, whose loop is   *)
(* the variable `phase': the callbacks of the HTTP server in any number    *)
(* and order, one step of the verification, the apply request.             *)
(*                                                                         *)
(* The HTTP server is lwIP's.  It names a connection by the address of its *)
(* state, which it takes from a pool: a new connection may have the name   *)
(* of one that is gone.                                                    *)
(***************************************************************************)
EXTENDS IapWriter

CONSTANTS
  Conns,        \* addresses of the server's connection states
  NoConn,       \* NULL
  NumEntries,   \* MEMP_NUM_PARALLEL_HTTPD_CONNS: 8
  BodySizes,    \* bound: lengths of request bodies
  MaxPosts,     \* bound: POST requests
  MaxPrepares,  \* bound: requests to prepare the slot
  MaxFaults,    \* bound: failing flash operations
  MaxBoots,     \* bound: power cuts
  SilentLoss    \* whether a connection may go without httpd_post_finished

ASSUME UpdateAssumption ==
  /\ NoConn \notin Conns /\ NumEntries \in Nat \ {0}
  /\ BodySizes \subseteq Nat /\ SilentLoss \in BOOLEAN

VARIABLES
  post,       \* the server's side of each POST that is under way
  finishing,  \* the connection whose httpd_post_finished is due, or NoConn
  map,        \* conn_map
  current,    \* current_connection; valid_connection is the same between callbacks
  upload,     \* HttpdIapUploadStatus.state
  verify,     \* IapVerifyRuntime.state
  phase,      \* where the loop of Core0Task0 is
  logger,     \* AppCtrlData.runCanTracer
  applying,   \* AppCtrlData.applyFirmwareUpdate
  marker,     \* a valid record lies in the marker sector
  \* history
  certified,  \* the slot, when its verification last succeeded
  unheeded,   \* an erase failed, and the code went on as if it had not
  posts, prepares, faults, boots

httpVars == <<post, finishing, map, current, upload>>
loopVars == <<verify, phase, logger, applying, marker>>
histVars == <<certified, unheeded, posts, prepares, faults, boots>>
vars == <<iapVars, httpVars, loopVars, histVars>>

Post == [id : Nat, len : Nat, sent : Nat, refused : BOOLEAN]
NoPost == [id |-> 0, len |-> 0, sent |-> 0, refused |-> FALSE]

Entry == [conn : Conns \cup {NoConn}, mode : {"form", "upload"}, len : Nat,
          received : Nat, active : BOOLEAN, failed : BOOLEAN]
FreeEntry == [conn |-> NoConn, mode |-> "form", len |-> 0, received |-> 0,
              active |-> FALSE, failed |-> FALSE]

OldImage == [i \in 1..SlotSize |-> <<0, i>>]

TypeOK ==
  /\ IapTypeOK
  /\ post \in [Conns -> Post] /\ finishing \in Conns \cup {NoConn}
  /\ map \in [1..NumEntries -> Entry] /\ current \in Conns \cup {NoConn}
  /\ upload \in {"idle", "in_progress", "ready", "error"}
  /\ verify \in {"idle", "pending", "verifying", "verified", "error"}
  /\ phase \in {"http", "verify", "apply", "reset"}
  /\ logger \in BOOLEAN /\ applying \in BOOLEAN /\ marker \in BOOLEAN
  /\ certified \in {<<>>} \cup [1..SlotSize -> Byte] /\ unheeded \in BOOLEAN

NoPosts == [c \in Conns |-> NoPost]
NoEntries == [i \in 1..NumEntries |-> FreeEntry]

Init ==
  /\ writer = IdleWriter /\ pending = <<>>
  /\ post = NoPosts /\ finishing = NoConn /\ map = NoEntries /\ current = NoConn
  /\ upload = "idle" /\ verify = "idle"
  /\ phase = "http" /\ logger = FALSE /\ applying = FALSE
  /\ slot = OldImage /\ marker = FALSE
  /\ certified = <<>> /\ unheeded = FALSE
  /\ posts = 0 /\ prepares = 0 /\ faults = 0 /\ boots = 0

Callback == phase = "http" /\ finishing = NoConn

Fault == faults < MaxFaults /\ faults' = faults + 1

-----------------------------------------------------------------------------
(* The map of connections                                                  *)

EntriesOf(m, c) == {i \in DOMAIN m : m[i].conn = c}

First(indices) == CHOOSE i \in indices : \A j \in indices : i <= j

\* map_lookup, map_alloc and map_free take the first that matches
Lookup(c) == First(EntriesOf(map, c))
Allocated(entry) == [map EXCEPT ![First(EntriesOf(map, NoConn))] = entry]
Freed(m, c) == [m EXCEPT ![First(EntriesOf(m, c))] = FreeEntry]

NewEntry(c, mode, len) ==
  [FreeEntry EXCEPT !.conn = c, !.mode = mode, !.len = len]

-----------------------------------------------------------------------------
(* httpd_post_begin                                                        *)

\* the server takes a request
Posted(c) == Callback /\ post[c] = NoPost /\ posts < MaxPosts /\ posts' = posts + 1

Accepted(c, len) ==
  /\ post' = [post EXCEPT ![c] = [NoPost EXCEPT !.id = posts', !.len = len]]
  /\ finishing' = IF len = 0 THEN c ELSE NoConn
  /\ current' = c

\* the address is the one that current_connection was left with
PostRepeats(c) ==
  /\ Posted(c) /\ current = c
  /\ UNCHANGED <<iapVars, httpVars, loopVars, certified, unheeded, prepares,
                 faults, boots>>

PostFindsNoEntry(c) ==
  /\ Posted(c) /\ current # c /\ EntriesOf(map, NoConn) = {}
  /\ current' = NoConn
  /\ UNCHANGED <<iapVars, post, finishing, map, upload, loopVars, certified,
                 unheeded, prepares, faults, boots>>

PostForm(c, len) ==
  /\ Posted(c) /\ current # c /\ EntriesOf(map, NoConn) # {}
  /\ Accepted(c, len)
  /\ map' = Allocated(NewEntry(c, "form", len))
  /\ UNCHANGED <<iapVars, upload, loopVars, certified, unheeded, prepares,
                 faults, boots>>

PostUpload(c, len) ==
  /\ Posted(c) /\ current # c /\ EntriesOf(map, NoConn) # {}
  /\ pending' = <<>>
  /\ Begin(len)
  /\ Accepted(c, len)
  /\ map' = Allocated([NewEntry(c, "upload", len) EXCEPT !.active = TRUE])
  /\ upload' = "in_progress" /\ verify' = "idle"
  /\ UNCHANGED <<phase, logger, applying, marker, certified, unheeded, prepares,
                 faults, boots>>

\* (a slip: the status of an upload that could not begin)
PostUploadRefusedUnseen(c, len) ==
  /\ Posted(c) /\ current # c /\ EntriesOf(map, NoConn) # {}
  /\ pending' = IF len > 0 THEN <<>> ELSE pending
  /\ \/ BeginRefused(len) /\ UNCHANGED faults
     \/ BeginFails(len) /\ Fault
  /\ map' = Freed(Allocated(NewEntry(c, "upload", len)), c)
  /\ current' = NoConn
  /\ upload' = "in_progress" /\ verify' = "idle"
  /\ UNCHANGED <<post, finishing, phase, logger, applying, marker, certified,
                 unheeded, prepares, boots>>

\* the adapter has dropped what was pending before the writer refuses; the entry
\* that is freed is the first with this address
PostUploadRefused(c, len) ==
  /\ Posted(c) /\ current # c /\ EntriesOf(map, NoConn) # {}
  /\ pending' = IF len > 0 THEN <<>> ELSE pending
  /\ \/ BeginRefused(len) /\ UNCHANGED faults
     \/ BeginFails(len) /\ Fault
  /\ map' = Freed(Allocated(NewEntry(c, "upload", len)), c)
  /\ current' = NoConn
  /\ upload' = "error" /\ verify' = "idle"
  /\ UNCHANGED <<post, finishing, phase, logger, applying, marker, certified,
                 unheeded, prepares, boots>>

-----------------------------------------------------------------------------
(* httpd_post_receive_data, with k bytes                                   *)

MayReceive(c, k) ==
  Callback /\ post[c] # NoPost /\ ~post[c].refused /\ k \in 1..(post[c].len - post[c].sent)

\* the server finishes the request behind its last byte
Received(c, k) ==
  /\ post' = [post EXCEPT ![c].sent = @ + k]
  /\ finishing' = IF post'[c].sent = post[c].len THEN c ELSE NoConn

DataRefused(c, k) ==
  /\ MayReceive(c, k) /\ current # c
  /\ post' = [post EXCEPT ![c].refused = TRUE]
  /\ UNCHANGED <<iapVars, finishing, map, current, upload, loopVars, histVars>>

\* the form's pairs, or what comes behind an upload that failed or is complete
DataElsewhere(c, k) ==
  /\ MayReceive(c, k) /\ current = c
  /\ LET entry == map[Lookup(c)]
     IN entry.mode = "form" \/ entry.failed \/ entry.received = entry.len
  /\ Received(c, k)
  /\ UNCHANGED <<iapVars, map, current, upload, loopVars, histVars>>

\* UpdateIngestPipeline_Push; a pipeline that is not active refuses the data and has
\* nothing to abort
DataPushed(c, k) ==
  LET i    == Lookup(c)
      rest == map[i].len - map[i].received
      n    == IF k < rest THEN k ELSE rest
      data == [j \in 1..n |-> <<post[c].id, post[c].sent + j>>]
  IN /\ MayReceive(c, k) /\ current = c
     /\ map[i].mode = "upload" /\ ~map[i].failed /\ rest > 0
     /\ \/ /\ map[i].active
           /\ WriteChunk(map[i].received, data)
           /\ map' = [map EXCEPT ![i].received = @ + n]
           /\ upload' = "in_progress"
           /\ UNCHANGED faults
        \/ /\ \/ /\ IF map[i].active THEN WriteChunkRefused(map[i].received, data)
                                  ELSE UNCHANGED iapVars
                 /\ UNCHANGED faults
              \/ map[i].active /\ WriteChunkFails(map[i].received, data) /\ Fault
           /\ map' = [map EXCEPT ![i].failed = TRUE, ![i].active = FALSE]
           /\ upload' = "error"
     /\ Received(c, k)
     /\ UNCHANGED <<current, loopVars, certified, unheeded, posts, prepares, boots>>

-----------------------------------------------------------------------------
(* httpd_post_finished                                                     *)

\* the connection goes
ConnectionLost(c) ==
  /\ Callback /\ post[c] # NoPost
  /\ \/ finishing' = c /\ UNCHANGED post
     \/ SilentLoss /\ post' = [post EXCEPT ![c] = NoPost] /\ UNCHANGED finishing
  /\ UNCHANGED <<iapVars, map, current, upload, loopVars, histVars>>

Finished(c) ==
  /\ finishing = c /\ c # NoConn
  /\ finishing' = NoConn
  /\ post' = [post EXCEPT ![c] = NoPost]

FinishIgnored(c) ==
  /\ Finished(c) /\ current # c
  /\ UNCHANGED <<iapVars, map, current, upload, loopVars, histVars>>

Closed(c) ==
  /\ Finished(c) /\ current = c
  /\ current' = NoConn
  /\ map' = Freed(map, c)

FinishForm(c) ==
  /\ Closed(c) /\ map[Lookup(c)].mode = "form"
  /\ UNCHANGED <<iapVars, upload, loopVars, histVars>>

FinishFailed(c) ==
  /\ Closed(c) /\ map[Lookup(c)].failed
  /\ upload' = "error"
  /\ UNCHANGED <<iapVars, loopVars, histVars>>

FinishIncomplete(c) ==
  /\ Closed(c)
  /\ LET entry == map[Lookup(c)]
     IN /\ entry.mode = "upload" /\ ~entry.failed /\ entry.received # entry.len
        /\ IF entry.active THEN Abort ELSE UNCHANGED <<writer, pending>>
  /\ upload' = "error"
  /\ UNCHANGED <<slot, loopVars, histVars>>

\* UpdateIngestPipeline_Finish and Iap_VerifyRequest
FinishComplete(c) ==
  /\ Closed(c)
  /\ LET entry == map[Lookup(c)]
     IN /\ entry.mode = "upload" /\ ~entry.failed /\ entry.received = entry.len
        /\ IF entry.active /\ MayFinalize
             THEN Finalize /\ upload' = "ready" /\ verify' = "pending"
             ELSE upload' = "error" /\ UNCHANGED <<iapVars, verify>>
  /\ UNCHANGED <<phase, logger, applying, marker, histVars>>

Finish(c) ==
  \/ FinishIgnored(c) \/ FinishForm(c) \/ FinishFailed(c)
  \/ FinishIncomplete(c) \/ FinishComplete(c)

-----------------------------------------------------------------------------
(* Requests to prepare and to apply                                        *)

Sessions == {i \in DOMAIN map : map[i].conn # NoConn /\ map[i].mode = "upload"}

\* an upload whose pipeline can still be aborted
Abortable == \E i \in Sessions : map[i].active /\ ~map[i].failed

\* HttpdPost_ResetIapUploadSession, with the writer that it leaves
ResetSession ==
  /\ map' = [i \in DOMAIN map |-> IF i \in Sessions THEN FreeEntry ELSE map[i]]
  /\ current' = IF \E i \in Sessions : map[i].conn = current THEN NoConn ELSE current
  /\ upload' = "idle"
  /\ pending' = IF Abortable THEN <<>> ELSE pending

WriterReset == IF Abortable THEN IdleWriter ELSE writer

\* (a slip: Iap_PrepareUploadSlot leaves the verification as it is)
PrepareKeepsVerified ==
  /\ Callback /\ ~logger /\ prepares < MaxPrepares
  /\ prepares' = prepares + 1
  /\ ResetSession
  /\ ~WriterReset.active
  /\ slot' = ErasedTo(SlotSize)
  /\ writer' = [WriterReset EXCEPT !.prepared = TRUE]
  /\ UNCHANGED <<post, finishing, verify, phase, logger, applying, marker,
                 certified, unheeded, posts, faults, boots>>

\* FsCustomIap_RenderPrepare with Iap_PrepareUploadSlot
Prepare ==
  /\ Callback /\ ~logger /\ prepares < MaxPrepares
  /\ prepares' = prepares + 1
  /\ ResetSession
  /\ \/ /\ WriterReset.active
        /\ writer' = WriterReset
        /\ UNCHANGED <<slot, verify, unheeded, faults>>
     \/ /\ ~WriterReset.active
        /\ slot' = ErasedTo(SlotSize)
        /\ writer' = [WriterReset EXCEPT !.prepared = TRUE]
        /\ verify' = "idle"
        /\ UNCHANGED <<unheeded, faults>>
     \/ /\ ~WriterReset.active
        /\ Fault /\ EraseStops(SlotSize)
        /\ writer' = WriterReset
        /\ unheeded' = TRUE
        /\ UNCHANGED verify
  /\ UNCHANGED <<post, finishing, phase, logger, applying, marker, certified,
                 posts, boots>>

\* FsCustomIap_RenderApply
RequestApply ==
  /\ Callback /\ ~logger /\ verify = "verified"
  /\ applying' = TRUE
  /\ upload' = IF upload = "ready" THEN "idle" ELSE upload
  /\ UNCHANGED <<iapVars, post, finishing, map, current, verify, phase, logger,
                 marker, histVars>>

-----------------------------------------------------------------------------
(* The loop of Core0Task0                                                  *)

\* http_poll returns; a start or a stop of the logger that was asked for takes effect
HttpPollEnds ==
  /\ Callback
  /\ phase' = "verify" /\ logger' \in BOOLEAN
  /\ UNCHANGED <<iapVars, httpVars, verify, applying, marker, histVars>>

\* Core0Task1 cancels a recording
LoggerFails ==
  /\ logger /\ logger' = FALSE
  /\ UNCHANGED <<iapVars, httpVars, verify, phase, applying, marker, histVars>>

\* Iap_VerifyPoll
VerifyPoll ==
  /\ phase = "verify" /\ phase' = "apply"
  /\ IF verify \in {"pending", "verifying"}
       THEN VerifyStep(verify')
       ELSE UNCHANGED <<iapVars, verify>>
  /\ certified' = IF verify # "verified" /\ verify' = "verified" THEN slot ELSE certified
  /\ UNCHANGED <<httpVars, logger, applying, marker, unheeded, posts, prepares,
                 faults, boots>>

\* (a slip: the image's state is not asked for again)
ApplyPollUnchecked ==
  /\ phase = "apply" /\ applying' = FALSE
  /\ IF applying /\ ~logger
       THEN phase' = "reset" /\ marker' = TRUE
       ELSE phase' = "http" /\ UNCHANGED marker
  /\ UNCHANGED <<iapVars, httpVars, verify, logger, histVars>>

\* the apply request, with FwUpdateHandoff_RequestApply
ApplyPoll ==
  /\ phase = "apply" /\ applying' = FALSE
  /\ \/ /\ ~(applying /\ ~logger /\ verify = "verified")
        /\ phase' = "http"
        /\ UNCHANGED <<marker, faults>>
     \/ /\ applying /\ ~logger /\ verify = "verified"
        /\ phase' = "reset" /\ marker' = TRUE
        /\ UNCHANGED faults
     \/ /\ applying /\ ~logger /\ verify = "verified" /\ ~marker
        /\ Fault
        /\ phase' = "http"
        /\ UNCHANGED marker
  /\ UNCHANGED <<iapVars, httpVars, verify, logger, certified, unheeded, posts,
                 prepares, boots>>

\* NVIC_SystemReset or a power cut, and the boot: a record found is cleared, whether
\* that succeeds or not, and MCUboot swaps the slots if it accepts the image
Reset ==
  /\ phase = "reset" \/ boots < MaxBoots
  /\ boots' = IF phase = "reset" THEN boots ELSE boots + 1
  /\ writer' = IdleWriter /\ pending' = <<>>
  /\ post' = NoPosts /\ finishing' = NoConn /\ map' = NoEntries /\ current' = NoConn
  /\ upload' = "idle" /\ verify' = "idle"
  /\ phase' = "http" /\ logger' = FALSE /\ applying' = FALSE
  /\ \/ ~marker /\ UNCHANGED <<slot, marker, unheeded, faults>>
     \/ /\ marker
        /\ slot' \in IF slot[1] = Erased THEN {slot} ELSE {slot, OldImage}
        /\ \/ marker' = FALSE /\ UNCHANGED <<unheeded, faults>>
           \/ Fault /\ unheeded' = TRUE /\ UNCHANGED marker
  /\ UNCHANGED <<certified, posts, prepares>>

Next ==
  \/ \E c \in Conns :
       \/ PostRepeats(c) \/ PostFindsNoEntry(c)
       \/ \E len \in BodySizes :
            PostForm(c, len) \/ PostUpload(c, len) \/ PostUploadRefused(c, len)
       \/ \E k \in 1..SlotSize :
            DataRefused(c, k) \/ DataElsewhere(c, k) \/ DataPushed(c, k)
       \/ ConnectionLost(c) \/ Finish(c)
  \/ Prepare \/ RequestApply
  \/ HttpPollEnds \/ LoggerFails \/ VerifyPoll \/ ApplyPoll
  \/ Reset

Spec == Init /\ [][Next]_vars

\* the loop goes on
Loop == (\E c \in Conns : Finish(c)) \/ HttpPollEnds \/ VerifyPoll \/ ApplyPoll

FairSpec == Spec /\ WF_vars(Loop)

-----------------------------------------------------------------------------
\* While the verification says "verified", the slot holds a complete image, byte for
\* byte what was received, whatever requests have come in between; left
\* out is a preparation whose erase failed half-way, behind which the state is still
\* "verified" (Iap_PrepareUploadSlot), and a record that the boot could not clear.
VerifiedSlotHoldsImage ==
  verify = "verified" /\ ~unheeded =>
    /\ writer.finalized /\ ~writer.active
    /\ HoldsImage /\ Len(writer.payload) = writer.expected

\* The marker that makes the bootloader act stands for the very slot contents that
\* were verified: between the request, the check in the loop, the reset and the boot
\* nothing comes in between.
MarkerStandsForVerifiedSlot == marker /\ ~unheeded => slot = certified

\* How far an image has come, and what it consists of: what the writer was given, and,
\* from the verification on, what the slot holds.
Stage ==
  CASE unheeded -> "unknown"
    [] ~unheeded /\ marker -> "requested"
    [] ~unheeded /\ ~marker /\ verify = "verified" -> "verified"
    [] ~unheeded /\ ~marker /\ verify \in {"pending", "verifying"} -> "received"
    [] OTHER -> "empty"

Image ==
  CASE Stage = "received" -> writer.payload
    [] Stage \in {"verified", "requested"} -> SubSeq(slot, 1, writer.expected)
    [] OTHER -> <<>>

Staging == INSTANCE ImageStaging WITH stage <- Stage, image <- Image, Images <- Seq(Byte)

\* Server, writer, verification, hand-over and boot together take an image through its
\* stages in order and unchanged: the marker that makes the bootloader act is set by no
\* step but the one behind a verification that read the received image back, whatever
\* other connections, preparations and failures do in between.
ImplementsImageStaging == Staging!Spec

\* The firmware programs flash that is erased, so that slot_prepared never outlives
\* the preparation it stands for.  (The old image comes with MCUboot's swap.)
ProgramsErasedFlash ==
  [][slot' # OldImage =>
       \A i \in 1..SlotSize : slot'[i] \in {slot[i], Erased} \/ slot[i] = Erased]_vars

\* What the status page says of the upload is true of the writer.
StatusTellsWriter ==
  /\ upload = "ready" => writer.finalized
  /\ upload = "in_progress" => writer.active

\* At most one pipeline feeds the writer, and only while the writer is active,
\* however many connections post at once.
OnePipeline ==
  /\ \A i, j \in DOMAIN map : map[i].active /\ map[j].active => i = j
  /\ (\E i \in DOMAIN map : map[i].active) => writer.active

\* A verification that was requested ends.
VerificationEnds == verify \in {"pending", "verifying"} ~> verify \notin {"pending", "verifying"}
=============================================================================
