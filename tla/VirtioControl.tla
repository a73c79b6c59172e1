---------------------------- MODULE VirtioControl ----------------------------
(***************************************************************************)
(* The virtio drivers that command a device through a control queue: gpu   *)
(* (dependency/virtio-drivers/src/device/gpu.rs) and the control side of   *)
(* sound (sound.rs).  A command is posted with add_notify_wait_pop and its *)
(* answer read before the call goes on, so a call is a sequence of         *)
(* commands that stops at the first refusal; the device keeps the effect   *)
(* of the commands before it.                                              *)
(*                                                                         *)
(* Gpu memory is a number, the n-th Dma allocated.                         *)
(***************************************************************************)
EXTENDS Integers, Sequences

CONSTANTS MaxDma,   \* Dma allocations, after which Dma::new fails
          Streams,  \* sound streams, 0 .. streams - 1
          Jacks,    \* number of jacks
          Params,   \* parameter sets of a stream
          Faulty,   \* whether a gpu refuses a command that is in order
          Deaf      \* whether a sound device refuses to describe its jacks

VARIABLES dmas,       \* Dma objects allocated so far
          rect,       \* the driver has a display rectangle
          held,       \* frame_buffer_dma and cursor_buffer_dma
          resource,   \* device: each resource's backing
          set_up, jack_infos, pcm_parameters,
          dev_params, \* device: the parameters each stream was given
          stream,     \* device: the state of each stream
          panicked
gpu == <<dmas, rect, held, resource>>
sound == <<set_up, jack_infos, pcm_parameters, dev_params, stream, panicked>>
vars == <<gpu, sound>>

FB == "frame_buffer"
CURSOR == "cursor_buffer"
Resources == {FB, CURSOR}
None == 0
Absent == -1
NotSetUp == 0

Init ==
  /\ dmas = 0 /\ rect = FALSE
  /\ held = [r \in Resources |-> None]
  /\ resource = [r \in Resources |-> Absent]
  /\ set_up = FALSE /\ jack_infos = "none"
  /\ pcm_parameters = [s \in Streams |-> NotSetUp]
  /\ dev_params = [s \in Streams |-> NotSetUp]
  /\ stream = [s \in Streams |-> "idle"]
  /\ panicked = FALSE

(***************************************************************************)
(* Gpu.  A call issues its commands in order and returns at the first that *)
(* fails, freeing the Dma it has not stored yet; did is how many succeed.  *)
(* The device refuses to create a resource that exists, Dma::new fails     *)
(* when memory is exhausted, the other commands succeed.                   *)
(***************************************************************************)
Works(c, r) == CASE c = "create" -> resource[r] = Absent
                 [] c = "alloc" -> dmas < MaxDma
                 [] OTHER -> TRUE

(* did of the commands cs succeed and the next one, if any, fails. *)
Stops(cs, did, r) ==
  /\ \A i \in 1 .. did : Works(cs[i], r)
  /\ did < Len(cs) => Faulty \/ ~Works(cs[did + 1], r)

Done(c, cs, did) == \E i \in 1 .. did : cs[i] = c

Effects(r, cs, did) ==
  LET m == dmas + 1
  IN /\ resource' = [resource EXCEPT ![r] = IF Done("attach", cs, did) THEN m ELSE
                                            IF Done("create", cs, did) THEN None ELSE @]
     /\ dmas' = IF Done("alloc", cs, did) THEN m ELSE dmas
     /\ held' = [held EXCEPT ![r] = IF did = Len(cs) THEN m ELSE @]

setup_framebuffer ==
  LET cs == <<"display_info", "create", "alloc", "attach", "set_scanout">>
  IN \E did \in 0 .. Len(cs) :
       /\ Stops(cs, did, FB)
       /\ Effects(FB, cs, did)
       /\ rect' = (rect \/ did >= 1)
       /\ UNCHANGED sound

setup_cursor ==
  LET cs == <<"alloc", "create", "attach", "transfer_to_host", "update_cursor">>
  IN \E did \in 0 .. Len(cs) :
       /\ Stops(cs, did, CURSOR)
       /\ Effects(CURSOR, cs, did)
       /\ UNCHANGED <<rect, sound>>

(***************************************************************************)
(* Sound.  Every operation first sets the driver up: it asks for the       *)
(* descriptions of jacks (a refusal leaves none), streams (a refusal fails *)
(* the operation) and channel maps.                                        *)
(***************************************************************************)
SetUp(infos) ==
  IF set_up THEN infos = jack_infos ELSE infos \in {"some"} \cup (IF Deaf THEN {"empty"} ELSE {})

(* The part common to the operations: set_up, or its failure at pcm_info. *)
Fails(infos) ==
  /\ ~set_up /\ SetUp(infos)
  /\ jack_infos' = infos
  /\ UNCHANGED <<gpu, set_up, pcm_parameters, dev_params, stream, panicked>>

(* jack_remap indexes the descriptions with any jack below jacks. *)
jack_remap ==
  \E infos \in {"some", "empty"} :
    \/ Fails(infos)
    \/ /\ SetUp(infos)
       /\ jack_infos' = infos /\ set_up' = TRUE
       /\ panicked' = (Jacks > 0 /\ infos = "empty")
       /\ UNCHANGED <<gpu, pcm_parameters, dev_params, stream>>

(* The device accepts parameters for a stream that is not prepared or running. *)
Accepts(s) == stream[s] \in {"idle", "set"}

\* Agreed mutated: the parameters are stored before the answer is looked at.
StoresFirst(s, p, ok) == [pcm_parameters EXCEPT ![s] = p]

Agreed(s, p, ok) == IF ok THEN [pcm_parameters EXCEPT ![s] = p] ELSE pcm_parameters

pcm_set_params(s, p) ==
  \E infos \in {"some", "empty"} :
    \/ Fails(infos)
    \/ /\ SetUp(infos)
       /\ jack_infos' = infos /\ set_up' = TRUE
       /\ pcm_parameters' = Agreed(s, p, Accepts(s))
       /\ dev_params' = IF Accepts(s) THEN [dev_params EXCEPT ![s] = p] ELSE dev_params
       /\ stream' = IF Accepts(s) THEN [stream EXCEPT ![s] = "set"] ELSE stream
       /\ UNCHANGED <<gpu, panicked>>

(* pcm_prepare, pcm_start, pcm_stop and pcm_release: the driver keeps no state of them. *)
pcm_command(s, from, to) ==
  \E infos \in {"some", "empty"} :
    \/ Fails(infos)
    \/ /\ SetUp(infos)
       /\ jack_infos' = infos /\ set_up' = TRUE
       /\ stream' = IF stream[s] \in from THEN [stream EXCEPT ![s] = to] ELSE stream
       /\ UNCHANGED <<gpu, pcm_parameters, dev_params, panicked>>

pcm_prepare(s) == pcm_command(s, {"set", "prepared"}, "prepared")
pcm_start(s) == pcm_command(s, {"prepared", "stopped"}, "running")
pcm_stop(s) == pcm_command(s, {"running"}, "stopped")
pcm_release(s) == pcm_command(s, {"prepared", "stopped"}, "set")

Next ==
  \/ setup_framebuffer
  \/ setup_cursor
  \/ jack_remap
  \/ \E s \in Streams, p \in Params : pcm_set_params(s, p)
  \/ \E s \in Streams : pcm_prepare(s) \/ pcm_start(s) \/ pcm_stop(s) \/ pcm_release(s)

Spec == Init /\ [][Next]_vars

-----------------------------------------------------------------------------
(* What a device was told stays true: the memory it may read for a resource *)
(* is a Dma the gpu driver holds (the SAFETY comment of setup_framebuffer), *)
(* the parameters the sound driver splits frames by in pcm_xfer are those   *)
(* the device accepted, and an operation finds the descriptions it indexes. *)
DeviceViewIsShared ==
  /\ \A r \in Resources : resource[r] > None => held[r] = resource[r]
  /\ pcm_parameters = dev_params
  /\ ~panicked

=============================================================================
