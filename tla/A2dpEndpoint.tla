---------------------------- MODULE A2dpEndpoint ----------------------------
(***************************************************************************)
(* The A2DP source endpoint of the Bluetooth module                        *)
(* (src/modules/bluetooth/linux/a2dp.c) and the part of BlueZ it talks to. *)
(*                                                                         *)
(* a2dp.c keeps one endpoint, the global _endpoint, and exports one D-Bus  *)
(* object (org.bluez.MediaEndpoint1, registration_id) on which BlueZ calls *)
(* SelectConfiguration, SetConfiguration, ClearConfiguration and Release.  *)
(* The application's calls (register, unregister, acquire, release,        *)
(* get_properties, set_callback, get_state) run on the GLib main loop and  *)
(* make synchronous D-Bus calls; BlueZ's calls to the object wait in the   *)
(* connection's queue until the main loop dispatches them, one at a time,  *)
(* between two application calls.  BlueZ itself runs in another process:   *)
(* a device connects or disconnects, a transport starts streaming, or      *)
(* bluetoothd drops the endpoint, at any time.                             *)
(*                                                                         *)
(* ub records the undefined behaviour a step performs: a NULL _endpoint    *)
(* dereferenced, or the reply of a failed D-Bus call read.                 *)
(***************************************************************************)
EXTENDS Naturals, Sequences

CONSTANTS
  Codecs,          \* codec values the application registers with
  Transports,      \* object paths of the transports BlueZ creates
  NULL,            \* a NULL pointer
  MallocOutcomes,  \* TRUE: malloc returns memory
  BusOutcomes,     \* TRUE: a call BlueZ would accept is not refused for
                   \* another reason (BlueZ restarting, bus error)
  MaxQueue         \* bound on the calls queued for the endpoint object

ASSUME NULL \notin Codecs \cup Transports

\* MediaTransport1.State
States == {"idle", "pending", "active"}

\* The methods of org.bluez.MediaEndpoint1 BlueZ calls.
Calls == [m : {"select", "clear", "release"}, t : Transports \cup {NULL}]
         \cup [m : {"set"}, t : Transports]

\* struct artik_bt_a2dp_source, as far as a2dp.c reads it; cbs: the three
\* callbacks set_callback installs.
Endpoint == [codec : Codecs, transport : Transports \cup {NULL}, cbs : BOOLEAN]

VARIABLES
  endpoint,   \* _endpoint: NULL or an Endpoint
  exported,   \* the MediaEndpoint1 object is registered on the connection
  regid,      \* registration_id names that object (0 after a failed register)
  bluez,      \* BlueZ: our endpoint, its codec, its transport and state, and
              \* whether it waits for a SelectConfiguration reply
  queue,      \* BlueZ's calls to the object, not yet dispatched
  a2dppath,   \* a2dp_path: the transport get_state caches (NULL: empty)
  ub          \* history: the undefined behaviour performed so far

vars == <<endpoint, exported, regid, bluez, queue, a2dppath, ub>>

NoBluez == [ep |-> FALSE, codec |-> NULL, tp |-> NULL, state |-> "idle", sel |-> FALSE]

Init ==
  /\ endpoint = NULL
  /\ exported = FALSE
  /\ regid = FALSE
  /\ bluez = NoBluez
  /\ queue = <<>>
  /\ a2dppath = NULL
  /\ ub = {}

\* The calls BlueZ makes when it forgets the endpoint (media_endpoint_remove):
\* ClearConfiguration for its transport, if any, then Release.
RemovalCalls == (IF bluez.tp # NULL THEN <<[m |-> "clear", t |-> bluez.tp]>> ELSE <<>>)
                \o <<[m |-> "release", t |-> NULL]>>

-----------------------------------------------------------------------------
(* The application's calls.                                                *)

\* bt_a2dp_source_create: _endpoint as it is after the call.  An existing
\* endpoint is kept with its codec; a new one has no transport and no
\* callbacks; any failed malloc leaves NULL.
bt_a2dp_source_create(c, mallocOk) ==
  IF endpoint # NULL THEN endpoint
  ELSE IF mallocOk THEN [codec |-> c, transport |-> NULL, cbs |-> FALSE]
  ELSE NULL

\* bt_a2dp_source_register: create, then read _endpoint (dereferenced even
\* when NULL); RegisterEndpoint, refused while BlueZ holds the path; on
\* success the object is registered and registration_id overwritten, with
\* 0 if the path is already exported.
Register(c, mallocOk, busOk) ==
  LET ep == bt_a2dp_source_create(c, mallocOk)
  IN IF ep = NULL
       THEN /\ ub' = ub \cup {"null_endpoint"}
            /\ UNCHANGED <<endpoint, exported, regid, bluez, queue, a2dppath>>
     ELSE /\ endpoint' = ep
          /\ IF busOk /\ ~bluez.ep
               THEN /\ bluez' = [bluez EXCEPT !.ep = TRUE, !.codec = ep.codec]
                    /\ exported' = TRUE
                    /\ regid' = ~exported
               ELSE UNCHANGED <<bluez, exported, regid>>
          /\ UNCHANGED <<queue, ub, a2dppath>>

\* bt_a2dp_source_unregister: UnregisterEndpoint; on an error return at
\* once, else bt_a2dp_source_destroy, then unregister the object named by
\* registration_id.  BlueZ forgets the endpoint and calls the object.
Unregister(busOk) ==
  /\ endpoint # NULL
  /\ IF busOk /\ bluez.ep
       THEN /\ Len(queue) + Len(RemovalCalls) <= MaxQueue
            /\ endpoint' = NULL
            /\ exported' = (exported /\ ~regid)
            /\ regid' = FALSE
            /\ queue' = queue \o RemovalCalls
            /\ bluez' = NoBluez
       ELSE UNCHANGED <<endpoint, exported, regid, bluez, queue>>
  /\ UNCHANGED <<ub, a2dppath>>

\* A Get of a MediaTransport1 property on _endpoint->transport_path: it fails
\* when BlueZ has no such transport, and bt_check_error's result is ignored,
\* so the NULL reply is read.
GetOk == bluez.tp = endpoint.transport

\* bt_a2dp_source_acquire: with a transport path, Get "State"; active: error;
\* pending: TryAcquire; idle: Acquire.  Without one: E_INVALID_VALUE.
Acquire ==
  /\ endpoint # NULL
  /\ endpoint.transport # NULL
  /\ IF ~GetOk
       THEN /\ ub' = ub \cup {"failed_reply"}
            /\ UNCHANGED bluez
       ELSE /\ bluez' = [bluez EXCEPT !.state = "active"]
            /\ UNCHANGED ub
  /\ UNCHANGED <<endpoint, exported, regid, queue, a2dppath>>

\* bt_a2dp_source_release: Release on the transport; its error is returned.
Release ==
  /\ endpoint # NULL
  /\ endpoint.transport # NULL
  /\ IF GetOk /\ bluez.state = "active"
       THEN bluez' = [bluez EXCEPT !.state = "idle"]
       ELSE UNCHANGED bluez
  /\ UNCHANGED <<endpoint, exported, regid, queue, ub, a2dppath>>

\* bt_a2dp_source_get_properties: five Gets on the transport, each reply
\* read whatever bt_check_error said.
GetProperties ==
  /\ endpoint # NULL
  /\ endpoint.transport # NULL
  /\ ub' = IF GetOk THEN ub ELSE ub \cup {"failed_reply"}
  /\ UNCHANGED <<endpoint, exported, regid, bluez, queue, a2dppath>>

\* bt_a2dp_source_set_callback: E_INVALID_VALUE without an endpoint.
SetCallback ==
  /\ endpoint' = IF endpoint = NULL THEN NULL ELSE [endpoint EXCEPT !.cbs = TRUE]
  /\ UNCHANGED <<exported, regid, bluez, queue, ub, a2dppath>>

\* _get_media_transport_path: GetManagedObjects, and the path of the first
\* object with a MediaTransport1 interface; NULL when the call fails or
\* there is none.
TransportFound(busOk) == IF busOk THEN bluez.tp ELSE NULL

\* _get_property: a2dp_path after the call.  When empty it is filled by a
\* lookup; when set it is used as it is, and the Get "State" on it has its
\* error checked and returned.  Nothing in a2dp.c empties it again.
CachedPath(busOk) == IF a2dppath = NULL THEN TransportFound(busOk) ELSE a2dppath

\* bt_a2dp_source_get_state: _get_property("State"); _endpoint is not read.
GetState(busOk) ==
  /\ a2dppath' = CachedPath(busOk)
  /\ UNCHANGED <<endpoint, exported, regid, bluez, queue, ub>>

-----------------------------------------------------------------------------
(* BlueZ.                                                                  *)

\* A device connects: BlueZ asks the endpoint to select a configuration and
\* waits for the reply.
Connect ==
  /\ bluez.ep /\ bluez.tp = NULL /\ ~bluez.sel
  /\ Len(queue) < MaxQueue
  /\ bluez' = [bluez EXCEPT !.sel = TRUE]
  /\ queue' = Append(queue, [m |-> "select", t |-> NULL])
  /\ UNCHANGED <<endpoint, exported, regid, ub, a2dppath>>

\* The device disconnects: the transport goes and ClearConfiguration is sent.
Disconnect ==
  /\ bluez.tp # NULL
  /\ Len(queue) < MaxQueue
  /\ bluez' = [bluez EXCEPT !.tp = NULL, !.state = "idle"]
  /\ queue' = Append(queue, [m |-> "clear", t |-> bluez.tp])
  /\ UNCHANGED <<endpoint, exported, regid, ub, a2dppath>>

\* The remote side asks to stream: the transport becomes pending.
Stream ==
  /\ bluez.tp # NULL /\ bluez.state = "idle"
  /\ bluez' = [bluez EXCEPT !.state = "pending"]
  /\ UNCHANGED <<endpoint, exported, regid, queue, ub, a2dppath>>

\* No reply to SelectConfiguration arrives in time.
SelectTimeout ==
  /\ bluez.sel
  /\ \A i \in DOMAIN queue : queue[i].m # "select"
  /\ bluez' = [bluez EXCEPT !.sel = FALSE]
  /\ UNCHANGED <<endpoint, exported, regid, queue, ub, a2dppath>>

\* bluetoothd forgets the endpoint without being asked (the adapter goes
\* away, or bluetoothd restarts).
Forget ==
  /\ bluez.ep
  /\ Len(queue) + Len(RemovalCalls) <= MaxQueue
  /\ bluez' = NoBluez
  /\ queue' = queue \o RemovalCalls
  /\ UNCHANGED <<endpoint, exported, regid, ub, a2dppath>>

\* The main loop dispatches the first queued call.  Without the object the
\* call fails at BlueZ.  handle_method_call: SelectConfiguration replies only
\* if a select callback is set, and then BlueZ creates the transport and
\* calls SetConfiguration; SetConfiguration stores the transport path;
\* ClearConfiguration only calls the clear callback; Release has no case.
\* Every case but Release dereferences _endpoint.
Dispatch ==
  /\ queue # <<>>
  /\ LET c == Head(queue)
         reads == exported /\ c.m # "release"
     IN /\ ub' = IF reads /\ endpoint = NULL THEN ub \cup {"null_endpoint"} ELSE ub
        /\ IF exported /\ endpoint # NULL
             THEN CASE c.m = "select" /\ endpoint.cbs /\ bluez.sel ->
                         \E t \in Transports :
                           /\ bluez' = [bluez EXCEPT !.sel = FALSE, !.tp = t, !.state = "idle"]
                           /\ queue' = Append(Tail(queue), [m |-> "set", t |-> t])
                           /\ UNCHANGED endpoint
                    [] c.m = "set" ->
                         /\ endpoint' = [endpoint EXCEPT !.transport = c.t]
                         /\ queue' = Tail(queue)
                         /\ UNCHANGED bluez
                    [] OTHER ->
                         /\ queue' = Tail(queue)
                         /\ UNCHANGED <<endpoint, bluez>>
             ELSE /\ queue' = Tail(queue)
                  /\ bluez' = IF c.m = "select" THEN [bluez EXCEPT !.sel = FALSE] ELSE bluez
                  /\ UNCHANGED endpoint
  /\ UNCHANGED <<exported, regid, a2dppath>>

-----------------------------------------------------------------------------
(* The application calls the API in any order, except that it calls        *)
(* unregister, acquire, release and get_properties only while an endpoint  *)
(* exists: each of them dereferences _endpoint without a test.             *)
Next ==
  \/ \E c \in Codecs, m \in MallocOutcomes, b \in BusOutcomes : Register(c, m, b)
  \/ \E b \in BusOutcomes : Unregister(b)
  \/ Acquire \/ Release \/ GetProperties \/ SetCallback
  \/ \E b \in BusOutcomes : GetState(b)
  \/ Connect \/ Disconnect \/ Stream \/ SelectTimeout \/ Forget
  \/ Dispatch

Spec == Init /\ [][Next]_vars

-----------------------------------------------------------------------------
(* No step of the endpoint, neither an API call nor the handler of a call  *)
(* BlueZ makes to the MediaEndpoint1 object, dereferences a NULL _endpoint  *)
(* or reads the reply of a D-Bus call that failed (the Gets of acquire and *)
(* get_properties, whose bt_check_error result is dropped).                *)
NoUndefinedBehaviour == ub = {}
=============================================================================
