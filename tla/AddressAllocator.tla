------------------------- MODULE AddressAllocator -------------------------
(***************************************************************************)
(* What the DHCP server's lease table promises, with the table, the time   *)
(* arithmetic and the messages left out.                                   *)
(*                                                                         *)
(* Each address has an owner: a client, Free, or Blocked (held back from  *)
(* every client).  Each step is the act of one client, actor.  A client    *)
(* takes an address that is free or already its own, and only while it     *)
(* owns no other address.  It gives up only its own address, to Free or to *)
(* Blocked, and it may block a free address.  Only the passing of time     *)
(* returns an owned or blocked address to Free.  So no client is ever      *)
(* given an address another client still owns, and no client takes a      *)
(* blocked address.                                                        *)
(***************************************************************************)
EXTENDS Naturals

CONSTANTS
  Addrs,     \* the pool
  Clients,   \* the hardware addresses of clients
  Free,      \* the owner of an address nobody holds
  Blocked,   \* the owner of an address held back from every client
  Nobody     \* the actor before the first message

ASSUME {Free, Blocked, Nobody} \cap Clients = {}

Owners == Clients \cup {Free, Blocked}

VARIABLES owner, actor, clock

avars == <<owner, actor, clock>>

Init ==
  /\ owner = [a \in Addrs |-> Free]
  /\ actor = Nobody
  /\ clock = 0

\* The addresses client c owns.
Held(c) == {a \in Addrs : owner[a] = c}

\* The client of this step takes a, free or already its own; any other
\* address it owns must go in the same step.
Take(a) ==
  /\ actor' \in Clients
  /\ owner[a] \in {Free, actor'}
  /\ Held(actor') \subseteq {a}
  /\ owner' = [owner EXCEPT ![a] = actor']
  /\ UNCHANGED clock

\* The client of this step gives up its address, or blocks a free one.
Drop(a) ==
  /\ actor' \in Clients
  /\ owner[a] \in {Free, actor'}
  /\ \E to \in {Free, Blocked} : owner' = [owner EXCEPT ![a] = to]
  /\ UNCHANGED clock

\* A message that changes no owner.
Idle ==
  /\ actor' \in Clients \cup {Nobody}
  /\ UNCHANGED <<owner, clock>>

\* Time passes: any owned or blocked address may fall free.
Elapse ==
  /\ clock' = clock + 1
  /\ owner' \in [Addrs -> Owners]
  /\ \A a \in Addrs : owner'[a] \in {owner[a], Free}
  /\ UNCHANGED actor

Next == (\E a \in Addrs : Take(a) \/ Drop(a)) \/ Idle \/ Elapse

Spec == Init /\ [][Next]_avars
=============================================================================
