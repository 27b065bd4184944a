----------------------------- MODULE ImageStore -----------------------------
(***************************************************************************)
(* What the calendar and asset services promise about the images of        *)
(* events: an image is listed by one event at most, and only after it was  *)
(* stored; as long as an event is there its list only grows, up to the     *)
(* maximum; an image that a user was told is accepted is listed and is     *)
(* never removed.                                                          *)
(*                                                                         *)
(* It promises neither that every image stored is listed nor that every    *)
(* image listed is stored: an upload that was not accepted may leave the   *)
(* one or the other behind (see ImagesAgree of CalendarEvents).            *)
(***************************************************************************)
EXTENDS Naturals, FiniteSets

CONSTANTS Events,     \* the ids of events
          Images,
          MaxImages

VARIABLES open,       \* the events that are there
          album,      \* album[e]: the images event e lists
          stored,     \* the images that can be served
          accepted    \* the images whose user was told so

imageVars == <<open, album, stored, accepted>>

Listed(i) == \E e \in Events : i \in album[e]

Init ==
    /\ open \subseteq Events
    /\ album = [e \in Events |-> {}]
    /\ stored = {} /\ accepted = {}

Open(e) ==
    /\ e \notin open
    /\ open' = open \cup {e}
    /\ UNCHANGED <<album, stored, accepted>>

Close(e) ==
    /\ e \in open
    /\ open' = open \ {e}
    /\ album' = [album EXCEPT ![e] = {}]
    /\ UNCHANGED <<stored, accepted>>

Store(i) ==
    /\ ~Listed(i)
    /\ stored' = stored \cup {i}
    /\ UNCHANGED <<open, album, accepted>>

List(e, i) ==
    /\ e \in open /\ i \in stored /\ ~Listed(i)
    /\ Cardinality(album[e]) < MaxImages
    /\ album' = [album EXCEPT ![e] = @ \cup {i}]
    /\ accepted' \in {accepted, accepted \cup {i}}
    /\ UNCHANGED <<open, stored>>

Discard(i) ==
    /\ i \notin accepted
    /\ stored' = stored \ {i}
    /\ UNCHANGED <<open, album, accepted>>

Next ==
    \/ \E e \in Events : Open(e) \/ Close(e)
    \/ \E i \in Images : Store(i) \/ Discard(i)
    \/ \E e \in Events, i \in Images : List(e, i)

Spec == Init /\ [][Next]_imageVars
=============================================================================
