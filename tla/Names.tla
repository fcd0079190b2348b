--------------------------------- MODULE Names ---------------------------------
(***************************************************************************)
(* The names of the containers of a compose project (crates/docker-dns-rs/ *)
(* src/docker/monitor.rs, append_compose_names).                           *)
(*                                                                         *)
(* A name is the sequence of its dot-separated parts; a part that is the   *)
(* decimal of a number is that number.  Compose allows dots in the name of *)
(* a service, not in that of a project.                                    *)
(***************************************************************************)
EXTENDS Naturals, Sequences

CONSTANTS
    Word,   \* the parts that are no decimals
    None    \* a label that is missing, a number that does not parse

Part == Word \cup Nat

\* com.docker.compose.container-number (as parse::<usize> reads it), .service
\* and .project
Labels == [number : Nat \cup {None}, service : Seq(Part) \cup {None}, project : Part \cup {None}]

\* unwrap_or(1)
Instance(l) == IF l.number = None THEN 1 ELSE l.number

InService(l) == l.service # None /\ l.project # None

ServiceName(l) == Append(l.service, l.project)
InstanceName(l) == Append(<<Instance(l)>> \o l.service, l.project)

\* append_compose_names
LabelNames(l) ==
    IF ~InService(l) THEN {}
    ELSE {InstanceName(l)} \cup (IF Instance(l) = 1 THEN {ServiceName(l)} ELSE {})
-----------------------------------------------------------------------------
\* The service of l has the name of an instance of the service of k: 1.web
\* beside web.
Poses(l, k) == l.service = <<Instance(k)>> \o k.service

(***************************************************************************)
(* Two containers that share a compose name are the same instance of the   *)
(* same service, so that nothing but the address tells their records       *)
(* apart; or a service is called like an instance of another one.          *)
(***************************************************************************)
NamesIdentify ==
    \A k, l \in Labels :
        LabelNames(k) \cap LabelNames(l) # {} =>
            /\ k.project = l.project
            /\ \/ k.service = l.service /\ Instance(k) = Instance(l)
               \/ Poses(k, l)
               \/ Poses(l, k)
=============================================================================
