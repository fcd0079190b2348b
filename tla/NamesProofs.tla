------------------------------ MODULE NamesProofs ------------------------------
(***************************************************************************)
(* What two containers have in common that share a compose name.           *)
(***************************************************************************)
EXTENDS Names, SequenceTheorems, TLAPS

(***************************************************************************)
(* The two forms of a name, with and without a number.                     *)
(***************************************************************************)
LEMMA NameForms ==
  ASSUME NEW l \in Labels, NEW name \in LabelNames(l)
  PROVE  \E i \in Part, s \in Seq(Part), ns \in Seq(Part), p \in Part :
           /\ i = Instance(l) /\ s = l.service /\ p = l.project
           /\ ns = <<i>> \o s
           /\ \/ name = Append(ns, p)
              \/ name = Append(s, p) /\ i = 1
<1>1. InService(l)
  BY DEF LabelNames
<1>2. l.service \in Seq(Part) /\ l.project \in Part
  BY <1>1 DEF Labels, InService
<1>3. Instance(l) \in Part
  BY DEF Labels, Instance, Part
<1>4. <<Instance(l)>> \in Seq(Part)
  BY <1>3
<1>5. <<Instance(l)>> \o l.service \in Seq(Part)
  BY <1>2, <1>4, ConcatProperties
<1>6. \/ name = Append(<<Instance(l)>> \o l.service, l.project)
      \/ name = Append(l.service, l.project) /\ Instance(l) = 1
  BY <1>1 DEF LabelNames, InstanceName, ServiceName
<1> QED
  BY <1>2, <1>3, <1>5, <1>6, Zenon

(***************************************************************************)
(* A number in front of a service name can be read off again.              *)
(***************************************************************************)
LEMMA NumberFirst ==
  ASSUME NEW i \in Part, NEW j \in Part, NEW s \in Seq(Part), NEW t \in Seq(Part),
         <<i>> \o s = <<j>> \o t
  PROVE  i = j /\ s = t
<1>1. <<i>> \in Seq(Part) /\ <<j>> \in Seq(Part) /\ Len(<<i>>) = 1 /\ Len(<<j>>) = 1
  OBVIOUS
<1>2. (<<i>> \o s)[1] = i /\ (<<j>> \o t)[1] = j
  OBVIOUS
<1>3. i = j
  BY <1>2
<1>4. <<i>> \o s = <<i>> \o t
  BY <1>3
<1>5. s = t
  BY <1>1, <1>4, ConcatSimplifications, Zenon
<1> QED
  BY <1>3, <1>5

(***************************************************************************)
(* monitor.rs:99-105.  Two containers whose labels give them a name in     *)
(* common are one instance of one service of one project, as one-off runs  *)
(* are, unless a service has the name of an instance of another.           *)
(***************************************************************************)
THEOREM NamesIdentifyContainers == NamesIdentify
<1> SUFFICES ASSUME NEW k \in Labels, NEW l \in Labels,
                    NEW name \in LabelNames(k) \cap LabelNames(l)
             PROVE  /\ k.project = l.project
                    /\ \/ k.service = l.service /\ Instance(k) = Instance(l)
                       \/ Poses(k, l)
                       \/ Poses(l, k)
  BY DEF NamesIdentify
<1>1. PICK i \in Part, s \in Seq(Part), is \in Seq(Part), p \in Part :
        /\ i = Instance(k) /\ s = k.service /\ p = k.project
        /\ is = <<i>> \o s
        /\ \/ name = Append(is, p)
           \/ name = Append(s, p) /\ i = 1
  BY NameForms
<1>2. PICK j \in Part, t \in Seq(Part), jt \in Seq(Part), q \in Part :
        /\ j = Instance(l) /\ t = l.service /\ q = l.project
        /\ jt = <<j>> \o t
        /\ \/ name = Append(jt, q)
           \/ name = Append(t, q) /\ j = 1
  BY NameForms, ZenonT(30)
<1>3. CASE name = Append(is, p) /\ name = Append(jt, q)
  <2> Append(is, p) = Append(jt, q)
    BY <1>3
  <2>1. is = jt /\ p = q
    BY AppendInjective
  <2>2. <<i>> \o s = <<j>> \o t
    BY <1>1, <1>2, <2>1
  <2>3. i = j /\ s = t
    BY <2>2, NumberFirst
  <2> QED
    BY <1>1, <1>2, <2>1, <2>3
<1>4. CASE name = Append(is, p) /\ name = Append(t, q)
  <2> Append(is, p) = Append(t, q)
    BY <1>4
  <2>1. is = t /\ p = q
    BY AppendInjective
  <2> QED
    BY <1>1, <1>2, <2>1 DEF Poses
<1>5. CASE name = Append(s, p) /\ name = Append(jt, q)
  <2> Append(s, p) = Append(jt, q)
    BY <1>5
  <2>1. s = jt /\ p = q
    BY AppendInjective
  <2> QED
    BY <1>1, <1>2, <2>1 DEF Poses
<1>6. CASE name = Append(s, p) /\ name = Append(t, q) /\ i = 1 /\ j = 1
  <2> Append(s, p) = Append(t, q)
    BY <1>6
  <2>1. s = t /\ p = q
    BY AppendInjective
  <2> QED
    BY <1>1, <1>2, <1>6, <2>1
<1> QED
  BY <1>1, <1>2, <1>3, <1>4, <1>5, <1>6
=============================================================================
