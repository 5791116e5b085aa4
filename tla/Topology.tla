-------------------------------- MODULE Topology -------------------------------
(* The declared bench (hardware/topology.py): what a declaration must say to   *)
(* be loaded, what it lets the bench do, and where the hardware contradicts    *)
(* it. A tuning range is a pair of frequencies; a fact that is not declared,   *)
(* or that a radio does not report, is None.                                   *)
EXTENDS Naturals, FiniteSets, FiniteSetsExt

CONSTANT None

ASSUME NoneIsNoFlag == None \notin BOOLEAN

(* SUPPORTED_KINDS and ROLE_CARDINALITY.                                       *)
RolesOf == [pluto |-> {"transmitter", "receiver"}, hackrf |-> {"jammer"}]
Counts == [transmitter |-> {1}, receiver |-> {1}, jammer |-> {0, 1}]
Media == {"coax", "anechoic", "over_the_air"}

ByRole(doc, role) == {d \in doc.devices : d.role = role}
LinkEnds(doc) == ByRole(doc, "transmitter") \cup ByRole(doc, "receiver")

Drivable(d) ==
  d.kind \in DOMAIN RolesOf /\ d.role \in DOMAIN Counts /\ d.role \in RolesOf[d.kind]

(* Two entries that declare one serial are one radio holding two roles.        *)
DistinctSerials(doc) ==
  \A d, e \in doc.devices : d.serial # None /\ d.serial = e.serial => d = e

(* What both radios, and the operator's own limit, can reach.                  *)
LinkBand(doc) ==
  LET ranges == ({d.range : d \in LinkEnds(doc)} \cup {doc.matched}) \ {None}
      low == Max({r[1] : r \in ranges})
      high == Min({r[2] : r \in ranges})
  IN IF ranges = {} \/ low >= high THEN None ELSE <<low, high>>

Loadable(doc) ==
  /\ doc.version = 1
  /\ \A d \in doc.devices : Drivable(d)
  /\ \A role \in DOMAIN Counts : Cardinality(ByRole(doc, role)) \in Counts[role]
  /\ DistinctSerials(doc)
  /\ \A d \in LinkEnds(doc) : d.uri # None
  /\ doc.attestation # None => doc.attestation.medium \in Media
  /\ LinkBand(doc) # None

(* The interlock: the operator's word that nothing leaves the bench. A key     *)
(* that the file leaves out is no such word.                                   *)
JammerPermitted(doc) ==
  /\ ByRole(doc, "jammer") # {}
  /\ doc.attestation # None
  /\ \/ doc.attestation.medium = "coax" /\ doc.attestation.antennas = FALSE
     \/ doc.attestation.medium = "anechoic" /\ doc.attestation.shielded = TRUE

(* A chip or a range is compared when both sides have one; a serial whenever   *)
(* it is declared.                                                             *)
Contradicted(d, manifest) ==
  {f \in {"serial", "chip", "range"} :
     d[f] # None /\ d[f] # manifest[f] /\ (f = "serial" \/ manifest[f] # None)}

(* manifests: role -> manifest, for the two ends of the link; the jammer is    *)
(* checked by its own instrument.                                              *)
Findings(doc, manifests) ==
  UNION {{<<d.name, f>> : f \in Contradicted(d, manifests[d.role])} : d \in LinkEnds(doc)}
===============================================================================
