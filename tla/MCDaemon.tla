-------------------------------- MODULE MCDaemon -------------------------------
(* A small instance of Daemon for TLC: two radios as declared and a spare that *)
(* was reflashed to another chip, on two addresses.                            *)
EXTENDS Daemon, TLC

CONSTANTS ipA, ipB, file

Vanilla == <<325, 3800>>
Hacked == <<70, 6000>>

radioA == [serial |-> "A", chip |-> "ad9363", range |-> Vanilla]
radioB == [serial |-> "B", chip |-> "ad9363", range |-> Vanilla]
spare == [serial |-> "C", chip |-> "ad9364", range |-> Hacked]
TheRadios == {radioA, radioB, spare}

TheUris == {ipA, ipB}
TheBenches == {(ipA :> radioA @@ ipB :> radioB), (ipA :> radioB @@ ipB :> radioA),
               (ipA :> radioA @@ ipB :> spare)}

Device(name, kind, role, uri, radio) ==
  [name |-> name, kind |-> kind, role |-> role, uri |-> uri,
   serial |-> radio.serial, chip |-> radio.chip, range |-> radio.range]
NoFacts == [serial |-> None, chip |-> None, range |-> None]

Tx(radio) == Device("tx", "pluto", "transmitter", ipA, radio)
Rx(radio) == Device("rx", "pluto", "receiver", ipB, radio)
HackRF == Device("jam", "hackrf", "jammer", None, NoFacts)

Word(medium, antennas, shielded) ==
  [medium |-> medium, antennas |-> antennas, shielded |-> shielded]
Coax == Word("coax", FALSE, None)
Declared(radios, attestation) ==
  [version |-> 1, devices |-> radios, attestation |-> attestation, matched |-> None]

Full == {Tx(radioA), Rx(radioB), HackRF}
Declarations == {
  Declared(Full, Coax),
  Declared(Full, Word("coax", None, None)),
  Declared(Full, Word("anechoic", TRUE, TRUE)),
  Declared(Full, Word("anechoic", FALSE, None)),
  Declared(Full, Word("over_the_air", TRUE, None)),
  Declared(Full, None),
  Declared({Tx(radioA), Rx(radioB)}, Coax),
  Declared({Tx([radioA EXCEPT !.serial = None]), Rx([radioB EXCEPT !.chip = None]), HackRF}, Coax)}

Unusable == {
  [Declared(Full, Coax) EXCEPT !.version = 2],
  Declared({Tx(radioA), Rx(radioA)}, Coax),
  Declared({Tx(radioA), HackRF}, Coax),
  Declared({Tx(NoFacts), Rx(NoFacts)}, Coax),
  Declared({Tx(radioA), Rx(radioB), Device("jam", "hackrf", "receiver", ipB, NoFacts)}, Coax),
  Declared(Full, Word("coaxial", FALSE, None)),
  [Declared(Full, Coax) EXCEPT !.matched = <<4000, 5000>>]}

Command(t, explicit, tx, rx, verify) ==
  [host |-> "loopback", token |-> FALSE, topology |-> t, explicit |-> explicit,
   radios |-> TRUE, tx |-> tx, rx |-> rx, jammer |-> TRUE, verify |-> verify]
Usual == Command(Declared(Full, Coax), TRUE, ipA, ipB, TRUE)

TheInvocations ==
  {Command(t, TRUE, ipA, ipB, TRUE) : t \in Declarations}
    \cup {[Usual EXCEPT !.topology = t] : t \in Unusable}
    \cup {[Usual EXCEPT !.topology = file, !.explicit = e] : e \in BOOLEAN}
    \cup {[Usual EXCEPT !.tx = t, !.rx = r] : t, r \in TheUris}
    \cup {[Usual EXCEPT !.topology = None], [Usual EXCEPT !.radios = FALSE],
          [Usual EXCEPT !.jammer = FALSE], [Usual EXCEPT !.verify = FALSE]}
    \cup {[Usual EXCEPT !.host = "network", !.token = t] : t \in BOOLEAN}

(* Silence, a sense around the least margin, and a loud one.                   *)
TheMargins == {0, 4, 10, 16}
===============================================================================
