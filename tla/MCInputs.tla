------------------------------ MODULE MCInputs ------------------------------
(* A small instance of Inputs for TLC. *)
EXTENDS Inputs

(* All zeros, all ones, and every bit position against its neighbours. *)
MCSecrets == {[i \in 1 .. 16 |-> 0], [i \in 1 .. 16 |-> 255],
              [i \in 1 .. 16 |-> (7 * i + 31 * (i % 3)) % 256],
              [i \in 1 .. 16 |-> IF i = 16 THEN 1 ELSE 66]}

MCSessions == {<<"8", "f">>}

MCEndpoints == {<<"w", "s", ":", "/", "/", "h">>, <<"h", "/", "?", "a", "=", "1", "&", "b">>,
                <<"%", "2", "F", "+">>}

(* The octets next to the ends of every block, and those of every /8. *)
MCWords16 == {256 * hi + lo : hi \in {0, 9, 10, 11, 169, 171, 172, 173, 191, 192, 193, 251,
                                      252, 253, 254, 255},
                              lo \in {0, 15, 16, 31, 32, 127, 128, 167, 168, 169, 191, 192,
                                      253, 254, 255}}
=============================================================================
