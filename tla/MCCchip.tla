------------------------------- MODULE MCCchip -------------------------------
(* Two of three processors are fitted; two devices share an input, and a   *)
(* third drives an error input.                                            *)
EXTENDS Cchip, TLC

CONSTANTS s1, s2, s3, dev, err

Shared == s1 :> dev @@ s2 :> dev @@ s3 :> err

Nothing == [it |-> {}, ip |-> {}, req |-> {}, acl |-> FALSE, abw |-> FALSE]

\* Acknowledgements, requests alone and with an acknowledgement, and the
\* arbitration's clear and ask, alone and together.
Written ==
  {[Nothing EXCEPT !.it = {1, 2}]}
    \cup {[Nothing EXCEPT !.ip = i, !.req = r] :
             i \in {{}, {0, 1}}, r \in {{}, {1}, {0, 2}}}
    \cup {[Nothing EXCEPT !.acl = a, !.abw = w] : a \in BOOLEAN, w \in BOOLEAN}
=============================================================================
