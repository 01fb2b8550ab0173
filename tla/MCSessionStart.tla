--------------------------- MODULE MCSessionStart ---------------------------
(* An instance of SessionStart: payloads of at most five bytes, so that *)
(* the START of a name of five characters does not fit.                    *)
EXTENDS SessionStart

MCConfigs ==
  [payload_size : {0, MaxPayload, MaxPayload + 1}, window_size : {0, 1}, max_retries : {-1, 0}]

Typed == {"x", "n", ".", " ", "/", "\\", ":", "<tab>", "<nbsp>"}

ShortNames == {<<>>} \cup {<<a>> : a \in Typed} \cup {<<a, b>> : a, b \in Typed}

(* Around a device's name, every order of what strips and splits. *)
LongNames ==
  {<<a, b, c>> : a, b, c \in {"n", ".", " ", "<nbsp>", "/"}}
    \cup {<<a, b, c, d>> : a, b, c, d \in {"n", ".", " ", "<nbsp>"}}
    \cup {<<".", "n", ".", "x">>, <<"n", ".", "x", ".">>, <<"n", ".", "x", ".", "x">>,
          <<".", ".", "/", "n">>, <<".", ".", "/", "x">>}

MCOtherNames  == ShortNames \cup LongNames

(* The names a file can have: one component. *)
MCSourceNames == {n \in MCOtherNames \ {<<>>, <<".">>, <<".", ".">>} : \A i \in DOMAIN n : n[i] # "/"}
=============================================================================
