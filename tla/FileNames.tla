------------------------------ MODULE FileNames ------------------------------
(***************************************************************************)
(* sanitize_filename and safe_join_path (app/utils.py): from the name in a *)
(* START packet to the name of a file in the receiver's directory.         *)
(*                                                                         *)
(* A name is a sequence of characters out of an alphabet in which one      *)
(* member stands for each kind the code tells apart: "x" for an ordinary   *)
(* letter, "n" for a whole device name of Windows (CON, NUL, COM1, ...),   *)
(* ":" for the illegal characters, "<tab>" for the control characters,     *)
(* "<nbsp>" for the whitespace that is neither a blank nor a control       *)
(* character (U+00A0, U+2003, ...), which s.strip() removes and            *)
(* strip(" .") does not.                                                   *)
(* What the code inserts is one character, too: "safe_" for the prefix,    *)
(* "unnamed" for unnamed_received_file, "default" for received_file,       *)
(* "outside" for safe_received_file.                                       *)
(***************************************************************************)
EXTENDS Integers, Sequences

LOCAL INSTANCE FiniteSetsExt

Alphabet == <<"x", "n", ".", " ", "/", "\\", ":", "<tab>", "<nbsp>",
              "_", "safe_", "unnamed", "default", "outside">>

Chars == {Alphabet[k] : k \in DOMAIN Alphabet}

(* What s.strip() removes, once the control characters are gone. *)
Whitespace == {" ", "<nbsp>"}

Unnamed == <<"unnamed">>

-----------------------------------------------------------------------------
(* What is left of s without the leading and trailing members of blanks. *)
Strip(s, blanks) ==
  LET solid == {i \in DOMAIN s : s[i] \notin blanks} IN
  IF solid = {} THEN <<>> ELSE SubSeq(s, Min(solid), Max(solid))

(* The control characters left out, one character after the other.          *)
Printable(name) ==
  LET kept[n \in 0..Len(name)] ==
        IF n = 0 THEN <<>>
        ELSE IF name[n] = "<tab>" THEN kept[n - 1] ELSE Append(kept[n - 1], name[n])
  IN kept[Len(name)]

Replace(name, old, new) == [i \in DOMAIN name |-> IF name[i] = old THEN new ELSE name[i]]

(* The last of the segments between slashes that is more than whitespace,   *)
(* stripped of it.                                                          *)
BaseName(path) ==
  LET solid == {i \in DOMAIN path : path[i] \notin {"/"} \cup Whitespace} IN
  IF solid = {} THEN <<>>
  ELSE LET last == Max(solid)
           segment == {i \in 1..last : \A j \in i..last : path[j] # "/"}
       IN SubSeq(path, Min(segment \cap {i \in segment : path[i] \notin Whitespace}), last)

(* Path.stem: a dot at the beginning or at the end starts no suffix. *)
Stem(name) ==
  LET dots == {i \in DOMAIN name : name[i] = "."} IN
  IF dots # {} /\ Max(dots) \in 2..(Len(name) - 1)
  THEN SubSeq(name, 1, Max(dots) - 1)
  ELSE name

IsDevice(name) == Stem(name) = <<"n">>

sanitize_filename(name) ==
  LET base  == Replace(BaseName(Replace(Printable(name), "\\", "/")), ":", "_")
      safe  == IF IsDevice(base) THEN <<"safe_">> \o base ELSE base
      final == Strip(safe, {" ", "."})
  IN IF base \in {<<>>, <<".">>, <<".", ".">>} \/ final = <<>> THEN Unnamed ELSE final

(* The parts of a relative path that is one step down from its base. *)
IsInside(name) == name[1] # "/" /\ name # <<".", ".">>

(* safe_join_path, and what receive_file does when it raises.               *)
SavedName(name) ==
  LET clean == sanitize_filename(name) IN
  IF IsInside(clean) THEN clean ELSE <<"outside">>
=============================================================================
