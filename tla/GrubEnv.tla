------------------------------ MODULE GrubEnv ------------------------------
(***************************************************************************)
(* GRUB's environment block, a file of fixed size that load_env reads and  *)
(* save_env rewrites in place: lines "name=value", then padding.  The      *)
(* buffer is what follows the signature, byte by byte.                     *)
(***************************************************************************)
EXTENDS Integers, Sequences, SequencesExt, Functions, TLC

CONSTANTS Bytes,        \* the characters of names and values
          EnvNames, EnvValues, \* what scripts save
          MaxLen        \* bound: size of the block

VARIABLES buf,          \* the block
          last          \* the latest save: the block before, its arguments and result

vars == <<buf, last>>

EOL == "\n"
Pad == "#"
Eq  == "="

Ends(b) == {i \in 1..Len(b) : b[i] = EOL}

(* The lines up to each end of line, and what follows the last of them. *)
Starts(b) == {1} \cup {i + 1 : i \in Ends(b)}
LineAt(b, i) == SubSeq(b, i, CHOOSE j \in i - 1..Len(b) :
                          /\ j + 1 \in Ends(b) \cup {Len(b) + 1}
                          /\ \A k \in i - 1..j - 1 : k + 1 \notin Ends(b))
Sep(line) == LET at == {i \in 1..Len(line) : line[i] = Eq}
             IN IF at = {} THEN 0 ELSE CHOOSE i \in at : \A j \in at : i <= j

(* parse_buf_to_env: the entries in order, the last of a name counting. *)
Load(b) ==
  LET entry(i) == LET l == LineAt(b, i)
                  IN i <= Len(b) /\ l # <<>> /\ l[1] # Pad /\ Sep(l) > 1
      at  == {i \in Starts(b) : entry(i)}
      key(i) == SubSeq(LineAt(b, i), 1, Sep(LineAt(b, i)) - 1)
      val(i) == LET l == LineAt(b, i) IN SubSeq(l, Sep(l) + 1, Len(l))
  IN [n \in {key(i) : i \in at} |->
        val(CHOOSE i \in at : key(i) = n /\ \A j \in at : key(j) = n => j <= i)]

(* Mutant: the length of the name is not compared. *)
EntryOfPrefix(line, name) == Sep(line) > 0 /\ IsPrefix(name, line)

EntryOf(line, name) == Sep(line) = Len(name) + 1 /\ IsPrefix(name, line)

(* The place of an entry: head is its first byte, tail the first after it, *)
(* end the first after the valid data.                                     *)
Place(b, name, len) ==
  LET whole   == {i \in Starts(b) : \E e \in Ends(b) : i <= e}
      after(i) == i + Len(LineAt(b, i)) + 1
      same    == {i \in whole : EntryOf(LineAt(b, i), name)}
      invalid == {i \in whole : Sep(LineAt(b, i)) = 0}
      rest    == Starts(b) \ whole
      end     == IF rest \cap 1..Len(b) # {}
                 THEN CHOOSE i \in rest : TRUE ELSE Len(b) + 1
      Lowest(S) == CHOOSE i \in S : \A j \in S : i <= j
      Highest(S) == CHOOSE i \in S : \A j \in S : i >= j
  IN IF b = <<>> THEN <<>>
     ELSE IF same # {} THEN <<Lowest(same), after(Lowest(same)), end>>
     ELSE IF invalid # {} THEN <<Highest(invalid), after(Highest(invalid)), end>>
     ELSE IF end <= Len(b) THEN <<end, end + len, end>>
     ELSE <<>>

(* update_env: the entry goes between head and tail, what follows moves,   *)
(* and the block keeps its length.                                         *)
UpdateEnv(b, name, value) ==
  LET entry == name \o <<Eq>> \o value \o <<EOL>>
      p     == Place(b, name, Len(entry))
      delta == Len(entry) - (p[2] - p[1])
  IN IF p = <<>> \/ delta > Len(b) + 1 - p[3] \/ p[2] > Len(b) + 1
     THEN <<b, -1>>
     ELSE <<SubSeq(SubSeq(b, 1, p[1] - 1) \o entry \o SubSeq(b, p[2], Len(b))
                   \o [i \in 1..Len(b) |-> Pad], 1, Len(b)), 0>>

(* A block as grub-editenv leaves it: one entry a name, and only padding   *)
(* after the last end of line.                                             *)
WellFormed(b) ==
  /\ \A i \in 1..Len(b) : (\A e \in Ends(b) : e < i) => b[i] = Pad
  /\ \A i, j \in Starts(b) :
       LET k == LineAt(b, i) m == LineAt(b, j)
       IN Sep(k) > 0 /\ Sep(k) = Sep(m) /\ SubSeq(k, 1, Sep(k)) = SubSeq(m, 1, Sep(m))
            => i = j

Init ==
  /\ \E n \in 0..MaxLen : buf \in [1..n -> Bytes \cup {EOL, Pad, Eq}]
  /\ WellFormed(buf)
  /\ last = [buf |-> <<>>, name |-> <<>>, value |-> <<>>, rc |-> 1]

(* save_env of one variable. *)
Save(n, v) ==
  LET u == UpdateEnv(buf, n, v)
  IN /\ buf' = u[1]
     /\ last' = [buf |-> buf, name |-> n, value |-> v, rc |-> u[2]]

Next == \E n \in EnvNames, v \in EnvValues : Save(n, v)

Spec == Init /\ [][Next]_vars

---------------------------------------------------------------------------
(* A save changes the variable it names and no other, keeps the block's    *)
(* size and shape, and changes nothing when there is no room.              *)
EnvSaved ==
  CASE last.rc = 0  -> /\ Len(buf) = Len(last.buf) /\ WellFormed(buf)
                       /\ Load(buf) = (last.name :> last.value) @@ Load(last.buf)
    [] last.rc = -1 -> buf = last.buf
    [] last.rc = 1  -> TRUE
=============================================================================
