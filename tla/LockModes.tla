------------------------------ MODULE LockModes ------------------------------
(***************************************************************************)
(* The six lock modes and what they allow (internal/lck/mode.go).          *)
(*                                                                         *)
(* Modes are numbered as the code numbers them, because a conversion's     *)
(* direction is decided by comparing the numbers (Convert, regrant).       *)
(***************************************************************************)
EXTENDS Integers

NL == 0   \* null
CR == 1   \* concurrent read
CW == 2   \* concurrent write
PR == 3   \* protected read
PW == 4   \* protected write
EX == 5   \* exclusive

Mode == NL .. EX

\* Share[m] is the set of modes another lock may be held at while one is
\* held at m: row m of the code's compatibility table.
Share == [m \in Mode |->
            CASE m = NL -> {NL, CR, CW, PR, PW, EX}
              [] m = CR -> {NL, CR, CW, PR, PW}
              [] m = CW -> {NL, CR, CW}
              [] m = PR -> {NL, CR, PR}
              [] m = PW -> {NL, CR}
              [] m = EX -> {NL}]

Compatible(m, other) == other \in Share[m]

\* m conflicts with nothing that mode from did not conflict with.
NoMoreRestrictive(m, from) ==
  \A other \in Mode : Compatible(from, other) => Compatible(m, other)

\* The modes whose holder may write the value block back.
Writes(m) == m \in {PW, EX}
=============================================================================
