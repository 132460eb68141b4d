------------------------------- MODULE LiveProofs -------------------------------
(***************************************************************************)
(* The safety of the races of the demo.  MCLive runs them beside other      *)
(* components; what is proved here is about the races alone, and at the end *)
(* about the part of MCLive they are.                                       *)
(***************************************************************************)
EXTENDS MCLive, TLAPS

-----------------------------------------------------------------------------
(***************************************************************************)
(* The races of the demo: for any players, circuits, laps and times nobody  *)
(* is left between a kart and the lobby, and what is built is what the      *)
(* phase of the round says.                                                *)
(***************************************************************************)

(* What the theorems assume of the constants *)
Karts == [participant : BOOLEAN, finished : BOOLEAN, gate : Nat, hidden : BOOLEAN,
          seated : BOOLEAN]
Flights == [age : Nat, had : BOOLEAN]

RaceDistinct ==
  /\ R!RaceAssumption /\ \A c \in Circuit : Track[c] \in Seq(R!ToSet(Track[c]))
  /\ NoKart \notin Karts /\ NoFlight \notin Flights

-----------------------------------------------------------------------------
(* The inductive invariant of the pilots *)

PilotTypes ==
  /\ step \in {"game", "barrier"} /\ online \subseteq Player /\ roster \subseteq online
  /\ round \in {"lobby", "generating", "loading", "countdown", "racing", "destroying", "results"}
  /\ kart \in [Player -> Karts \cup {NoKart}]
  /\ transfer \in [Player -> {"none", "lobby", "boarding"}]
  /\ flight \in [Player -> Flights \cup {NoFlight}]
  /\ controlled \subseteq online /\ airborne \subseteq online
  /\ \A p \in Player : kart[p] # NoKart <=> p \in roster
  /\ \A p \in Player : flight[p] # NoFlight <=> transfer[p] # "none"
  /\ \A p \in Player \ online : transfer[p] = "none"

(* The phases in which pilots are in their karts *)
Aboard == round \in {"loading", "countdown", "racing"}

(* Flying free, or on the way there *)
Free(p) == p \in airborne /\ (kart[p] = NoKart \/ kart[p].hidden)

PilotOk(p) ==
  /\ R!Seated(p) =>
       /\ Aboard /\ kart[p].participant /\ ~kart[p].hidden
       /\ transfer[p] = "none" /\ p \in controlled \ airborne
  /\ p \in online /\ ~R!Seated(p) /\ transfer[p] = "none" => Free(p) /\ p \notin controlled
  /\ transfer[p] = "lobby" => ~R!Seated(p) /\ Free(p)
  /\ transfer[p] = "boarding" =>
       round = "loading" /\ kart[p] # NoKart /\ kart[p].participant /\ ~kart[p].seated /\ ~kart[p].hidden
  /\ Aboard /\ p \in R!Participants => R!Seated(p) \/ transfer[p] = "boarding"

PilotsInv == PilotTypes /\ \A p \in Player : PilotOk(p)

-----------------------------------------------------------------------------
(* What is built: the circuit of the round, but for what is pending. *)

Pieces == R!ToSet(Track[circuit])

CircuitInv ==
  /\ circuit \in Circuit
  /\ round \in {"lobby", "generating", "loading", "countdown", "racing", "destroying", "results"}
  /\ round \in {"generating", "destroying"} =>
       /\ pending \in Seq(Pieces) /\ pending # <<>>
       /\ \A i, j \in 1..Len(pending) : pending[i] = pending[j] => i = j
  /\ R!CircuitWhole

-----------------------------------------------------------------------------
(* A piece is taken from the end of what is pending. *)
LEMMA FrontLeavesRest ==
  ASSUME NEW S, NEW s \in Seq(S), s # <<>>,
         \A i, j \in 1..Len(s) : s[i] = s[j] => i = j
  PROVE  /\ R!Front(s) \in Seq(S) /\ R!Last(s) \in R!ToSet(s)
         /\ R!ToSet(R!Front(s)) = R!ToSet(s) \ {R!Last(s)}
         /\ \A i, j \in 1..Len(R!Front(s)) : R!Front(s)[i] = R!Front(s)[j] => i = j
<1>1. Len(s) \in Nat \ {0} /\ DOMAIN s = 1..Len(s)  OBVIOUS
<1>2. R!Front(s) = [i \in 1..(Len(s) - 1) |-> s[i]] /\ R!Last(s) = s[Len(s)]
  BY <1>1 DEF R!Front, R!Last
<1>3. /\ R!Front(s) \in Seq(S) /\ Len(R!Front(s)) = Len(s) - 1
      /\ \A i \in 1..(Len(s) - 1) : R!Front(s)[i] = s[i]
  BY <1>1, <1>2
<1>4. R!ToSet(s) = {s[i] : i \in 1..Len(s)}
      /\ R!ToSet(R!Front(s)) = {s[i] : i \in 1..(Len(s) - 1)}
  BY <1>1, <1>2, <1>3 DEF R!ToSet
<1> QED BY <1>1, <1>2, <1>3, <1>4

LEMMA ReverseHasSame ==
  ASSUME NEW S, NEW s \in Seq(S), R!IsInjective(s), s # <<>>
  PROVE  /\ R!Reverse(s) \in Seq(S) /\ R!Reverse(s) # <<>> /\ R!ToSet(R!Reverse(s)) = R!ToSet(s)
         /\ \A i, j \in 1..Len(R!Reverse(s)) : R!Reverse(s)[i] = R!Reverse(s)[j] => i = j
<1>1. Len(s) \in Nat \ {0} /\ DOMAIN s = 1..Len(s)  OBVIOUS
<1>2. R!Reverse(s) = [j \in 1..Len(s) |-> s[Len(s) - j + 1]]  BY DEF R!Reverse
<1>3. \A j \in 1..Len(s) : Len(s) - j + 1 \in 1..Len(s) /\ Len(s) - (Len(s) - j + 1) + 1 = j
  BY <1>1
<1>4. R!Reverse(s) \in Seq(S) /\ Len(R!Reverse(s)) = Len(s)  BY <1>1, <1>2, <1>3
<1>5. R!ToSet(R!Reverse(s)) = R!ToSet(s)
  <2>1. DOMAIN R!Reverse(s) = 1..Len(s) /\ \A j \in 1..Len(s) : R!Reverse(s)[j] = s[Len(s) - j + 1]
    BY <1>1, <1>2
  <2>2. \A j \in 1..Len(s) : s[j] = R!Reverse(s)[Len(s) - j + 1]  BY <1>1, <1>3, <2>1
  <2>3. R!ToSet(R!Reverse(s)) \subseteq R!ToSet(s)  BY <1>1, <1>3, <2>1 DEF R!ToSet
  <2>4. R!ToSet(s) \subseteq R!ToSet(R!Reverse(s))  BY <1>1, <1>3, <2>1, <2>2 DEF R!ToSet
  <2> QED BY <2>3, <2>4
<1>6. \A i, j \in 1..Len(s) : s[i] = s[j] => i = j  BY <1>1 DEF R!IsInjective
<1>7. ASSUME NEW i \in 1..Len(R!Reverse(s)), NEW j \in 1..Len(R!Reverse(s)), R!Reverse(s)[i] = R!Reverse(s)[j]
      PROVE  i = j
  <2>1. i \in 1..Len(s) /\ j \in 1..Len(s)  BY <1>4
  <2>2. s[Len(s) - i + 1] = s[Len(s) - j + 1]  BY <1>2, <1>7, <2>1
  <2>3. Len(s) - i + 1 = Len(s) - j + 1  BY <1>3, <1>6, <2>1, <2>2
  <2> QED BY <2>1, <2>3, <1>1
<1>8. R!Reverse(s) # <<>>  BY <1>1, <1>4
<1> QED BY <1>4, <1>5, <1>7, <1>8

-----------------------------------------------------------------------------
(* Each step keeps what is built. *)

(* construct: the last piece of what is pending is built or taken away.     *)
LEMMA PieceDone ==
  ASSUME CircuitInv, round \in {"generating", "destroying"}, NEW make \in BOOLEAN, R!Piece(make)
  PROVE  /\ pending' \in Seq(Pieces)
         /\ \A i, j \in 1..Len(pending') : pending'[i] = pending'[j] => i = j
         /\ \/ UNCHANGED <<pending, built>>
            \/ /\ R!Last(pending) \in R!ToSet(pending)
               /\ R!ToSet(pending') = R!ToSet(pending) \ {R!Last(pending)}
               /\ built' = IF make THEN built \cup {R!Last(pending)} ELSE built \ {R!Last(pending)}
<1>1. /\ pending \in Seq(Pieces) /\ pending # <<>>
      /\ \A i, j \in 1..Len(pending) : pending[i] = pending[j] => i = j
  BY DEF CircuitInv
<1>2. CASE UNCHANGED <<pending, built>>  BY <1>1, <1>2
<1>3. CASE /\ pending' = R!Front(pending)
           /\ built' = IF make THEN built \cup {R!Last(pending)} ELSE built \ {R!Last(pending)}
  BY <1>1, <1>3, FrontLeavesRest
<1> QED BY <1>2, <1>3 DEF R!Piece

LEMMA PendingWithin ==
  ASSUME NEW S, NEW s \in Seq(S)
  PROVE  R!ToSet(s) \subseteq S /\ (R!ToSet(s) = {} <=> s = <<>>)
<1>1. Len(s) \in Nat /\ DOMAIN s = 1..Len(s) /\ \A i \in 1..Len(s) : s[i] \in S  OBVIOUS
<1>2. s # <<>> => s[1] \in R!ToSet(s)  BY <1>1 DEF R!ToSet
<1>3. s = <<>> => R!ToSet(s) = {}  BY DEF R!ToSet
<1> QED BY <1>1, <1>2, <1>3 DEF R!ToSet

LEMMA LaunchedCircuit ==
  ASSUME RaceDistinct, CircuitInv, NEW p \in Player, NEW l \in 1..MaxLaps, NEW c \in Circuit,
         R!Launch(p, l, c)
  PROVE  CircuitInv'
<1>1. /\ R!Idle /\ circuit' = c /\ round' = "generating" /\ pending' = Track[c] /\ built' = built
  BY DEF R!Launch, R!Schedule
<1>2. Track[c] # <<>> /\ R!IsInjective(Track[c]) /\ Track[c] \in Seq(R!ToSet(Track[c]))
  BY DEF RaceDistinct, R!RaceAssumption
<1>3. \A i, j \in 1..Len(Track[c]) : Track[c][i] = Track[c][j] => i = j
  BY <1>2 DEF R!IsInjective
<1>4. built = {}  BY <1>1 DEF CircuitInv, R!CircuitWhole, R!Idle
<1>5. R!CircuitWhole'  BY <1>1, <1>4 DEF R!CircuitWhole, R!Idle
<1> QED BY <1>1, <1>2, <1>3, <1>5 DEF CircuitInv, Pieces

LEMMA ChainCircuit ==
  ASSUME RaceDistinct, CircuitInv, R!Chain PROVE CircuitInv'
<1>1. circuit' = circuit /\ circuit \in Circuit /\ Pieces' = Pieces
  BY DEF R!Chain, CircuitInv, Pieces
<1>2. CASE R!Generate
  <2>1. round = "generating" /\ R!Piece(TRUE) /\ round' \in {"generating", "countdown", "loading"}
        /\ (round' = "generating" <=> pending' # <<>>)
    BY <1>2 DEF R!Generate
  <2>2. /\ pending' \in Seq(Pieces)
        /\ \A i, j \in 1..Len(pending') : pending'[i] = pending'[j] => i = j
        /\ \/ UNCHANGED <<pending, built>>
           \/ /\ R!Last(pending) \in R!ToSet(pending)
              /\ R!ToSet(pending') = R!ToSet(pending) \ {R!Last(pending)}
              /\ built' = built \cup {R!Last(pending)}
    BY <2>1, PieceDone
  <2>3. built = Pieces \ R!ToSet(pending) /\ pending \in Seq(Pieces)
    BY <2>1 DEF CircuitInv, R!CircuitWhole, R!Idle, Pieces
  <2>4. R!ToSet(pending) \subseteq Pieces  BY <2>3, PendingWithin
  <2>5. built' = Pieces \ R!ToSet(pending')  BY <2>2, <2>3, <2>4
  <2>6. pending' = <<>> => R!ToSet(pending') = {}  BY <2>2, PendingWithin
  <2>7. R!CircuitWhole'
    BY <1>1, <2>1, <2>5, <2>6 DEF R!CircuitWhole, R!Idle, Pieces
  <2> QED BY <1>1, <2>1, <2>2, <2>7 DEF CircuitInv
<1>3. CASE R!Demolish
  <2>1. round = "destroying" /\ R!Piece(FALSE)
        /\ round' = IF pending' = <<>> THEN "results" ELSE "destroying"
    BY <1>3 DEF R!Demolish
  <2>2. /\ pending' \in Seq(Pieces)
        /\ \A i, j \in 1..Len(pending') : pending'[i] = pending'[j] => i = j
        /\ \/ UNCHANGED <<pending, built>>
           \/ /\ R!Last(pending) \in R!ToSet(pending)
              /\ R!ToSet(pending') = R!ToSet(pending) \ {R!Last(pending)}
              /\ built' = built \ {R!Last(pending)}
    BY <2>1, PieceDone
  <2>3. built = R!ToSet(pending)
    BY <2>1 DEF CircuitInv, R!CircuitWhole, R!Idle
  <2>4. built' = R!ToSet(pending')
    BY <2>2, <2>3
  <2>5. pending' = <<>> => R!ToSet(pending') = {}  BY <2>2, PendingWithin
  <2>6. R!CircuitWhole'  BY <2>1, <2>4, <2>5 DEF R!CircuitWhole, R!Idle
  <2> QED BY <1>1, <2>1, <2>2, <2>6 DEF CircuitInv
<1>4. CASE R!Drive
  <2>1. \/ round' = "racing" /\ UNCHANGED <<pending, built>>
        \/ round' = "destroying" /\ pending' = R!Reverse(Track[circuit]) /\ UNCHANGED built
    BY <1>4 DEF R!Drive, R!Run, R!Schedule
  <2>2. built = Pieces
    BY <1>4 DEF CircuitInv, R!CircuitWhole, R!Idle, R!Drive, Pieces
  <2>3. /\ Track[circuit] \in Seq(Pieces) /\ R!IsInjective(Track[circuit])
        /\ Track[circuit] # <<>>
    BY <1>1 DEF RaceDistinct, R!RaceAssumption, Pieces
  <2>4. /\ R!Reverse(Track[circuit]) \in Seq(Pieces) /\ R!Reverse(Track[circuit]) # <<>>
        /\ R!ToSet(R!Reverse(Track[circuit])) = Pieces
        /\ \A i, j \in 1..Len(R!Reverse(Track[circuit])) :
             R!Reverse(Track[circuit])[i] = R!Reverse(Track[circuit])[j] => i = j
    BY <2>3, ReverseHasSame DEF Pieces
  <2>5. CASE round' = "racing" /\ UNCHANGED <<pending, built>>
    BY <1>1, <2>2, <2>5 DEF CircuitInv, R!CircuitWhole, R!Idle, Pieces
  <2>6. CASE round' = "destroying" /\ pending' = R!Reverse(Track[circuit]) /\ UNCHANGED built
    BY <1>1, <2>2, <2>4, <2>6 DEF CircuitInv, R!CircuitWhole, R!Idle
  <2> QED BY <2>1, <2>5, <2>6
<1>5. CASE R!Load \/ R!Count \/ R!Rest
  <2>1. UNCHANGED <<pending, built>>
        /\ \/ round' = round
           \/ round = "loading" /\ round' = "countdown"
    BY <1>5 DEF R!Load, R!Count, R!Rest
  <2> QED BY <1>1, <2>1 DEF CircuitInv, R!CircuitWhole, R!Idle, Pieces
<1> QED BY <1>2, <1>3, <1>4, <1>5 DEF R!Chain

LEMMA CircuitStart == ASSUME RaceDistinct PROVE R!Init => CircuitInv
  BY DEF R!Init, CircuitInv, R!CircuitWhole, R!Idle

LEMMA CircuitKeep ==
  ASSUME RaceDistinct PROVE CircuitInv /\ [R!Next]_R!vars => CircuitInv'
<1> SUFFICES ASSUME CircuitInv, [R!Next]_R!vars PROVE CircuitInv'  OBVIOUS
<1>1. CASE UNCHANGED R!round
  BY <1>1 DEF R!round, CircuitInv, R!CircuitWhole, R!Idle, Pieces
<1>2. ASSUME NEW p \in Player, NEW l \in 1..MaxLaps, NEW c \in Circuit, R!Launch(p, l, c)
      PROVE  CircuitInv'
  BY <1>2, LaunchedCircuit
<1>3. CASE R!Game
  <2>1. ASSUME NEW p \in Player, R!Connect(p) \/ R!Quit(p) \/ R!Join(p) \/ R!Leave(p) \/ R!Cancel(p)
        PROVE  UNCHANGED R!round
    BY <2>1 DEF R!Connect, R!Quit, R!Join, R!Leave, R!Cancel, R!round
  <2> QED BY <1>1, <1>2, <1>3, <2>1 DEF R!Game
<1>4. CASE R!Barrier  BY <1>1, <1>4 DEF R!Barrier
<1>5. CASE R!Chain  BY <1>5, ChainCircuit
<1>6. CASE \E p \in Player : R!Confirmed(p) \/ R!TimedOut(p)
  BY <1>1, <1>6 DEF R!Confirmed, R!TimedOut
<1>7. CASE UNCHANGED R!vars  BY <1>1, <1>7 DEF R!vars
<1> QED BY <1>3, <1>4, <1>5, <1>6, <1>7 DEF R!Next

-----------------------------------------------------------------------------
(* Each step keeps the pilots where they belong. *)

(* Whom a step does not concern *)
LEMMA OtherOk ==
  ASSUME NEW q \in Player, PilotOk(q), round' = round,
         kart'[q] = kart[q], transfer'[q] = transfer[q],
         q \in controlled' <=> q \in controlled, q \in airborne' <=> q \in airborne,
         q \in online' <=> q \in online
  PROVE  PilotOk(q)'
  BY DEF PilotOk, R!Seated, Aboard, Free, R!Participants

LEMMA UnseatedTyped ==
  ASSUME RaceDistinct, NEW k \in Karts \cup {NoKart}
  PROVE  /\ R!Unseated(k) \in Karts \cup {NoKart} /\ (R!Unseated(k) = NoKart <=> k = NoKart)
         /\ R!Unseated(k) # NoKart => ~R!Unseated(k).seated /\ R!Unseated(k).hidden
<1>1. CASE k = NoKart  BY <1>1 DEF R!Unseated
<1>2. CASE k # NoKart
  <2>1. k \in Karts /\ R!Unseated(k) = [k EXCEPT !.seated = FALSE, !.hidden = TRUE]
    BY <1>2 DEF R!Unseated
  <2>2. R!Unseated(k) \in Karts /\ ~R!Unseated(k).seated /\ R!Unseated(k).hidden
    BY <2>1 DEF Karts
  <2> QED BY <1>2, <2>2 DEF RaceDistinct
<1> QED BY <1>1, <1>2

LEMMA BegunTyped ==
  ASSUME RaceDistinct, PilotTypes, NEW p \in Player, NEW had \in BOOLEAN
  PROVE  R!Begun(p, had) \in Flights /\ R!Begun(p, had) # NoFlight
<1>1. flight[p] # NoFlight => flight[p].had \in BOOLEAN  BY DEF PilotTypes, Flights
<1>2. R!Begun(p, had) \in Flights  BY <1>1 DEF R!Begun, Flights
<1> QED BY <1>2 DEF RaceDistinct

(* Travel::to_lobby: whoever is sent there is unseated and flies. *)
LEMMA SentToLobby ==
  ASSUME RaceDistinct, PilotTypes, NEW S \in SUBSET online,
         NEW ks \in [Player -> Karts \cup {NoKart}], R!ToLobby(S, ks)
  PROVE  /\ kart' \in [Player -> Karts \cup {NoKart}]
         /\ transfer' \in [Player -> {"none", "lobby", "boarding"}]
         /\ flight' \in [Player -> Flights \cup {NoFlight}]
         /\ controlled' \subseteq online /\ airborne' \subseteq online
         /\ \A p \in Player : kart'[p] # NoKart <=> ks[p] # NoKart
         /\ \A p \in Player : flight'[p] # NoFlight <=> transfer'[p] # "none"
         /\ \A p \in S : /\ transfer'[p] = "lobby" /\ p \in airborne' /\ p \in controlled'
                         /\ kart'[p] # NoKart => ~kart'[p].seated /\ kart'[p].hidden
         /\ \A p \in Player \ S :
              /\ transfer'[p] = transfer[p] /\ kart'[p] = ks[p]
              /\ (p \in controlled' <=> p \in controlled) /\ (p \in airborne' <=> p \in airborne)
<1>1. /\ kart' = [p \in Player |-> IF p \in S THEN R!Unseated(ks[p]) ELSE ks[p]]
      /\ airborne' = airborne \cup S
      /\ transfer' = [p \in Player |-> IF p \in S THEN "lobby" ELSE transfer[p]]
      /\ flight' = [p \in Player |-> IF p \in S THEN R!Begun(p, p \in controlled) ELSE flight[p]]
      /\ controlled' = controlled \cup S
  BY DEF R!ToLobby
<1>2. \A p \in Player : ks[p] \in Karts \cup {NoKart}  OBVIOUS
<1>3. \A p \in Player : R!Begun(p, p \in controlled) \in Flights /\ R!Begun(p, p \in controlled) # NoFlight
  <2> TAKE p \in Player
  <2>1. (p \in controlled) \in BOOLEAN  OBVIOUS
  <2> QED BY <2>1, BegunTyped, Zenon
<1>4. \A p \in Player : IF p \in S THEN kart'[p] = R!Unseated(ks[p]) ELSE kart'[p] = ks[p]
  BY <1>1
<1>5. \A p \in Player :
        /\ R!Unseated(ks[p]) \in Karts \cup {NoKart} /\ (R!Unseated(ks[p]) = NoKart <=> ks[p] = NoKart)
        /\ R!Unseated(ks[p]) # NoKart => ~R!Unseated(ks[p]).seated /\ R!Unseated(ks[p]).hidden
  BY <1>2, UnseatedTyped
<1>6. kart' \in [Player -> Karts \cup {NoKart}] /\ \A p \in Player : kart'[p] # NoKart <=> ks[p] # NoKart
  BY <1>1, <1>2, <1>4, <1>5
<1>7. /\ flight' \in [Player -> Flights \cup {NoFlight}]
      /\ \A p \in Player : flight'[p] # NoFlight <=> transfer'[p] # "none"
  BY <1>1, <1>3 DEF PilotTypes
<1>8. S \subseteq Player /\ controlled' \subseteq online /\ airborne' \subseteq online
      /\ transfer' \in [Player -> {"none", "lobby", "boarding"}]
  BY <1>1 DEF PilotTypes
<1>9. \A p \in S : kart'[p] # NoKart => ~kart'[p].seated /\ kart'[p].hidden
  BY <1>4, <1>5, <1>8
<1> QED BY <1>1, <1>4, <1>6, <1>7, <1>8, <1>9

LEMMA JoinedKart ==
  ASSUME RaceDistinct, PilotTypes, NEW p \in online', online' \subseteq Player, online \subseteq online',
         R!Joined(p)
  PROVE  /\ kart' \in [Player -> Karts \cup {NoKart}] /\ roster' \subseteq online'
         /\ \A q \in Player : kart'[q] # NoKart <=> q \in roster'
         /\ \A q \in Player \ {p} : kart'[q] = kart[q]
         /\ \/ kart'[p] = kart[p]
            \/ /\ kart[p] = NoKart /\ kart'[p] # NoKart
               /\ ~kart'[p].participant /\ kart'[p].hidden /\ ~kart'[p].seated
<1> DEFINE k == [participant |-> FALSE, finished |-> FALSE, gate |-> 1,
                 hidden |-> TRUE, seated |-> FALSE]
<1>1. k \in Karts /\ k # NoKart
  <2>1. k \in Karts  BY DEF Karts
  <2> QED BY <2>1 DEF RaceDistinct
<1>2. CASE UNCHANGED <<roster, kart>>
  <2>1. roster' = roster /\ kart' = kart  BY <1>2
  <2> QED BY <2>1 DEF PilotTypes
<1>3. CASE /\ p \notin roster /\ roster' = roster \cup {p} /\ kart' = [kart EXCEPT ![p] = k]
  BY <1>1, <1>3 DEF PilotTypes
<1> QED BY <1>2, <1>3 DEF R!Joined

LEMMA ConnectKeeps ==
  ASSUME RaceDistinct, PilotsInv, NEW p \in Player, R!Connect(p), UNCHANGED step PROVE PilotsInv'
<1>1. /\ p \notin online /\ online' = online \cup {p} /\ airborne' = airborne \cup {p} /\ R!Joined(p)
      /\ UNCHANGED <<round, transfer, flight, controlled>>
  BY DEF R!Connect, R!round
<1>2. PilotTypes /\ \A q \in Player : PilotOk(q)  BY DEF PilotsInv
<1>3. /\ kart' \in [Player -> Karts \cup {NoKart}] /\ roster' \subseteq online'
      /\ \A q \in Player : kart'[q] # NoKart <=> q \in roster'
      /\ \A q \in Player \ {p} : kart'[q] = kart[q]
      /\ \/ kart'[p] = kart[p]
         \/ /\ kart[p] = NoKart /\ kart'[p] # NoKart
            /\ ~kart'[p].participant /\ kart'[p].hidden /\ ~kart'[p].seated
  BY <1>1, <1>2, JoinedKart DEF PilotTypes
<1>4. PilotTypes'  BY <1>1, <1>2, <1>3 DEF PilotTypes
<1>5. ASSUME NEW q \in Player PROVE PilotOk(q)'
  <2>1. CASE q = p
    <3>1. transfer[p] = "none" /\ p \notin controlled /\ kart[p] = NoKart
      BY <1>1, <1>2 DEF PilotTypes
    <3> QED BY <2>1, <3>1, <1>1, <1>3 DEF PilotOk, R!Seated, Free, R!Participants
  <2>2. CASE q # p  BY <2>2, <1>1, <1>2, <1>3, OtherOk
  <2> QED BY <2>1, <2>2
<1> QED BY <1>4, <1>5 DEF PilotsInv

LEMMA QuitKeeps ==
  ASSUME RaceDistinct, PilotsInv, NEW p \in Player, R!Quit(p), UNCHANGED step PROVE PilotsInv'
<1>1. /\ online' = online \ {p} /\ roster' = roster \ {p} /\ kart' = [kart EXCEPT ![p] = NoKart]
      /\ transfer' = [transfer EXCEPT ![p] = "none"] /\ flight' = [flight EXCEPT ![p] = NoFlight]
      /\ controlled' = controlled \ {p} /\ airborne' = airborne \ {p} /\ round' = round
  BY DEF R!Quit, R!Lands, R!round
<1>2. PilotTypes /\ \A q \in Player : PilotOk(q)  BY DEF PilotsInv
<1>3. PilotTypes'  BY <1>1, <1>2 DEF PilotTypes
<1>4. ASSUME NEW q \in Player PROVE PilotOk(q)'
  <2>1. CASE q = p
    BY <2>1, <1>1, <1>2 DEF PilotTypes, PilotOk, R!Seated, R!Participants
  <2>2. CASE q # p  BY <2>2, <1>1, <1>2, OtherOk DEF PilotTypes
  <2> QED BY <2>1, <2>2
<1> QED BY <1>3, <1>4 DEF PilotsInv

LEMMA JoinKeeps ==
  ASSUME RaceDistinct, PilotsInv, NEW p \in Player, R!Join(p), UNCHANGED step PROVE PilotsInv'
<1>1. /\ p \in online \ roster /\ R!Joined(p)
      /\ UNCHANGED <<round, online, transfer, flight, controlled, airborne>>
  BY DEF R!Join, R!round
<1>2. PilotTypes /\ \A q \in Player : PilotOk(q)  BY DEF PilotsInv
<1>3. /\ kart' \in [Player -> Karts \cup {NoKart}] /\ roster' \subseteq online'
      /\ \A q \in Player : kart'[q] # NoKart <=> q \in roster'
      /\ \A q \in Player \ {p} : kart'[q] = kart[q]
      /\ \/ kart'[p] = kart[p]
         \/ /\ kart[p] = NoKart /\ kart'[p] # NoKart
            /\ ~kart'[p].participant /\ kart'[p].hidden /\ ~kart'[p].seated
  BY <1>1, <1>2, JoinedKart DEF PilotTypes
<1>4. PilotTypes'  BY <1>1, <1>2, <1>3 DEF PilotTypes
<1>5. ASSUME NEW q \in Player PROVE PilotOk(q)'
  <2>1. CASE kart'[q] = kart[q]  BY <2>1, <1>1, <1>2, OtherOk
  <2>2. CASE kart'[q] # kart[q]
    <3>1. q = p /\ kart[p] = NoKart /\ kart'[p] # NoKart /\ PilotOk(p)
          /\ ~kart'[p].participant /\ kart'[p].hidden /\ ~kart'[p].seated
      BY <2>2, <1>2, <1>3
    <3> QED BY <3>1, <1>1 DEF PilotOk, R!Seated, Free, R!Participants
  <2> QED BY <2>1, <2>2
<1> QED BY <1>4, <1>5 DEF PilotsInv

LEMMA LeaveKeeps ==
  ASSUME RaceDistinct, PilotsInv, NEW p \in Player, R!Leave(p), UNCHANGED step PROVE PilotsInv'
<1> DEFINE ks == [kart EXCEPT ![p] = NoKart]
<1>1. /\ p \in roster /\ roster' = roster \ {p} /\ R!ToLobby({p}, ks)
      /\ online' = online /\ round' = round
  BY DEF R!Leave, R!round
<1>2. PilotTypes /\ \A q \in Player : PilotOk(q)  BY DEF PilotsInv
<1>3. ks \in [Player -> Karts \cup {NoKart}] /\ {p} \in SUBSET online /\ ks[p] = NoKart
      /\ \A q \in Player \ {p} : ks[q] = kart[q]
  BY <1>1, <1>2 DEF PilotTypes
<1> HIDE DEF ks
<1>4. /\ kart' \in [Player -> Karts \cup {NoKart}]
      /\ transfer' \in [Player -> {"none", "lobby", "boarding"}]
      /\ flight' \in [Player -> Flights \cup {NoFlight}]
      /\ controlled' \subseteq online /\ airborne' \subseteq online
      /\ \A q \in Player : kart'[q] # NoKart <=> ks[q] # NoKart
      /\ \A q \in Player : flight'[q] # NoFlight <=> transfer'[q] # "none"
      /\ transfer'[p] = "lobby" /\ p \in airborne'
      /\ \A q \in Player \ {p} :
           /\ transfer'[q] = transfer[q] /\ kart'[q] = ks[q]
           /\ (q \in controlled' <=> q \in controlled) /\ (q \in airborne' <=> q \in airborne)
  BY <1>1, <1>2, <1>3, SentToLobby
<1>5. PilotTypes'  BY <1>1, <1>2, <1>3, <1>4 DEF PilotTypes
<1>6. ASSUME NEW q \in Player PROVE PilotOk(q)'
  <2>1. CASE q = p
    <3>1. kart'[p] = NoKart  BY <1>3, <1>4
    <3> QED BY <2>1, <3>1, <1>4 DEF PilotOk, R!Seated, Free, R!Participants
  <2>2. CASE q # p  BY <2>2, <1>1, <1>2, <1>3, <1>4, OtherOk
  <2> QED BY <2>1, <2>2
<1> QED BY <1>5, <1>6 DEF PilotsInv

LEMMA LaunchKeeps ==
  ASSUME RaceDistinct, PilotsInv, NEW p \in Player, NEW l \in 1..MaxLaps, NEW c \in Circuit,
         R!Launch(p, l, c), UNCHANGED step
  PROVE  PilotsInv'
<1> DEFINE ks == [q \in Player |->
                   IF q \in roster THEN [kart[q] EXCEPT !.participant = TRUE] ELSE kart[q]]
<1>1. /\ R!Idle /\ R!ToLobby(online, ks) /\ round' = "generating"
      /\ online' = online /\ roster' = roster
  BY DEF R!Launch, R!Schedule
<1>2. PilotTypes /\ \A q \in Player : PilotOk(q)  BY DEF PilotsInv
<1>3. ks \in [Player -> Karts \cup {NoKart}] /\ \A q \in Player : ks[q] # NoKart <=> kart[q] # NoKart
  <2> SUFFICES ASSUME NEW q \in Player
               PROVE  ks[q] \in Karts \cup {NoKart} /\ (ks[q] # NoKart <=> kart[q] # NoKart)
    OBVIOUS
  <2>1. CASE q \in roster
    <3>1. kart[q] \in Karts  BY <2>1, <1>2 DEF PilotTypes
    <3>2. ks[q] \in Karts  BY <2>1, <3>1 DEF Karts
    <3> QED BY <3>1, <3>2 DEF RaceDistinct
  <2>2. CASE q \notin roster  BY <2>2, <1>2 DEF PilotTypes
  <2> QED BY <2>1, <2>2
<1> HIDE DEF ks
<1>4. \A q \in online : transfer'[q] = "lobby" /\ q \in airborne'
  BY <1>1, <1>2, <1>3, SentToLobby
<1>5. \A q \in online : kart'[q] # NoKart => ~kart'[q].seated /\ kart'[q].hidden
  BY <1>1, <1>2, <1>3, SentToLobby
<1>6. \A q \in Player \ online : transfer'[q] = transfer[q]
  BY <1>1, <1>2, <1>3, SentToLobby
<1>7. \A q \in Player : kart'[q] # NoKart <=> ks[q] # NoKart
  <2>1. ks \in [Player -> Karts \cup {NoKart}] /\ PilotTypes /\ R!ToLobby(online, ks)
    BY <1>1, <1>2, <1>3
  <2> TAKE q \in Player
  <2> QED BY <2>1, SentToLobby
<1>8. /\ kart' \in [Player -> Karts \cup {NoKart}]
      /\ transfer' \in [Player -> {"none", "lobby", "boarding"}]
      /\ flight' \in [Player -> Flights \cup {NoFlight}]
      /\ controlled' \subseteq online /\ airborne' \subseteq online
      /\ \A q \in Player : flight'[q] # NoFlight <=> transfer'[q] # "none"
  BY <1>1, <1>2, <1>3, SentToLobby
<1>9. PilotTypes'  BY <1>1, <1>2, <1>3, <1>6, <1>7, <1>8 DEF PilotTypes
<1>10. ASSUME NEW q \in Player PROVE PilotOk(q)'
  <2>1. CASE q \in online
    BY <2>1, <1>1, <1>4, <1>5 DEF PilotOk, R!Seated, Free, Aboard
  <2>2. CASE q \notin online
    <3>1. transfer'[q] = "none" /\ kart'[q] = NoKart
      BY <2>2, <1>2, <1>3, <1>6, <1>7 DEF PilotTypes
    <3> QED BY <2>2, <3>1, <1>1 DEF PilotOk, R!Seated, Aboard
  <2> QED BY <2>1, <2>2
<1> QED BY <1>9, <1>10 DEF PilotsInv

(* arrived: a pilot sits down, watches this round, or is back in the lobby. *)
LEMMA ArrivesKeeps ==
  ASSUME RaceDistinct, PilotsInv, NEW p \in Player, flight[p] # NoFlight,
         NEW ending, R!Arrives(p, ending), UNCHANGED <<step, online, roster, round>>
  PROVE  PilotsInv'
<1>1. PilotTypes /\ (\A q \in Player : PilotOk(q)) /\ p \in online /\ PilotOk(p)
  BY DEF PilotsInv, PilotTypes
(* It is enough that p ends up well, as the others are left alone. *)
<1>2. ASSUME NEW k \in Karts \cup {NoKart}, kart' = [kart EXCEPT ![p] = k],
             k # NoKart <=> kart[p] # NoKart,
             NEW f \in Flights \cup {NoFlight}, flight' = [flight EXCEPT ![p] = f],
             NEW t \in {"none", "lobby"}, transfer' = [transfer EXCEPT ![p] = t],
             f # NoFlight <=> t # "none",
             controlled' \in {controlled \cup {p}, controlled \ {p}},
             airborne' \in {airborne, airborne \cup {p}, airborne \ {p}},
             PilotOk(p)'
      PROVE  PilotsInv'
  <2>1. PilotTypes'  BY <1>1, <1>2 DEF PilotTypes
  <2>2. ASSUME NEW q \in Player \ {p} PROVE PilotOk(q)'
    <3>1. /\ kart'[q] = kart[q] /\ transfer'[q] = transfer[q]
          /\ (q \in controlled' <=> q \in controlled) /\ (q \in airborne' <=> q \in airborne)
      BY <1>1, <1>2 DEF PilotTypes
    <3> QED BY <1>1, <3>1, OtherOk
  <2> QED BY <1>2, <2>1, <2>2 DEF PilotsInv
<1>3. ASSUME transfer[p] = "boarding", R!Mount(p) PROVE PilotsInv'
  <2>1. round = "loading" /\ kart[p] \in Karts /\ kart[p] # NoKart
        /\ kart[p].participant /\ ~kart[p].hidden
    BY <1>1, <1>3 DEF PilotTypes, PilotOk
  <2> DEFINE k == [kart[p] EXCEPT !.seated = TRUE]
  <2>2. k \in Karts /\ k.seated /\ k.participant /\ ~k.hidden  BY <2>1 DEF Karts
  <2>3. k # NoKart  BY <2>2 DEF RaceDistinct
  <2>4. /\ kart' = [kart EXCEPT ![p] = k] /\ flight' = [flight EXCEPT ![p] = NoFlight]
        /\ transfer' = [transfer EXCEPT ![p] = "none"]
        /\ controlled' = controlled \cup {p} /\ airborne' = airborne \ {p}
    BY <1>3, <2>1 DEF R!Mount, R!Lands
  <2> HIDE DEF k
  <2>5. kart'[p] = k /\ transfer'[p] = "none"  BY <2>4, <1>1 DEF PilotTypes
  <2>6. PilotOk(p)'
    BY <2>1, <2>2, <2>3, <2>4, <2>5 DEF PilotOk, R!Seated, Aboard
  <2> QED BY <1>2, <2>1, <2>2, <2>3, <2>4, <2>6
<1>4. ASSUME transfer[p] = "boarding", R!GiveUp(p) \/ R!Dismiss(p) PROVE PilotsInv'
  <2>1. round = "loading" /\ kart[p] \in Karts /\ kart[p] # NoKart
    BY <1>1, <1>4 DEF PilotTypes, PilotOk
  <2> DEFINE k == [kart[p] EXCEPT !.participant = FALSE, !.seated = FALSE, !.hidden = TRUE]
  <2>2. k \in Karts /\ ~k.seated /\ ~k.participant /\ k.hidden  BY <2>1 DEF Karts
  <2>3. k # NoKart  BY <2>2 DEF RaceDistinct
  <2>4. kart' = [kart EXCEPT ![p] = k]
    <3>1. kart' = [R!Spectating(p) EXCEPT ![p] = R!Unseated(@)]
      BY <1>4 DEF R!GiveUp, R!Dismiss
    <3>2. R!Spectating(p) = [kart EXCEPT ![p] = [kart[p] EXCEPT !.participant = FALSE]]
      BY <2>1 DEF R!Spectating
    <3>3. [kart[p] EXCEPT !.participant = FALSE] \in Karts  BY <2>1 DEF Karts
    <3>4. [kart[p] EXCEPT !.participant = FALSE] # NoKart  BY <3>3 DEF RaceDistinct
    <3>5. R!Unseated([kart[p] EXCEPT !.participant = FALSE]) = k
      BY <2>1, <3>4 DEF R!Unseated, Karts
    <3> HIDE DEF k
    <3> QED BY <1>1, <3>1, <3>2, <3>5 DEF PilotTypes
  <2> HIDE DEF k
  <2>5. kart'[p] = k  BY <2>4, <1>1 DEF PilotTypes
  <2>6. p \in airborne' /\ airborne' = airborne \cup {p}  BY <1>4 DEF R!GiveUp, R!Dismiss
  <2>7. CASE R!GiveUp(p)
    <3>1. /\ transfer' = [transfer EXCEPT ![p] = "lobby"] /\ controlled' = controlled \cup {p}
          /\ flight' = [flight EXCEPT ![p] = [age |-> 0, had |-> p \in R!Kept(p)]]
      BY <2>7 DEF R!GiveUp
    <3>2. [age |-> 0, had |-> p \in R!Kept(p)] \in Flights
      <4>1. (p \in R!Kept(p)) \in BOOLEAN  OBVIOUS
      <4> QED BY <4>1 DEF Flights
    <3>3. [age |-> 0, had |-> p \in R!Kept(p)] # NoFlight  BY <3>2 DEF RaceDistinct
    <3>4. transfer'[p] = "lobby"  BY <3>1, <1>1 DEF PilotTypes
    <3>5. PilotOk(p)'  BY <2>2, <2>5, <2>6, <3>4 DEF PilotOk, R!Seated, Free, R!Participants
    <3> QED BY <1>2, <2>1, <2>2, <2>3, <2>4, <2>6, <3>1, <3>2, <3>3, <3>5
  <2>8. CASE R!Dismiss(p)
    <3>1. /\ transfer' = [transfer EXCEPT ![p] = "none"] /\ controlled' = controlled \ {p}
          /\ flight' = [flight EXCEPT ![p] = NoFlight]
      BY <2>8 DEF R!Dismiss, R!Lands
    <3>2. transfer'[p] = "none"  BY <3>1, <1>1 DEF PilotTypes
    <3>3. PilotOk(p)'  BY <2>2, <2>5, <2>6, <3>1, <3>2 DEF PilotOk, R!Seated, Free, R!Participants
    <3> QED BY <1>2, <2>1, <2>2, <2>3, <2>4, <2>6, <3>1, <3>3
  <2> QED BY <1>4, <2>7, <2>8
<1>5. ASSUME transfer[p] = "lobby", R!Lands(p), controlled' = controlled \ {p}, UNCHANGED <<kart, airborne>>
      PROVE  PilotsInv'
  <2>1. /\ transfer' = [transfer EXCEPT ![p] = "none"] /\ flight' = [flight EXCEPT ![p] = NoFlight]
        /\ kart[p] \in Karts \cup {NoKart} /\ kart' = [kart EXCEPT ![p] = kart[p]]
    BY <1>1, <1>5 DEF R!Lands, PilotTypes
  <2>2. transfer'[p] = "none" /\ kart'[p] = kart[p]  BY <2>1, <1>1, <1>5 DEF PilotTypes
  <2>3. ~R!Seated(p) /\ Free(p) /\ (Aboard /\ p \in R!Participants => FALSE)
    BY <1>1, <1>5 DEF PilotOk
  <2>4. PilotOk(p)'
    BY <2>2, <2>3, <1>5 DEF PilotOk, R!Seated, Free, Aboard, R!Participants
  <2> QED BY <1>2, <1>5, <2>1, <2>4
<1> QED BY <1>3, <1>4, <1>5 DEF R!Arrives

LEMMA BarrierKeeps ==
  ASSUME RaceDistinct, PilotsInv, R!Barrier PROVE PilotsInv'
<1>1. /\ step' = "barrier"
      /\ flight' = [p \in Player |->
           IF flight[p] = NoFlight THEN NoFlight ELSE [flight[p] EXCEPT !.age = @ + 1]]
      /\ UNCHANGED <<online, roster, round, kart, transfer, controlled, airborne>>
  BY DEF R!Barrier, R!round
<1>2. PilotTypes /\ \A q \in Player : PilotOk(q)  BY DEF PilotsInv
<1>3. ASSUME NEW p \in Player
      PROVE  flight'[p] \in Flights \cup {NoFlight} /\ (flight'[p] # NoFlight <=> flight[p] # NoFlight)
  <2>1. CASE flight[p] = NoFlight  BY <2>1, <1>1
  <2>2. CASE flight[p] # NoFlight
    <3>1. flight[p] \in Flights  BY <2>2, <1>2 DEF PilotTypes
    <3>2. [flight[p] EXCEPT !.age = @ + 1] \in Flights  BY <3>1 DEF Flights
    <3>3. flight'[p] = [flight[p] EXCEPT !.age = @ + 1]  BY <2>2, <1>1
    <3> QED BY <2>2, <3>2, <3>3 DEF RaceDistinct
  <2> QED BY <2>1, <2>2
<1>4. flight' \in [Player -> Flights \cup {NoFlight}]  BY <1>1, <1>3
<1>5. PilotTypes'  BY <1>1, <1>2, <1>3, <1>4 DEF PilotTypes
<1>6. \A q \in Player : PilotOk(q)'  BY <1>1, <1>2, OtherOk
<1> QED BY <1>5, <1>6 DEF PilotsInv

LEMMA GridTyped ==
  ASSUME RaceDistinct, NEW k \in Karts
  PROVE  LET g == [k EXCEPT !.finished = FALSE, !.gate = 1, !.hidden = FALSE]
         IN  /\ g \in Karts /\ g # NoKart /\ ~g.hidden
             /\ g.participant = k.participant /\ g.seated = k.seated
<1> DEFINE g == [k EXCEPT !.finished = FALSE, !.gate = 1, !.hidden = FALSE]
<1>1. g \in Karts /\ ~g.hidden /\ g.participant = k.participant /\ g.seated = k.seated
  BY DEF Karts
<1> QED BY <1>1 DEF RaceDistinct

(* construct, when the circuit stands: its pilots board. *)
LEMMA GenerateKeeps ==
  ASSUME RaceDistinct, PilotsInv, R!Generate, UNCHANGED <<online, roster>>, step' = "game"
  PROVE  PilotsInv'
<1>1. PilotTypes /\ (\A q \in Player : PilotOk(q)) /\ round = "generating" /\ ~Aboard
  BY DEF PilotsInv, R!Generate, Aboard
<1>2. CASE UNCHANGED <<round, R!pilots>>
  <2>1. UNCHANGED <<round, kart, transfer, flight, controlled, airborne>>  BY <1>2 DEF R!pilots
  <2>2. PilotTypes'  BY <1>1, <2>1 DEF PilotTypes
  <2>3. \A q \in Player : PilotOk(q)'  BY <1>1, <2>1, OtherOk
  <2> QED BY <2>2, <2>3 DEF PilotsInv
<1>3. CASE R!Board(R!Participants) /\ round' \in {"countdown", "loading"}
           /\ (round' = "countdown" => R!Participants = {})
  <2> DEFINE S == R!Participants
  <2>1. /\ kart' = [p \in Player |->
             IF p \in S THEN [kart[p] EXCEPT !.finished = FALSE, !.gate = 1, !.hidden = FALSE]
             ELSE kart[p]]
        /\ transfer' = [p \in Player |-> IF p \in S THEN "boarding" ELSE transfer[p]]
        /\ flight' = [p \in Player |-> IF p \in S THEN R!Begun(p, TRUE) ELSE flight[p]]
        /\ controlled' = controlled \cup S /\ airborne' = airborne
    BY <1>3 DEF R!Board
  <2>2. S \subseteq roster /\ \A p \in S : kart[p] \in Karts /\ kart[p].participant
    BY <1>1 DEF R!Participants, PilotTypes
  <2>3. \A p \in Player : R!Begun(p, TRUE) \in Flights /\ R!Begun(p, TRUE) # NoFlight
    BY <1>1, BegunTyped
  <2>4. \A p \in Player : p \in S <=> kart[p] # NoKart /\ kart[p].participant
    BY DEF R!Participants
  <2> HIDE DEF S
  <2>5. ASSUME NEW p \in S
        PROVE  /\ kart'[p] \in Karts /\ kart'[p] # NoKart /\ ~kart'[p].hidden
               /\ kart'[p].participant /\ (kart'[p].seated <=> kart[p].seated)
    <3>1. p \in Player  BY <1>1, <2>2 DEF PilotTypes
    <3>2. kart'[p] = [kart[p] EXCEPT !.finished = FALSE, !.gate = 1, !.hidden = FALSE]
      BY <2>1, <3>1
    <3>3. kart[p] \in Karts /\ kart[p].participant  BY <2>2
    <3> QED BY <3>2, <3>3, GridTyped
  <2>6. \A p \in Player \ S : kart'[p] = kart[p] /\ transfer'[p] = transfer[p]
    BY <2>1
  <2>7. kart' \in [Player -> Karts \cup {NoKart}] /\ \A p \in Player : kart'[p] # NoKart <=> p \in roster
    BY <1>1, <2>1, <2>2, <2>5, <2>6 DEF PilotTypes
  <2>8. PilotTypes'
    <3>1. /\ flight' \in [Player -> Flights \cup {NoFlight}]
          /\ \A p \in Player : flight'[p] # NoFlight <=> transfer'[p] # "none"
      BY <1>1, <2>1, <2>3 DEF PilotTypes
    <3> QED BY <1>1, <1>3, <2>1, <2>2, <2>7, <3>1 DEF PilotTypes
  <2>9. ASSUME NEW q \in Player PROVE PilotOk(q)'
    <3>1. PilotOk(q) /\ ~R!Seated(q) /\ transfer[q] # "boarding"  BY <1>1 DEF PilotOk
    <3>2. CASE q \in S
      <4>1. transfer'[q] = "boarding" /\ round' = "loading"
        BY <3>2, <1>3, <2>1 DEF S
      <4>2. ~kart'[q].seated  BY <3>1, <3>2, <2>2, <2>4, <2>5 DEF R!Seated
      <4> QED BY <3>2, <4>1, <4>2, <2>5 DEF PilotOk, R!Seated
    <3>3. CASE q \notin S
      <4>1. kart'[q] = kart[q] /\ transfer'[q] = transfer[q] /\ q \notin R!Participants'
        BY <3>3, <2>4, <2>6 DEF R!Participants
      <4> QED BY <3>1, <3>3, <4>1, <2>1 DEF PilotOk, R!Seated, Free
    <3> QED BY <3>2, <3>3
  <2> QED BY <2>8, <2>9 DEF PilotsInv
<1> QED BY <1>2, <1>3 DEF R!Generate

LEMMA DrivenTyped ==
  ASSUME RaceDistinct, NEW k \in Karts, NEW crosses \in BOOLEAN
  PROVE  /\ R!Driven(k, crosses) \in Karts /\ R!Driven(k, crosses) # NoKart
         /\ R!Driven(k, crosses).participant = k.participant
         /\ R!Driven(k, crosses).hidden = k.hidden /\ R!Driven(k, crosses).seated = k.seated
<1> DEFINE gate == IF crosses THEN k.gate + 1 ELSE k.gate
           over == gate > laps * GatesPerLap
<1>1. gate \in Nat  BY DEF Karts
<1>2. over \in BOOLEAN  OBVIOUS
<1>3. R!Driven(k, crosses) = [k EXCEPT !.gate = gate, !.finished = over]  BY DEF R!Driven
<1> HIDE DEF gate, over
<1>4. /\ R!Driven(k, crosses) \in Karts /\ R!Driven(k, crosses).participant = k.participant
      /\ R!Driven(k, crosses).hidden = k.hidden /\ R!Driven(k, crosses).seated = k.seated
  BY <1>1, <1>2, <1>3 DEF Karts
<1> QED BY <1>4 DEF RaceDistinct

(* drive, racing: the karts roll, and in the end all go back to the lobby. *)
LEMMA RunKeeps ==
  ASSUME RaceDistinct, PilotsInv, NEW spent, R!Run(spent), round \in {"countdown", "racing"},
         UNCHANGED <<online, roster>>, step' = "game"
  PROVE  PilotsInv'
<1>1. PilotTypes /\ (\A q \in Player : PilotOk(q)) /\ Aboard /\ \A q \in Player : transfer[q] # "boarding"
  BY DEF PilotsInv, PilotOk, Aboard
<1> DEFINE on == {p \in Player : R!Racing(kart[p])}
<1>2. PICK fast \in SUBSET on :
        LET driven == [p \in Player |-> IF p \in on THEN R!Driven(kart[p], p \in fast) ELSE kart[p]]
        IN  \/ round' = "racing" /\ kart' = driven /\ UNCHANGED <<transfer, flight, controlled, airborne>>
            \/ round' = "destroying" /\ R!ToLobby(online, driven)
  BY DEF R!Run, R!Schedule
<1> DEFINE driven == [p \in Player |-> IF p \in on THEN R!Driven(kart[p], p \in fast) ELSE kart[p]]
<1>3. ASSUME NEW p \in Player
      PROVE  /\ driven[p] \in Karts \cup {NoKart} /\ (driven[p] # NoKart <=> kart[p] # NoKart)
             /\ kart[p] # NoKart =>
                  /\ driven[p].participant = kart[p].participant
                  /\ driven[p].hidden = kart[p].hidden /\ driven[p].seated = kart[p].seated
  <2>1. CASE p \in on
    <3>1. kart[p] \in Karts /\ kart[p] # NoKart  BY <2>1, <1>1 DEF R!Racing, PilotTypes
    <3>2. (p \in fast) \in BOOLEAN  OBVIOUS
    <3> DEFINE crosses == p \in fast
    <3>3. driven[p] = R!Driven(kart[p], crosses) /\ crosses \in BOOLEAN  BY <2>1, <3>2
    <3> HIDE DEF crosses
    <3> QED BY <3>1, <3>3, DrivenTyped
  <2>2. CASE p \notin on  BY <2>2, <1>1 DEF PilotTypes
  <2> QED BY <2>1, <2>2
<1>4. driven \in [Player -> Karts \cup {NoKart}]  BY <1>3
<1>5. \/ round' = "racing" /\ kart' = driven /\ UNCHANGED <<transfer, flight, controlled, airborne>>
      \/ round' = "destroying" /\ R!ToLobby(online, driven)
  BY <1>2
<1> HIDE DEF driven
<1>6. CASE round' = "racing" /\ kart' = driven /\ UNCHANGED <<transfer, flight, controlled, airborne>>
  <2>1. PilotTypes'  BY <1>1, <1>3, <1>4, <1>6 DEF PilotTypes
  <2>2. ASSUME NEW q \in Player PROVE PilotOk(q)'
    <3>1. /\ kart'[q] # NoKart <=> kart[q] # NoKart
          /\ kart[q] # NoKart =>
               /\ kart'[q].participant = kart[q].participant
               /\ kart'[q].hidden = kart[q].hidden /\ kart'[q].seated = kart[q].seated
      BY <1>3, <1>6
    <3>2. PilotOk(q) /\ transfer[q] # "boarding" /\ Aboard /\ Aboard'
          /\ UNCHANGED <<transfer, controlled, airborne, online>>
      BY <1>1, <1>6 DEF Aboard
    <3> QED BY <3>1, <3>2 DEF PilotOk, R!Seated, Free, R!Participants
  <2> QED BY <2>1, <2>2 DEF PilotsInv
<1>7. CASE round' = "destroying" /\ R!ToLobby(online, driven)
  <2>1. \A q \in online : transfer'[q] = "lobby" /\ q \in airborne'
    BY <1>1, <1>4, <1>7, SentToLobby
  <2>2. \A q \in online : kart'[q] # NoKart => ~kart'[q].seated /\ kart'[q].hidden
    BY <1>1, <1>4, <1>7, SentToLobby
  <2>3. \A q \in Player \ online : transfer'[q] = transfer[q]
    BY <1>1, <1>4, <1>7, SentToLobby
  <2>4. \A q \in Player : kart'[q] # NoKart <=> driven[q] # NoKart
    <3>1. driven \in [Player -> Karts \cup {NoKart}] /\ PilotTypes /\ R!ToLobby(online, driven)
      BY <1>1, <1>4, <1>7
    <3> TAKE q \in Player
    <3> QED BY <3>1, SentToLobby
  <2>5. /\ kart' \in [Player -> Karts \cup {NoKart}]
        /\ transfer' \in [Player -> {"none", "lobby", "boarding"}]
        /\ flight' \in [Player -> Flights \cup {NoFlight}]
        /\ controlled' \subseteq online /\ airborne' \subseteq online
        /\ \A q \in Player : flight'[q] # NoFlight <=> transfer'[q] # "none"
    BY <1>1, <1>4, <1>7, SentToLobby
  <2>6. PilotTypes'  BY <1>1, <1>3, <1>7, <2>3, <2>4, <2>5 DEF PilotTypes
  <2>7. ASSUME NEW q \in Player PROVE PilotOk(q)'
    <3>1. CASE q \in online
      BY <3>1, <1>7, <2>1, <2>2 DEF PilotOk, R!Seated, Free, Aboard
    <3>2. CASE q \notin online
      <4>1. transfer'[q] = "none" /\ kart'[q] = NoKart
        BY <3>2, <1>1, <1>3, <2>3, <2>4 DEF PilotTypes
      <4> QED BY <3>2, <4>1, <1>7 DEF PilotOk, R!Seated, Aboard
    <3> QED BY <3>1, <3>2
  <2> QED BY <2>6, <2>7 DEF PilotsInv
<1> QED BY <1>5, <1>6, <1>7

LEMMA ChainKeeps == ASSUME RaceDistinct, PilotsInv, R!Chain PROVE PilotsInv'
<1>1. /\ step' = "game" /\ UNCHANGED <<online, roster>>
      /\ R!Generate \/ R!Demolish \/ R!Load \/ R!Count \/ R!Drive \/ R!Rest
  BY DEF R!Chain
<1>2. PilotTypes /\ \A q \in Player : PilotOk(q)  BY DEF PilotsInv
<1>3. CASE R!Generate  BY <1>1, <1>3, GenerateKeeps
<1>4. CASE R!Drive  BY <1>1, <1>4, RunKeeps DEF R!Drive
(* The others leave the pilots where they are. *)
<1>5. ASSUME UNCHANGED R!pilots,
             round' \in {"lobby", "generating", "loading", "countdown", "racing", "destroying",
                         "results"},
             \A q \in Player : PilotOk(q)'
      PROVE  PilotsInv'
  <2>1. PilotTypes'  BY <1>1, <1>2, <1>5 DEF PilotTypes, R!pilots
  <2> QED BY <1>5, <2>1 DEF PilotsInv
<1>6. CASE UNCHANGED <<round, R!pilots>>
  <2>1. \A q \in Player : PilotOk(q)'  BY <1>1, <1>2, <1>6, OtherOk DEF R!pilots
  <2> QED BY <1>2, <1>5, <1>6, <2>1 DEF PilotTypes
<1>7. CASE R!Demolish
  <2>1. round = "destroying" /\ round' \in {"destroying", "results"} /\ UNCHANGED R!pilots
    BY <1>7 DEF R!Demolish
  <2>2. ASSUME NEW q \in Player PROVE PilotOk(q)'
    <3>1. PilotOk(q) /\ UNCHANGED <<kart, transfer, controlled, airborne, online>>
      BY <1>1, <1>2, <2>1 DEF R!pilots
    <3> QED BY <2>1, <3>1 DEF PilotOk, R!Seated, Aboard, Free
  <2> QED BY <1>5, <2>1, <2>2
<1>8. CASE R!Load
  <2>1. round = "loading" /\ UNCHANGED R!pilots
        /\ (round' = round \/ (~R!StillBoarding /\ round' = "countdown"))
    BY <1>8 DEF R!Load
  <2>2. ASSUME ~R!StillBoarding, round' = "countdown", NEW q \in Player PROVE PilotOk(q)'
    <3>1. PilotOk(q) /\ UNCHANGED <<kart, transfer, controlled, airborne, online>>
      BY <1>1, <1>2, <2>1 DEF R!pilots
    <3>2. transfer[q] # "boarding"
      BY <2>2, <3>1 DEF PilotOk, R!StillBoarding, R!Participants
    <3> QED BY <2>1, <2>2, <3>1, <3>2 DEF PilotOk, R!Seated, Aboard, Free, R!Participants
  <2> QED BY <1>5, <1>6, <2>1, <2>2
<1> QED BY <1>1, <1>3, <1>4, <1>6, <1>7, <1>8 DEF R!Count, R!Rest

LEMMA PilotsStart == ASSUME RaceDistinct PROVE R!Init => PilotsInv
<1> SUFFICES ASSUME R!Init PROVE PilotsInv  OBVIOUS
<1>1. PilotTypes  BY DEF R!Init, PilotTypes
<1>2. ASSUME NEW p \in Player PROVE PilotOk(p)
  BY DEF R!Init, PilotOk, R!Seated, Aboard
<1> QED BY <1>1, <1>2 DEF PilotsInv

LEMMA PilotsKeep ==
  ASSUME RaceDistinct PROVE PilotsInv /\ [R!Next]_R!vars => PilotsInv'
<1> SUFFICES ASSUME PilotsInv, [R!Next]_R!vars PROVE PilotsInv'  OBVIOUS
<1>1. CASE R!Game
  <2>1. UNCHANGED step  BY <1>1 DEF R!Game
  <2>2. ASSUME NEW p \in Player, R!Cancel(p) PROVE PilotsInv'
    BY <2>1, <2>2, ArrivesKeeps DEF R!Cancel, R!round
  <2> QED BY <1>1, <2>1, <2>2, ConnectKeeps, QuitKeeps, JoinKeeps, LeaveKeeps, LaunchKeeps DEF R!Game
<1>2. CASE R!Barrier  BY <1>2, BarrierKeeps
<1>3. CASE R!Chain  BY <1>3, ChainKeeps
<1>4. ASSUME NEW p \in Player, R!Confirmed(p) \/ R!TimedOut(p) PROVE PilotsInv'
  BY <1>4, ArrivesKeeps DEF R!Confirmed, R!TimedOut, R!Late, R!round
<1>5. CASE UNCHANGED R!vars
  <2>1. UNCHANGED <<step, online, roster, round, kart, transfer, flight, controlled, airborne>>
    BY <1>5 DEF R!vars, R!round, R!pilots
  <2>2. PilotTypes'  BY <2>1 DEF PilotsInv, PilotTypes
  <2>3. \A q \in Player : PilotOk(q)'  BY <2>1, OtherOk DEF PilotsInv
  <2> QED BY <2>2, <2>3 DEF PilotsInv
<1> QED BY <1>1, <1>2, <1>3, <1>4, <1>5 DEF R!Next

LEMMA PilotsShow == PilotsInv => R!SeatedOrFree
<1> SUFFICES ASSUME PilotsInv, NEW p \in online
             PROVE  /\ R!Seated(p) =>
                         /\ kart[p].participant /\ ~kart[p].hidden /\ transfer[p] = "none"
                         /\ round \in {"loading", "countdown", "racing"}
                         /\ p \in controlled \ airborne
                    /\ ~R!Seated(p) /\ transfer[p] = "none" =>
                         p \in airborne \ controlled /\ (kart[p] = NoKart \/ kart[p].hidden)
                    /\ round \in {"countdown", "racing"} /\ p \in R!Participants => R!Seated(p)
  BY DEF R!SeatedOrFree
<1>1. PilotOk(p)  BY DEF PilotsInv, PilotTypes
<1> QED BY <1>1 DEF PilotOk, Aboard, Free

-----------------------------------------------------------------------------
(* The part of MCLive *)

LEMMA StepOfRace ==
  ASSUME [NextLive]_live PROVE part' = part /\ (part = "racing" => [R!Next]_R!vars)
<1>1. CASE NextLive
  BY <1>1 DEF NextLive, InTeleport, InSaving, InRacing
<1>2. CASE UNCHANGED live
  <2>1. UNCHANGED <<part, racing>>  BY <1>2 DEF live
  <2>2. UNCHANGED R!vars  BY <2>1 DEF racing, R!vars, R!round, R!pilots
  <2> QED BY <2>1, <2>2
<1> QED BY <1>1, <1>2

-----------------------------------------------------------------------------
(* arrived, to_lobby, board: nobody is left between a kart and the lobby,   *)
(* and no round counts down without one of its pilots.                      *)
THEOREM NobodyBetweenSeats == ASSUME RaceDistinct PROVE SpecLive => []SeatedOrFree
<1> DEFINE Inv == part = "racing" => PilotsInv
<1>1. InitLive => Inv  BY PilotsStart DEF InitLive
<1>2. Inv /\ [NextLive]_live => Inv'  BY StepOfRace, PilotsKeep
<1>3. Inv => SeatedOrFree  BY PilotsShow DEF SeatedOrFree
<1> QED BY <1>1, <1>2, <1>3, PTL DEF SpecLive

(* construct: what is built of a circuit is what the phase says.            *)
THEOREM CircuitStands == ASSUME RaceDistinct PROVE SpecLive => []CircuitWhole
<1> DEFINE Inv == part = "racing" => CircuitInv
<1>1. InitLive => Inv  BY CircuitStart DEF InitLive
<1>2. Inv /\ [NextLive]_live => Inv'  BY StepOfRace, CircuitKeep
<1>3. Inv => CircuitWhole  BY DEF CircuitInv, CircuitWhole
<1> QED BY <1>1, <1>2, <1>3, PTL DEF SpecLive
=============================================================================
