-------------------------- MODULE EmuThread_proofs --------------------------
(***************************************************************************)
(* For any number of nested pauses and dialogs, and whatever runs while    *)
(* the user is asked: as long as a pause that waited for the emulator      *)
(* thread is counted that thread runs no frame; and between two slots both *)
(* threads agree on who draws.                                             *)
(***************************************************************************)
EXTENDS EmuThread, SequenceTheorems, TLAPS

\* What the calls of a slot still to come say: a pause is asked for and then
\* awaited, the console is worked on in a pause, and nothing pauses once the user
\* has been asked.
Pauses == {"pause", "pausing", "awaitPause"}
PlainCalls == {"pause", "unpause", "run", "step", "stop", "deinit", "init", "awaitContext", "panel",
               "exit", "join", "end", "pick", "load"}
CallNames == PlainCalls \cup {"pausing", "awaitPause", "work"}
Nests == {"pause", "stop"}
PickLast(s) == \A i, j \in 1 .. Len(s) : i < j /\ s[i] = "pick" => s[j] \notin Nests
CallsInOrder ==
  /\ ui \in Seq(CallNames) /\ EmuPauseStack \in Nat /\ PickLast(ui)
  /\ \A i \in 1 .. Len(ui) :
       /\ ui[i] = "pausing" => i = 1 /\ Len(ui) > 1 /\ ui[2] = "awaitPause"
       /\ ui[i] = "awaitPause" => i = 1 \/ (i = 2 /\ ui[1] = "pausing")
       /\ ui[i] = "work" => /\ EmuPauseStack > 0 \/ ui[1] = "pause"
                            /\ \A j \in 1 .. i - 1 : ui[j] \in Pauses

\* The status says that a frame is run before and while it is.
StatusTold == epc \in {"step?", "step!", "frame"} => EmuStatus = "Running"

\* A thread that was told to pause, and has said so, does not begin a frame.
AtRest == EmuStatus = "Paused" /\ EmuRunning = "Paused"
RestIsSafe == ~unsure /\ AtRest => epc # "claim"

\* The steps of emuPause; and once it is over the thread is at rest.
PauseUnderWay ==
  /\ Calls("pausing") /\ PrevEmuStatus = "Paused" => EmuRunning = "Paused"
  /\ Calls("awaitPause") => EmuRunning = "Paused"
  /\ ~unsure /\ EmuPauseStack > 0 => Calls("pausing") \/ Calls("awaitPause") \/ AtRest

PauseInv == CallsInOrder /\ StatusTold /\ RestIsSafe /\ PauseUnderWay

-----------------------------------------------------------------------------
(* What becomes of the calls *)

LEMMA CallFacts ==
  /\ PlainCalls \subseteq CallNames
  /\ \A call \in PlainCalls : call # "pausing" /\ call # "awaitPause" /\ call # "work"
BY DEF CallNames, PlainCalls

\* A call returns.
LEMMA ReturnOrder ==
  ASSUME CallsInOrder, ui # <<>>, ui' = Tail(ui), EmuPauseStack' \in Nat,
         Head(ui) \in Pauses => EmuPauseStack' >= EmuPauseStack,
         Head(ui) = "pause" => EmuPauseStack' > 0
  PROVE  CallsInOrder' /\ ~Calls("pausing")' /\ (Calls("awaitPause")' <=> Head(ui) = "pausing")
<1>1. /\ ui' \in Seq(CallNames) /\ Len(ui') = Len(ui) - 1 /\ Len(ui) \in Nat /\ Len(ui) > 0
      /\ Head(ui) = ui[1]
      /\ \A i \in 1 .. Len(ui') : ui'[i] = ui[i + 1]
  BY HeadTailProperties DEF CallsInOrder
<1>2. \A i \in 1 .. Len(ui') :
        /\ ui'[i] # "pausing"
        /\ ui'[i] = "awaitPause" => i = 1 /\ ui[1] = "pausing"
        /\ ui'[i] = "work" => /\ EmuPauseStack' > 0
                              /\ \A j \in 1 .. i - 1 : ui'[j] \in Pauses
  <2> SUFFICES ASSUME NEW i \in 1 .. Len(ui')
               PROVE  /\ ui'[i] # "pausing"
                      /\ ui'[i] = "awaitPause" => i = 1 /\ ui[1] = "pausing"
                      /\ ui'[i] = "work" => /\ EmuPauseStack' > 0
                                            /\ \A j \in 1 .. i - 1 : ui'[j] \in Pauses
    OBVIOUS
  <2>1. i + 1 \in 1 .. Len(ui) /\ i + 1 # 1 /\ ui'[i] = ui[i + 1]
    BY <1>1
  <2>2. ui'[i] # "pausing" /\ (ui'[i] = "awaitPause" => i = 1 /\ ui[1] = "pausing")
    BY <2>1 DEF CallsInOrder
  <2>3. ASSUME ui'[i] = "work"
        PROVE  EmuPauseStack' > 0 /\ \A j \in 1 .. i - 1 : ui'[j] \in Pauses
    <3>1. \A j \in 1 .. i : ui[j] \in Pauses
      BY <2>1, <2>3 DEF CallsInOrder
    <3>3. EmuPauseStack \in Nat /\ ui[1] \in Pauses /\ (EmuPauseStack > 0 \/ ui[1] = "pause")
      BY <2>1, <2>3, <3>1 DEF CallsInOrder
    <3>4. EmuPauseStack' > 0
      BY <1>1, <3>3
    <3>2. \A j \in 1 .. i - 1 : j + 1 \in 1 .. i /\ ui'[j] = ui[j + 1]
      BY <1>1
    <3> QED BY <1>1, <3>1, <3>2, <3>4
  <2> QED BY <2>2, <2>3
<1>6. PickLast(ui')
  <2> SUFFICES ASSUME NEW i \in 1 .. Len(ui'), NEW j \in 1 .. Len(ui'), i < j, ui'[i] = "pick"
               PROVE  ui'[j] \notin Nests
    BY DEF PickLast
  <2>1. /\ i + 1 \in 1 .. Len(ui) /\ ui'[i] = ui[i + 1]
        /\ j + 1 \in 1 .. Len(ui) /\ ui'[j] = ui[j + 1] /\ i + 1 < j + 1
    BY <1>1
  <2> QED BY <2>1 DEF CallsInOrder, PickLast
<1>3. CallsInOrder'
  BY <1>1, <1>2, <1>6 DEF CallsInOrder
<1>4. ui' # <<>> => Head(ui') = ui'[1] /\ 1 \in 1 .. Len(ui')
  BY <1>1
<1>5. Head(ui) = "pausing" => ui' # <<>> /\ ui'[1] = "awaitPause"
  <2>1. Head(ui) = "pausing" => Len(ui) > 1 /\ ui[2] = "awaitPause"
    BY <1>1 DEF CallsInOrder
  <2>2. Head(ui) = "pausing" => Len(ui') > 0 /\ 1 \in 1 .. Len(ui')
    <3>1. Len(ui) > 1 => Len(ui') > 0 /\ 1 \in 1 .. Len(ui')
      BY <1>1
    <3> QED BY <2>1, <3>1
  <2>3. Len(ui') > 0 => ui' # <<>>
    OBVIOUS
  <2>4. 1 \in 1 .. Len(ui') => ui'[1] = ui[2]
    BY <1>1
  <2> QED BY <2>1, <2>2, <2>3, <2>4
<1> QED BY <1>1, <1>2, <1>3, <1>4, <1>5 DEF Calls

\* One call, no pause, is replaced by another.
LEMMA ThenOrder ==
  ASSUME CallsInOrder, ui # <<>>, Head(ui) \notin Pauses,
         NEW call \in PlainCalls \ {"pick"},
         ui' = <<call>> \o Tail(ui), EmuPauseStack' \in Nat
  PROVE  CallsInOrder' /\ ~Calls("pausing")' /\ ~Calls("awaitPause")'
<1>1. /\ Tail(ui) \in Seq(CallNames) /\ Len(Tail(ui)) = Len(ui) - 1 /\ Len(ui) \in Nat /\ Len(ui) > 0
      /\ Head(ui) = ui[1]
      /\ \A i \in 1 .. Len(ui) - 1 : Tail(ui)[i] = ui[i + 1]
  BY HeadTailProperties DEF CallsInOrder
<1>2. /\ ui' \in Seq(CallNames) /\ Len(ui') = Len(ui) /\ ui'[1] = call
      /\ \A i \in 2 .. Len(ui) : ui'[i] = ui[i]
  BY <1>1, CallFacts
<1>3. \A i \in 1 .. Len(ui') : ui'[i] \notin {"pausing", "awaitPause", "work"}
  <2> SUFFICES ASSUME NEW i \in 2 .. Len(ui) PROVE ui[i] \notin {"pausing", "awaitPause", "work"}
    BY <1>1, <1>2, CallFacts
  <2> QED BY <1>1 DEF CallsInOrder, Pauses
<1>4. Head(ui') = ui'[1] /\ 1 \in 1 .. Len(ui')
  BY <1>1, <1>2
<1>5. PickLast(ui')
  <2> SUFFICES ASSUME NEW i \in 1 .. Len(ui'), NEW j \in 1 .. Len(ui'), i < j, ui'[i] = "pick"
               PROVE  ui'[j] \notin Nests
    BY DEF PickLast
  <2>1. i # 1
    BY <1>2
  <2>2. i \in 2 .. Len(ui) /\ j \in 2 .. Len(ui)
    BY <1>1, <1>2, <2>1
  <2> QED BY <1>2, <2>2 DEF CallsInOrder, PickLast
<1> QED BY <1>1, <1>2, <1>3, <1>4, <1>5 DEF CallsInOrder, Calls

\* A pause that is not nested begins.
LEMMA PauseOrder ==
  ASSUME CallsInOrder, Calls("pause"), ui' = <<"pausing", "awaitPause">> \o Tail(ui),
         EmuPauseStack' \in Nat, EmuPauseStack' > 0
  PROVE  CallsInOrder' /\ Calls("pausing")' /\ ~Calls("awaitPause")'
<1>1. /\ Tail(ui) \in Seq(CallNames) /\ Len(Tail(ui)) = Len(ui) - 1 /\ Len(ui) \in Nat /\ Len(ui) > 0
      /\ "pause" = ui[1]
      /\ \A i \in 1 .. Len(ui) - 1 : Tail(ui)[i] = ui[i + 1]
  BY HeadTailProperties DEF CallsInOrder, Calls
<1>2. /\ ui' \in Seq(CallNames) /\ Len(ui') = Len(ui) + 1 /\ ui'[1] = "pausing" /\ ui'[2] = "awaitPause"
      /\ \A i \in 3 .. Len(ui') : ui'[i] = ui[i - 1]
  <2> DEFINE two == <<"pausing", "awaitPause">>
  <2>0. "pausing" \in CallNames /\ "awaitPause" \in CallNames
    BY DEF CallNames
  <2>1. two \in Seq(CallNames) /\ Len(two) = 2 /\ two[1] = "pausing" /\ two[2] = "awaitPause"
    BY <2>0
  <2>2. ui' = two \o Tail(ui)
    OBVIOUS
  <2> HIDE DEF two
  <2>3. /\ ui' \in Seq(CallNames) /\ Len(ui') = Len(ui) + 1
        /\ \A i \in 1 .. Len(ui') : ui'[i] = IF i <= 2 THEN two[i] ELSE Tail(ui)[i - 2]
    BY <1>1, <2>1, <2>2, ConcatProperties
  <2>4. ui'[1] = "pausing" /\ ui'[2] = "awaitPause"
    BY <1>1, <2>1, <2>3
  <2>5. \A i \in 3 .. Len(ui') : ui'[i] = ui[i - 1]
    <3> SUFFICES ASSUME NEW i \in 3 .. Len(ui') PROVE ui'[i] = ui[i - 1]
      OBVIOUS
    <3>1. ui'[i] = Tail(ui)[i - 2] /\ i - 2 \in 1 .. Len(ui) - 1
      BY <1>1, <2>3
    <3> QED BY <1>1, <3>1
  <2> QED BY <2>3, <2>4, <2>5
<1>3. \A i \in 3 .. Len(ui') :
        /\ ui'[i] # "pausing" /\ ui'[i] # "awaitPause"
        /\ ui'[i] = "work" => \A j \in 1 .. i - 1 : ui'[j] \in Pauses
  <2> SUFFICES ASSUME NEW i \in 3 .. Len(ui')
               PROVE  /\ ui'[i] # "pausing" /\ ui'[i] # "awaitPause"
                      /\ ui'[i] = "work" => \A j \in 1 .. i - 1 : ui'[j] \in Pauses
    OBVIOUS
  <2>1. i - 1 \in 2 .. Len(ui) /\ ui'[i] = ui[i - 1]
    BY <1>1, <1>2
  <2>2. ui'[i] # "pausing" /\ ui'[i] # "awaitPause"
    BY <1>1, <2>1 DEF CallsInOrder
  <2>3. ASSUME ui'[i] = "work", NEW j \in 1 .. i - 1 PROVE ui'[j] \in Pauses
    <3>1. \A k \in 1 .. i - 2 : ui[k] \in Pauses
      BY <2>1, <2>3, <1>1 DEF CallsInOrder
    <3>2. CASE j \in {1, 2}
      BY <1>2, <3>2 DEF Pauses
    <3>3. CASE j > 2
      <4>1. j \in 3 .. Len(ui') /\ j - 1 \in 1 .. i - 2
        BY <1>1, <1>2, <3>3
      <4> QED BY <4>1, <1>2, <3>1
    <3> QED BY <3>2, <3>3
  <2> QED BY <2>2, <2>3
<1>4. Head(ui') = ui'[1] /\ ui' # <<>>
  BY <1>1, <1>2
<1>6. PickLast(ui')
  <2> SUFFICES ASSUME NEW i \in 1 .. Len(ui'), NEW j \in 1 .. Len(ui'), i < j, ui'[i] = "pick"
               PROVE  ui'[j] \notin Nests
    BY DEF PickLast
  <2>1. i # 1 /\ i # 2
    BY <1>2
  <2>2. i \in 3 .. Len(ui') /\ j \in 3 .. Len(ui')
    BY <1>1, <1>2, <2>1
  <2>3. ui[i - 1] = "pick" /\ ui'[j] = ui[j - 1] /\ i - 1 < j - 1
    BY <1>2, <2>2
  <2>4. i - 1 \in 1 .. Len(ui) /\ j - 1 \in 1 .. Len(ui)
    BY <1>1, <1>2, <2>2
  <2> QED BY <2>3, <2>4 DEF CallsInOrder, PickLast
<1>5. CallsInOrder'
  <2> SUFFICES ASSUME NEW i \in 1 .. Len(ui')
               PROVE  /\ ui'[i] = "pausing" => i = 1 /\ Len(ui') > 1 /\ ui'[2] = "awaitPause"
                      /\ ui'[i] = "awaitPause" => i = 1 \/ (i = 2 /\ ui'[1] = "pausing")
                      /\ ui'[i] = "work" => \A j \in 1 .. i - 1 : ui'[j] \in Pauses
    BY <1>2, <1>6 DEF CallsInOrder
  <2> QED BY <1>1, <1>2, <1>3
<1> QED BY <1>2, <1>4, <1>5 DEF Calls

\* One and two calls before others.
LEMMA OneBefore ==
  ASSUME NEW a \in CallNames, NEW t \in Seq(CallNames)
  PROVE  /\ <<a>> \o t \in Seq(CallNames) /\ Len(<<a>> \o t) = Len(t) + 1 /\ (<<a>> \o t)[1] = a
         /\ \A i \in 1 .. Len(t) : (<<a>> \o t)[i + 1] = t[i]
<1> DEFINE s == <<a>>
<1>1. s \in Seq(CallNames) /\ Len(s) = 1 /\ s[1] = a
  OBVIOUS
<1> HIDE DEF s
<1>2. /\ s \o t \in Seq(CallNames) /\ Len(s \o t) = Len(t) + 1
      /\ \A i \in 1 .. Len(t) + 1 : (s \o t)[i] = IF i <= 1 THEN s[i] ELSE t[i - 1]
  <2>1. /\ s \o t \in Seq(CallNames) /\ Len(s \o t) = Len(s) + Len(t)
        /\ \A i \in 1 .. Len(s) + Len(t) : (s \o t)[i] = IF i <= Len(s) THEN s[i] ELSE t[i - Len(s)]
    BY <1>1, ConcatProperties
  <2> QED BY <1>1, <2>1
<1>3. (s \o t)[1] = a /\ \A i \in 1 .. Len(t) : (s \o t)[i + 1] = t[i]
  <2>1. \A i \in 1 .. Len(t) : i + 1 \in 1 .. Len(t) + 1 /\ ~(i + 1 <= 1) /\ (i + 1) - 1 = i
    OBVIOUS
  <2> QED BY <1>1, <1>2, <2>1
<1> QED BY <1>2, <1>3 DEF s

LEMMA TwoBefore ==
  ASSUME NEW a \in CallNames, NEW b \in CallNames, NEW t \in Seq(CallNames)
  PROVE  /\ <<a, b>> \o t \in Seq(CallNames) /\ Len(<<a, b>> \o t) = Len(t) + 2
         /\ (<<a, b>> \o t)[1] = a /\ (<<a, b>> \o t)[2] = b
         /\ \A i \in 1 .. Len(t) : (<<a, b>> \o t)[i + 2] = t[i]
<1> DEFINE s == <<a, b>>
<1>1. s \in Seq(CallNames) /\ Len(s) = 2 /\ s[1] = a /\ s[2] = b
  OBVIOUS
<1> HIDE DEF s
<1>2. /\ s \o t \in Seq(CallNames) /\ Len(s \o t) = Len(t) + 2
      /\ \A i \in 1 .. Len(t) + 2 : (s \o t)[i] = IF i <= 2 THEN s[i] ELSE t[i - 2]
  <2>1. /\ s \o t \in Seq(CallNames) /\ Len(s \o t) = Len(s) + Len(t)
        /\ \A i \in 1 .. Len(s) + Len(t) : (s \o t)[i] = IF i <= Len(s) THEN s[i] ELSE t[i - Len(s)]
    BY <1>1, ConcatProperties
  <2> QED BY <1>1, <2>1
<1>3. /\ (s \o t)[1] = a /\ (s \o t)[2] = b
      /\ \A i \in 1 .. Len(t) : (s \o t)[i + 2] = t[i]
  <2>1. \A i \in 1 .. Len(t) : i + 2 \in 1 .. Len(t) + 2 /\ ~(i + 2 <= 2) /\ (i + 2) - 2 = i
    OBVIOUS
  <2> QED BY <1>1, <1>2, <2>1
<1> QED BY <1>2, <1>3 DEF s

\* A short slot is the tuple of its calls.
LEMMA ShortSlots ==
  ASSUME NEW s \in Seq(CallNames)
  PROVE  /\ Len(s) = 1 => s = <<s[1]>>
         /\ Len(s) = 2 => s = <<s[1], s[2]>>
         /\ Len(s) = 3 => s = <<s[1], s[2], s[3]>>
         /\ Len(s) = 4 => s = <<s[1], s[2], s[3], s[4]>>
         /\ Len(s) = 5 => s = <<s[1], s[2], s[3], s[4], s[5]>>
<1>1. Len(s) = 1 => s = <<s[1]>>
  OBVIOUS
<1>2. Len(s) = 2 => s = <<s[1], s[2]>>
  OBVIOUS
<1>3. Len(s) = 3 => s = <<s[1], s[2], s[3]>>
  OBVIOUS
<1>4. Len(s) = 4 => s = <<s[1], s[2], s[3], s[4]>>
  OBVIOUS
<1>5. Len(s) = 5 => s = <<s[1], s[2], s[3], s[4], s[5]>>
  OBVIOUS
<1> QED BY <1>1, <1>2, <1>3, <1>4, <1>5

\* The same of the calls put before another's.
LEMMA ShortThen ==
  /\ \A a, b \in CallNames : <<a>> \o <<b>> = <<a, b>>
  /\ \A a, b, c \in CallNames : <<a>> \o <<b, c>> = <<a, b, c>>
  /\ \A a, b, c, d \in CallNames : <<a>> \o <<b, c, d>> = <<a, b, c, d>>
  /\ \A a, b, c, d \in CallNames : <<a, b>> \o <<c, d>> = <<a, b, c, d>>
  /\ \A a, b, c, d, e \in CallNames : <<a, b>> \o <<c, d, e>> = <<a, b, c, d, e>>
<1>1. ASSUME NEW x \in CallNames, NEW t \in Seq(CallNames)
      PROVE  /\ Len(t) = 1 => <<x>> \o t = <<x, t[1]>>
             /\ Len(t) = 2 => <<x>> \o t = <<x, t[1], t[2]>>
             /\ Len(t) = 3 => <<x>> \o t = <<x, t[1], t[2], t[3]>>
  <2> DEFINE s == <<x>> \o t
  <2>1. /\ s \in Seq(CallNames) /\ Len(s) = Len(t) + 1 /\ s[1] = x
        /\ \A i \in 1 .. Len(t) : s[i + 1] = t[i]
    BY OneBefore
  <2> HIDE DEF s
  <2>2. Len(t) = 1 => s = <<x, t[1]>>
    BY <2>1, ShortSlots
  <2>3. Len(t) = 2 => s = <<x, t[1], t[2]>>
    BY <2>1, ShortSlots
  <2>4. Len(t) = 3 => s = <<x, t[1], t[2], t[3]>>
    BY <2>1, ShortSlots
  <2> QED BY <2>2, <2>3, <2>4 DEF s
<1>2. ASSUME NEW a \in CallNames, NEW b \in CallNames, NEW t \in Seq(CallNames)
      PROVE  /\ Len(t) = 2 => <<a, b>> \o t = <<a, b, t[1], t[2]>>
             /\ Len(t) = 3 => <<a, b>> \o t = <<a, b, t[1], t[2], t[3]>>
  <2> DEFINE s == <<a, b>> \o t
  <2>1. /\ s \in Seq(CallNames) /\ Len(s) = Len(t) + 2 /\ s[1] = a /\ s[2] = b
        /\ \A i \in 1 .. Len(t) : s[i + 2] = t[i]
    BY TwoBefore
  <2> HIDE DEF s
  <2>2. Len(t) = 2 => s = <<a, b, t[1], t[2]>>
    BY <2>1, ShortSlots
  <2>3. Len(t) = 3 => s = <<a, b, t[1], t[2], t[3]>>
    BY <2>1, ShortSlots
  <2> QED BY <2>2, <2>3 DEF s
<1>3. ASSUME NEW a \in CallNames, NEW b \in CallNames
      PROVE  <<a>> \o <<b>> = <<a, b>>
  <2> DEFINE t == <<b>>
  <2>1. t \in Seq(CallNames) /\ Len(t) = 1 /\ t[1] = b
    OBVIOUS
  <2> HIDE DEF t
  <2>2. <<a>> \o t = <<a, b>>
    BY <1>1, <2>1
  <2> QED BY <2>2 DEF t
<1>4. ASSUME NEW a \in CallNames, NEW b \in CallNames, NEW c \in CallNames
      PROVE  <<a>> \o <<b, c>> = <<a, b, c>>
  <2> DEFINE t == <<b, c>>
  <2>1. t \in Seq(CallNames) /\ Len(t) = 2 /\ t[1] = b /\ t[2] = c
    OBVIOUS
  <2> HIDE DEF t
  <2>2. <<a>> \o t = <<a, b, c>>
    BY <1>1, <2>1
  <2> QED BY <2>2 DEF t
<1>5. ASSUME NEW a \in CallNames, NEW b \in CallNames, NEW c \in CallNames, NEW d \in CallNames
      PROVE  <<a>> \o <<b, c, d>> = <<a, b, c, d>>
  <2> DEFINE t == <<b, c, d>>
  <2>1. t \in Seq(CallNames) /\ Len(t) = 3 /\ t[1] = b /\ t[2] = c /\ t[3] = d
    OBVIOUS
  <2> HIDE DEF t
  <2>2. <<a>> \o t = <<a, b, c, d>>
    BY <1>1, <2>1
  <2> QED BY <2>2 DEF t
<1>6. ASSUME NEW a \in CallNames, NEW b \in CallNames, NEW c \in CallNames, NEW d \in CallNames
      PROVE  <<a, b>> \o <<c, d>> = <<a, b, c, d>>
  <2> DEFINE t == <<c, d>>
  <2>1. t \in Seq(CallNames) /\ Len(t) = 2 /\ t[1] = c /\ t[2] = d
    OBVIOUS
  <2> HIDE DEF t
  <2>2. <<a, b>> \o t = <<a, b, c, d>>
    BY <1>2, <2>1
  <2> QED BY <2>2 DEF t
<1>7. ASSUME NEW a \in CallNames, NEW b \in CallNames, NEW c \in CallNames, NEW d \in CallNames, NEW e \in CallNames
      PROVE  <<a, b>> \o <<c, d, e>> = <<a, b, c, d, e>>
  <2> DEFINE t == <<c, d, e>>
  <2>1. t \in Seq(CallNames) /\ Len(t) = 3 /\ t[1] = c /\ t[2] = d /\ t[3] = e
    OBVIOUS
  <2> HIDE DEF t
  <2>2. <<a, b>> \o t = <<a, b, c, d, e>>
    BY <1>2, <2>1
  <2> QED BY <2>2 DEF t
<1> QED BY <1>3, <1>4, <1>5, <1>6, <1>7

-----------------------------------------------------------------------------
(* Slots *)

\* The calls of events, of the slots that are not about contexts, and of VideoSettings.
EventCalls == {<<>>, <<"pause">>, <<"unpause">>, <<"step">>, <<"pause", "step">>,
               <<"unpause", "step">>, <<"pause", "work", "run">>}
AskingCalls == {<<"pause", "pick", "unpause">>, <<"pause", "pick", "load", "unpause">>,
                <<"pause", "pick", "load", "run">>,
                <<"pause", "pick", "load", "pick", "unpause">>}
OtherCalls == {<<"pause", "work", "unpause">>, <<"pause", "stop">>}
CloseCalls == {<<"exit">>, <<"pause", "deinit", "exit">>}
VideoCalls == {<<"pause", "deinit", "panel", "unpause">>, <<"pause", "panel", "unpause">>}
SlotCalls == EventCalls \cup AskingCalls \cup OtherCalls \cup CloseCalls \cup VideoCalls

\* What the calls of a slot have in common: it is none of the steps of emuPause,
\* works at once only in a pause, nests at most twice and at first.
NestsFirst(s) == \A i \in 1 .. Len(s) : s[i] \in Nests => i \in {1, 2}
WorksInPause(s) == \A i \in 1 .. Len(s) :
                     /\ s[i] # "pausing" /\ s[i] # "awaitPause"
                     /\ s[i] = "work" => i = 2 /\ s[1] = "pause"
GoodSlot(s) == s \in Seq(CallNames) /\ NestsFirst(s) /\ PickLast(s) /\ WorksInPause(s)

LEMMA SlotItems ==
  /\ <<>> \in Seq(CallNames) /\ Len(<<>>) = 0
  /\ \A a \in CallNames : <<a>> \in Seq(CallNames) /\ Len(<<a>>) = 1 /\ <<a>>[1] = a
  /\ \A a, b \in CallNames :
       <<a, b>> \in Seq(CallNames) /\ Len(<<a, b>>) = 2 /\ <<a, b>>[1] = a /\ <<a, b>>[2] = b
  /\ \A a, b, c \in CallNames :
       /\ <<a, b, c>> \in Seq(CallNames) /\ Len(<<a, b, c>>) = 3
       /\ <<a, b, c>>[1] = a /\ <<a, b, c>>[2] = b /\ <<a, b, c>>[3] = c
  /\ \A a, b, c, d \in CallNames :
       /\ <<a, b, c, d>> \in Seq(CallNames) /\ Len(<<a, b, c, d>>) = 4
       /\ <<a, b, c, d>>[1] = a /\ <<a, b, c, d>>[2] = b
       /\ <<a, b, c, d>>[3] = c /\ <<a, b, c, d>>[4] = d
  /\ \A a, b, c, d, e \in CallNames :
       /\ <<a, b, c, d, e>> \in Seq(CallNames) /\ Len(<<a, b, c, d, e>>) = 5
       /\ <<a, b, c, d, e>>[1] = a /\ <<a, b, c, d, e>>[2] = b /\ <<a, b, c, d, e>>[3] = c
       /\ <<a, b, c, d, e>>[4] = d /\ <<a, b, c, d, e>>[5] = e
<1>1. <<>> \in Seq(CallNames) /\ Len(<<>>) = 0
  OBVIOUS
<1>2. \A a \in CallNames : <<a>> \in Seq(CallNames) /\ Len(<<a>>) = 1 /\ <<a>>[1] = a
  OBVIOUS
<1>3. \A a, b \in CallNames :
        <<a, b>> \in Seq(CallNames) /\ Len(<<a, b>>) = 2 /\ <<a, b>>[1] = a /\ <<a, b>>[2] = b
  OBVIOUS
<1>4. \A a, b, c \in CallNames :
        /\ <<a, b, c>> \in Seq(CallNames) /\ Len(<<a, b, c>>) = 3
        /\ <<a, b, c>>[1] = a /\ <<a, b, c>>[2] = b /\ <<a, b, c>>[3] = c
  OBVIOUS
<1>5. \A a, b, c, d \in CallNames :
        /\ <<a, b, c, d>> \in Seq(CallNames) /\ Len(<<a, b, c, d>>) = 4
        /\ <<a, b, c, d>>[1] = a /\ <<a, b, c, d>>[2] = b
        /\ <<a, b, c, d>>[3] = c /\ <<a, b, c, d>>[4] = d
  OBVIOUS
<1>6. \A a, b, c, d, e \in CallNames :
        /\ <<a, b, c, d, e>> \in Seq(CallNames) /\ Len(<<a, b, c, d, e>>) = 5
        /\ <<a, b, c, d, e>>[1] = a /\ <<a, b, c, d, e>>[2] = b /\ <<a, b, c, d, e>>[3] = c
        /\ <<a, b, c, d, e>>[4] = d /\ <<a, b, c, d, e>>[5] = e
  OBVIOUS
<1> QED BY <1>1, <1>2, <1>3, <1>4, <1>5, <1>6

\* Slots of each length: no more than the first two calls nest, and none after the user
\* is asked.
LEMMA SlotShapes ==
  /\ GoodSlot(<<>>)
  /\ \A a \in PlainCalls : GoodSlot(<<a>>)
  /\ \A a \in PlainCalls \ {"pick"}, b \in PlainCalls : GoodSlot(<<a, b>>)
  /\ \A b \in PlainCalls \cup {"work"}, c \in PlainCalls \ Nests : GoodSlot(<<"pause", b, c>>)
  /\ \A b \in PlainCalls, c, d \in PlainCalls \ Nests : GoodSlot(<<"pause", b, c, d>>)
  /\ \A b \in PlainCalls, c, d, e \in PlainCalls \ Nests : GoodSlot(<<"pause", b, c, d, e>>)
<1> USE DEF GoodSlot, NestsFirst, PickLast, WorksInPause
<1>0. PlainCalls \subseteq CallNames /\ "work" \in CallNames /\ "pause" \in PlainCalls
  BY DEF CallNames, PlainCalls
<1>1. GoodSlot(<<>>)
  BY SlotItems
<1>2. ASSUME NEW a \in PlainCalls PROVE GoodSlot(<<a>>)
  <2> DEFINE s == <<a>>
  <2>1. s \in Seq(CallNames) /\ Len(s) = 1 /\ s[1] = a
    BY <1>0, SlotItems
  <2> HIDE DEF s
  <2>2. GoodSlot(s)
    BY <2>1, CallFacts
  <2> QED BY <2>2 DEF s
<1>3. ASSUME NEW a \in PlainCalls \ {"pick"}, NEW b \in PlainCalls PROVE GoodSlot(<<a, b>>)
  <2> DEFINE s == <<a, b>>
  <2>1. s \in Seq(CallNames) /\ Len(s) = 2 /\ s[1] = a /\ s[2] = b
    BY <1>0, SlotItems
  <2> HIDE DEF s
  <2>2. GoodSlot(s)
    BY <2>1, CallFacts
  <2> QED BY <2>2 DEF s
<1>4. ASSUME NEW b \in PlainCalls \cup {"work"}, NEW c \in PlainCalls \ Nests
      PROVE  GoodSlot(<<"pause", b, c>>)
  <2> DEFINE s == <<"pause", b, c>>
  <2>1. s \in Seq(CallNames) /\ Len(s) = 3 /\ s[1] = "pause" /\ s[2] = b /\ s[3] = c
    BY <1>0, SlotItems
  <2> HIDE DEF s
  <2>2. GoodSlot(s)
    BY <1>0, <2>1, CallFacts
  <2> QED BY <2>2 DEF s
<1>5. ASSUME NEW b \in PlainCalls, NEW c \in PlainCalls \ Nests, NEW d \in PlainCalls \ Nests
      PROVE  GoodSlot(<<"pause", b, c, d>>)
  <2> DEFINE s == <<"pause", b, c, d>>
  <2>1. s \in Seq(CallNames) /\ Len(s) = 4 /\ s[1] = "pause" /\ s[2] = b /\ s[3] = c /\ s[4] = d
    BY <1>0, SlotItems
  <2> HIDE DEF s
  <2>2. GoodSlot(s)
    BY <1>0, <2>1, CallFacts
  <2> QED BY <2>2 DEF s
<1>6. ASSUME NEW b \in PlainCalls, NEW c \in PlainCalls \ Nests, NEW d \in PlainCalls \ Nests,
             NEW e \in PlainCalls \ Nests
      PROVE  GoodSlot(<<"pause", b, c, d, e>>)
  <2> DEFINE s == <<"pause", b, c, d, e>>
  <2>1. /\ s \in Seq(CallNames) /\ Len(s) = 5
        /\ s[1] = "pause" /\ s[2] = b /\ s[3] = c /\ s[4] = d /\ s[5] = e
    BY <1>0, SlotItems
  <2> HIDE DEF s
  <2>2. GoodSlot(s)
    BY <1>0, <2>1, CallFacts
  <2> QED BY <2>2 DEF s
<1> QED BY <1>1, <1>2, <1>3, <1>4, <1>5, <1>6

LEMMA SlotsAreGood == \A s \in SlotCalls : GoodSlot(s)
<1> DEFINE plain == PlainCalls
           rest == PlainCalls \ Nests
<1>1. /\ {"pause", "unpause", "step", "stop", "run", "exit", "pick", "load", "deinit", "panel"}
           \subseteq plain
      /\ {"unpause", "step", "run", "exit", "pick", "load", "deinit", "panel"} \subseteq rest
  BY DEF PlainCalls, Nests
<1> HIDE DEF plain, rest
<1>2. /\ \A a \in plain : GoodSlot(<<a>>)
      /\ \A a, b \in plain : a # "pick" => GoodSlot(<<a, b>>)
      /\ \A b \in plain \cup {"work"}, c \in rest : GoodSlot(<<"pause", b, c>>)
      /\ \A b \in plain, c, d \in rest : GoodSlot(<<"pause", b, c, d>>)
      /\ \A b \in plain, c, d, e \in rest : GoodSlot(<<"pause", b, c, d, e>>)
      /\ GoodSlot(<<>>)
  BY SlotShapes DEF plain, rest
<1>3. \A s \in EventCalls : GoodSlot(s)
  BY <1>1, <1>2 DEF EventCalls
<1>4. \A s \in AskingCalls : GoodSlot(s)
  BY <1>1, <1>2 DEF AskingCalls
<1>5. \A s \in OtherCalls \cup CloseCalls \cup VideoCalls : GoodSlot(s)
  BY <1>1, <1>2 DEF OtherCalls, CloseCalls, VideoCalls
<1> QED BY <1>3, <1>4, <1>5 DEF SlotCalls

\* A slot begins.
LEMMA SlotOrder ==
  ASSUME NEW s, GoodSlot(s), ui' = s, EmuPauseStack' \in Nat
  PROVE  CallsInOrder' /\ ~Calls("pausing")' /\ ~Calls("awaitPause")'
<1>1. /\ s \in Seq(CallNames) /\ PickLast(s)
      /\ \A i \in 1 .. Len(s) : /\ s[i] # "pausing" /\ s[i] # "awaitPause"
                                /\ s[i] = "work" => i = 2 /\ s[1] = "pause"
  BY DEF GoodSlot, WorksInPause
<1>2. \A i \in 1 .. Len(s) : s[i] = "work" => s[1] = "pause" /\ \A j \in 1 .. i - 1 : s[j] \in Pauses
  <2> SUFFICES ASSUME NEW i \in 1 .. Len(s), s[i] = "work", NEW j \in 1 .. i - 1
               PROVE  s[1] = "pause" /\ s[j] \in Pauses
    BY <1>1
  <2>1. i = 2 /\ s[1] = "pause"
    BY <1>1
  <2>2. j = 1
    BY <2>1
  <2> QED BY <2>1, <2>2 DEF Pauses
<1>3. CallsInOrder'
  BY <1>1, <1>2 DEF CallsInOrder
<1>4. s # <<>> => Head(s) = s[1] /\ 1 \in 1 .. Len(s)
  BY <1>1, HeadTailProperties
<1> QED BY <1>1, <1>3, <1>4 DEF Calls

\* While the user is asked, the calls still to come are none of emuPause and work at once
\* no more.
LEMMA PickPlain ==
  ASSUME CallsInOrder, Calls("pick")
  PROVE  /\ ui \in Seq(CallNames) /\ Len(ui) \in Nat /\ Len(ui) > 0 /\ ui[1] = "pick"
         /\ \A i \in 1 .. Len(ui) : ui[i] \notin {"pausing", "awaitPause", "work"}
<1>1. ui \in Seq(CallNames) /\ Len(ui) \in Nat /\ Len(ui) > 0 /\ ui[1] = "pick"
  BY HeadTailProperties DEF CallsInOrder, Calls
<1>2. ASSUME NEW i \in 1 .. Len(ui) PROVE ui[i] \notin {"pausing", "awaitPause", "work"}
  <2>1. ui[i] # "pausing" /\ ui[i] # "awaitPause"
    BY <1>1 DEF CallsInOrder
  <2>2. ASSUME ui[i] = "work" PROVE FALSE
    <3>1. i # 1
      BY <1>1, <2>2
    <3>2. 1 \in 1 .. i - 1
      BY <3>1
    <3>3. ui[1] \in Pauses
      BY <2>2, <3>2 DEF CallsInOrder
    <3> QED BY <1>1, <3>3 DEF Pauses
  <2> QED BY <2>1, <2>2
<1> QED BY <1>1, <1>2

\* Which calls events make: they nest once, ask nothing and leave contexts alone.
LEMMA EventItems ==
  ASSUME NEW s \in EventCalls, NEW i \in 1 .. Len(s)
  PROVE  s[i] \notin {"pick", "deinit", "init", "awaitContext", "panel"}
<1>1. {"pause", "unpause", "step", "run", "work"} \subseteq CallNames
  BY DEF CallNames, PlainCalls
<1>2. s \in {<<"pause">>, <<"unpause">>, <<"step">>} => Len(s) = 1 /\ s[1] \in {"pause", "unpause", "step"}
  BY <1>1, SlotItems
<1>3. s \in {<<"pause", "step">>, <<"unpause", "step">>}
        => Len(s) = 2 /\ s[1] \in {"pause", "unpause"} /\ s[2] = "step"
  BY <1>1, SlotItems
<1>4. s = <<"pause", "work", "run">> => Len(s) = 3 /\ s[1] = "pause" /\ s[2] = "work" /\ s[3] = "run"
  BY <1>1, SlotItems
<1>5. s # <<>>
  BY SlotItems
<1> QED BY <1>2, <1>3, <1>4, <1>5 DEF EventCalls

\* An event runs while the user is asked.
LEMMA EventOrder ==
  ASSUME CallsInOrder, Calls("pick"), NEW s \in EventCalls, ui' = s \o ui
  PROVE  GoodSlot(ui')
<1>1. /\ ui \in Seq(CallNames) /\ Len(ui) \in Nat /\ Len(ui) > 0 /\ ui[1] = "pick"
      /\ \A i \in 1 .. Len(ui) : ui[i] \notin {"pausing", "awaitPause", "work"}
  BY PickPlain
<1>2. \A i \in 1 .. Len(ui) : ui[i] \notin Nests
  BY <1>1 DEF CallsInOrder, PickLast, Nests
<1>3. GoodSlot(s)
  BY SlotsAreGood DEF SlotCalls
<1>4. \A i \in 1 .. Len(s) : s[i] # "pick"
  BY EventItems
<1>5. s \in Seq(CallNames) /\ Len(s) \in Nat
  BY <1>3 DEF GoodSlot
<1> HIDE DEF GoodSlot
<1>6. /\ ui' \in Seq(CallNames) /\ Len(ui') = Len(s) + Len(ui)
      /\ \A i \in 1 .. Len(ui') : ui'[i] = IF i <= Len(s) THEN s[i] ELSE ui[i - Len(s)]
  BY <1>1, <1>5, ConcatProperties
<1>7. \A i \in 1 .. Len(ui') : \/ i \in 1 .. Len(s) /\ ui'[i] = s[i]
                               \/ i - Len(s) \in 1 .. Len(ui) /\ ui'[i] = ui[i - Len(s)] /\ i > Len(s)
  BY <1>1, <1>5, <1>6
<1>8. NestsFirst(ui')
  BY <1>2, <1>3, <1>7 DEF GoodSlot, NestsFirst
<1>9. PickLast(ui')
  <2> SUFFICES ASSUME NEW i \in 1 .. Len(ui'), NEW j \in 1 .. Len(ui'), i < j, ui'[i] = "pick"
               PROVE  ui'[j] \notin Nests
    BY DEF PickLast
  <2>1. i > Len(s)
    BY <1>4, <1>7
  <2>2. ~(j \in 1 .. Len(s))
    BY <1>5, <2>1
  <2> QED BY <1>2, <1>7, <2>2
<1>10. WorksInPause(ui')
  <2> SUFFICES ASSUME NEW i \in 1 .. Len(ui')
               PROVE  /\ ui'[i] # "pausing" /\ ui'[i] # "awaitPause"
                      /\ ui'[i] = "work" => i = 2 /\ ui'[1] = "pause"
    BY DEF WorksInPause
  <2>1. CASE i \in 1 .. Len(s) /\ ui'[i] = s[i]
    <3>1. 1 \in 1 .. Len(s) /\ 1 \in 1 .. Len(ui')
      BY <1>1, <1>5, <1>6, <2>1
    <3>2. ui'[1] = s[1]
      BY <1>5, <1>6, <3>1
    <3>3. s[i] # "pausing" /\ s[i] # "awaitPause" /\ (s[i] = "work" => i = 2 /\ s[1] = "pause")
      BY <1>3, <2>1 DEF GoodSlot, WorksInPause
    <3> QED BY <2>1, <3>2, <3>3
  <2>2. CASE i - Len(s) \in 1 .. Len(ui) /\ ui'[i] = ui[i - Len(s)]
    BY <1>1, <2>2
  <2> QED BY <1>7, <2>1, <2>2
<1> QED BY <1>6, <1>8, <1>9, <1>10 DEF GoodSlot

\* What the user, the system and the queued signals can do.
LEMMA UserCalls ==
  ASSUME User
  PROVE  /\ UNCHANGED <<epc, screenGL, hasOGL, EmuStatus, EmuRunning, ContextRequest, pauses>>
         /\ \/ Calls("pick") /\ ui' = Tail(ui)
            \/ Calls("pick") /\ EmuPauseStack < MaxStack /\ \E s \in EventCalls : ui' = s \o ui
            \/ /\ ui = <<>> /\ EmuPauseStack < MaxStack
               /\ \/ ui' \in EventCalls \cup AskingCalls \cup OtherCalls \cup CloseCalls
                  \/ ui' = <<"pause", "deinit", "panel", "unpause">> /\ hasOGL
                  \/ ui' = <<"pause", "panel", "unpause">> /\ ~hasOGL
<1> DEFINE Raised(s) ==
             /\ EmuPauseStack < MaxStack
             /\ \/ ui = <<>> /\ ui' = s
                \/ Calls("pick") /\ ui' = s \o ui
<1>1. UNCHANGED <<epc, screenGL, hasOGL, EmuStatus, EmuRunning, ContextRequest, pauses>>
  BY DEF User, UseConsole, UseFile, Boot, Pick, Reset, OpenDialog, CloseDialog, TogglePause, OnStop,
         OnEmuStop, FrameStep, LoseFocus, GainFocus, VideoSettings, Close, Trigger, others, emuvars,
         shared, window
<1>2. ASSUME NEW s, Event(s) PROVE Raised(s)
  BY <1>2 DEF Event, Slot
<1>3. {"pause", "unpause", "step", "deinit", "panel"} \subseteq CallNames
  BY DEF CallNames, PlainCalls
<1>4. CASE Pick
  BY <1>1, <1>4 DEF Pick, Return
<1>5. CASE Reset \/ OnEmuStop \/ LoseFocus \/ GainFocus
  <2>1. \E s \in EventCalls : Raised(s)
    BY <1>2, <1>5 DEF Reset, OnEmuStop, LoseFocus, GainFocus, EventCalls
  <2> QED BY <1>1, <2>1
<1>6. CASE TogglePause \/ FrameStep
  <2>1. \/ Event(<<"step">>)
        \/ \E s \in {<<>>, <<"pause">>, <<"unpause">>} : Event(s \o <<>>) \/ Event(s \o <<"step">>)
    BY <1>6 DEF TogglePause, FrameStep, Trigger
  <2>2. /\ <<>> \o <<>> = <<>> /\ <<"pause">> \o <<>> = <<"pause">> /\ <<"unpause">> \o <<>> = <<"unpause">>
        /\ <<>> \o <<"step">> = <<"step">>
    BY <1>3, SlotItems, ConcatEmptySeq
  <2>3. <<"pause">> \o <<"step">> = <<"pause", "step">> /\ <<"unpause">> \o <<"step">> = <<"unpause", "step">>
    BY <1>3, ShortThen
  <2>4. \E s \in EventCalls : Event(s)
    BY <2>1, <2>2, <2>3 DEF EventCalls
  <2>5. \E s \in EventCalls : Raised(s)
    BY <1>2, <2>4
  <2> QED BY <1>1, <2>5
<1>7. CASE UseConsole \/ UseFile \/ Boot \/ OnStop \/ Close \/ OpenDialog \/ CloseDialog
  <2>1. \E s \in EventCalls \cup AskingCalls \cup OtherCalls \cup CloseCalls : Slot(s)
    BY <1>7 DEF UseConsole, UseFile, Boot, OnStop, Close, OpenDialog, CloseDialog, Asking, EventCalls,
                AskingCalls, OtherCalls, CloseCalls
  <2> QED BY <1>1, <2>1 DEF Slot
<1>8. CASE VideoSettings
  <2>1. /\ ui = <<>> /\ EmuPauseStack < MaxStack
        /\ \/ hasOGL /\ ui' = <<"pause">> \o <<"deinit">> \o <<"panel", "unpause">>
           \/ ~hasOGL /\ ui' = <<"pause">> \o <<>> \o <<"panel", "unpause">>
    BY <1>8 DEF VideoSettings, Slot
  <2>2. <<"pause">> \o <<"deinit">> = <<"pause", "deinit">> /\ <<"pause">> \o <<>> = <<"pause">>
    BY <1>3, ShortThen, SlotItems, ConcatEmptySeq
  <2>3. /\ <<"pause", "deinit">> \o <<"panel", "unpause">> = <<"pause", "deinit", "panel", "unpause">>
        /\ <<"pause">> \o <<"panel", "unpause">> = <<"pause", "panel", "unpause">>
    BY <1>3, ShortThen
  <2> QED BY <1>1, <2>1, <2>2, <2>3
<1> QED BY <1>4, <1>5, <1>6, <1>7, <1>8 DEF User

-----------------------------------------------------------------------------
(* The invariant *)

\* How main() begins.
LEMMA FirstSlots ==
  ASSUME EthInit
  PROVE  /\ ui \in Seq(CallNames) /\ Len(ui) \in Nat /\ Len(ui) > 0
         /\ ui # <<>> /\ Head(ui) = "pause" /\ ui[1] = "pause"
         /\ \A i \in 1 .. Len(ui) : i # 1 => ui[i] \in {"pick", "load", "run"}
<1>1. {"pause", "pick", "load", "run"} \subseteq CallNames
  BY DEF CallNames, PlainCalls
<1>2. ASSUME ui = <<"pause">> PROVE ui \in Seq(CallNames) /\ Len(ui) = 1 /\ ui[1] = "pause"
  BY <1>1, <1>2, SlotItems
<1>8. ASSUME ui = <<"pause", "pick">>
      PROVE  ui \in Seq(CallNames) /\ Len(ui) = 2 /\ ui[1] = "pause" /\ ui[2] = "pick"
  BY <1>1, <1>8, SlotItems
<1>3. ASSUME ui = <<"pause", "pick", "load">>
      PROVE  /\ ui \in Seq(CallNames) /\ Len(ui) = 3 /\ ui[1] = "pause" /\ ui[2] = "pick"
             /\ ui[3] = "load"
  BY <1>1, <1>3, SlotItems
<1>4. ASSUME NEW end \in {"pick", "run"}, ui = <<"pause", "pick", "load", end>>
      PROVE  /\ ui \in Seq(CallNames) /\ Len(ui) = 4 /\ ui[1] = "pause" /\ ui[2] = "pick"
             /\ ui[3] = "load" /\ ui[4] = end
  BY <1>1, <1>4, SlotItems
<1>5. \/ ui = <<"pause">> \/ ui = <<"pause", "pick">>
      \/ ui = <<"pause", "pick", "load">>
      \/ \E end \in {"pick", "run"} : ui = <<"pause", "pick", "load", end>>
  BY DEF EthInit
<1>6. /\ ui \in Seq(CallNames) /\ Len(ui) \in Nat /\ Len(ui) > 0 /\ ui[1] = "pause"
      /\ \A i \in 1 .. Len(ui) : i # 1 => ui[i] \in {"pick", "load", "run"}
  BY <1>2, <1>3, <1>4, <1>5, <1>8
<1>7. ui # <<>> /\ Head(ui) = ui[1]
  BY <1>6
<1> QED BY <1>6, <1>7

LEMMA InitPauseInv == EthInit => PauseInv
<1> SUFFICES ASSUME EthInit PROVE PauseInv
  OBVIOUS
<1>1. CallsInOrder
  <2>1. EmuPauseStack \in Nat
    BY DEF EthInit
  <2>2. PickLast(ui)
    BY FirstSlots DEF PickLast, Nests
  <2>3. \A i \in 1 .. Len(ui) : ui[i] \notin {"pausing", "awaitPause", "work"}
    BY FirstSlots
  <2> QED BY <2>1, <2>2, <2>3, FirstSlots DEF CallsInOrder
<1>2. Calls("pause") /\ ~Calls("pausing") /\ ~Calls("awaitPause")
  BY FirstSlots DEF Calls
<1> QED BY <1>1, <1>2 DEF EthInit, PauseInv, StatusTold, RestIsSafe, PauseUnderWay, AtRest

\* The emulator thread makes no calls and counts no pauses.
LEMMA EmuKeeps == PauseInv /\ Emu => PauseInv'
<1> SUFFICES ASSUME PauseInv, Emu PROVE PauseInv'
  OBVIOUS
<1>1. UNCHANGED <<uivars, pauses>>
  BY DEF Emu, Start, Loop, Leave, Input, Check, Claim, ReadStep, WriteStep, Frame, AfterFrame, PausedBranch,
         ReadRequest, ServeRequest, uivars, pauses
<1>2. CallsInOrder'
  BY <1>1 DEF PauseInv, CallsInOrder, uivars, pauses
<1>3. /\ Calls("pausing")' <=> Calls("pausing")
      /\ Calls("awaitPause")' <=> Calls("awaitPause")
  BY <1>1 DEF Calls, uivars
<1> USE DEF PauseInv, StatusTold, RestIsSafe, PauseUnderWay, AtRest, Go, shared, pauses, uivars
<1>4. CASE Start
  BY <1>1, <1>2, <1>3, <1>4 DEF Start
<1>5. CASE Loop
  BY <1>1, <1>2, <1>3, <1>5 DEF Loop, Stopped
<1>6. CASE Check
  BY <1>1, <1>2, <1>3, <1>6 DEF Check
<1>7. CASE Claim
  BY <1>1, <1>2, <1>3, <1>7 DEF Claim
<1>8. CASE ReadStep
  BY <1>1, <1>2, <1>3, <1>8 DEF ReadStep
<1>9. CASE WriteStep
  BY <1>1, <1>2, <1>3, <1>9 DEF WriteStep
<1>10. CASE Frame
  BY <1>1, <1>2, <1>3, <1>10 DEF Frame
<1>11. CASE AfterFrame
  BY <1>1, <1>2, <1>3, <1>11 DEF AfterFrame, Turn
<1>12. CASE PausedBranch
  BY <1>1, <1>2, <1>3, <1>12 DEF PausedBranch, Reported
<1>13. CASE ReadRequest
  BY <1>1, <1>2, <1>3, <1>13 DEF ReadRequest, Turn
<1>14. CASE ServeRequest
  BY <1>1, <1>2, <1>3, <1>14 DEF ServeRequest, Turn
<1>15. CASE Leave \/ Input
  BY <1>1, <1>2, <1>3, <1>15 DEF Leave, Input, Stopped
<1> QED
  BY <1>2, <1>4, <1>5, <1>6, <1>7, <1>8, <1>9, <1>10, <1>11, <1>12, <1>13, <1>14, <1>15 DEF Emu

\* A call or a slot that is none of the steps of emuPause and asks the thread for nothing.
LEMMA QuietStep ==
  ASSUME PauseInv, UNCHANGED <<epc, EmuStatus, EmuRunning, pauses>>,
         ~Calls("pausing"), ~Calls("awaitPause"),
         CallsInOrder', ~Calls("pausing")', ~Calls("awaitPause")'
  PROVE  PauseInv'
BY DEF PauseInv, StatusTold, RestIsSafe, PauseUnderWay, AtRest, pauses

\* What a call that just returns, and changes nothing the thread sees, needs.
LEMMA ReturnQuietly ==
  ASSUME PauseInv, ui # <<>>, Return, Head(ui) \notin Pauses \ {"pause"},
         UNCHANGED <<epc, EmuStatus, EmuRunning, pauses>>,
         Head(ui) = "pause" => EmuPauseStack > 0
  PROVE  PauseInv'
<1>1. EmuPauseStack \in Nat /\ EmuPauseStack' = EmuPauseStack
  BY DEF PauseInv, CallsInOrder, pauses
<1>2. CallsInOrder' /\ ~Calls("pausing")' /\ ~Calls("awaitPause")'
  BY <1>1, ReturnOrder DEF PauseInv, Return, Pauses
<1> QED BY <1>2, QuietStep DEF Calls, Pauses

\* The same of a call that makes another.
LEMMA ThenQuietly ==
  ASSUME PauseInv, ui # <<>>, Head(ui) \notin Pauses, NEW call \in PlainCalls \ {"pick"},
         ui' = <<call>> \o Tail(ui), UNCHANGED <<epc, EmuStatus, EmuRunning, pauses>>
  PROVE  PauseInv'
<1>1. EmuPauseStack' \in Nat
  BY DEF PauseInv, CallsInOrder, pauses
<1>2. CallsInOrder' /\ ~Calls("pausing")' /\ ~Calls("awaitPause")'
  BY <1>1, ThenOrder DEF PauseInv
<1> QED BY <1>2, QuietStep DEF Calls, Pauses

\* emuPause, its wait, and emuUnpause.
LEMMA PauseKeeps == PauseInv /\ Pause => PauseInv'
<1> SUFFICES ASSUME PauseInv, Pause PROVE PauseInv'
  OBVIOUS
<1>1. EmuPauseStack \in Nat /\ EmuPauseStack' = EmuPauseStack + 1 /\ EmuPauseStack' > 0
  BY DEF PauseInv, CallsInOrder, Pause
<1>2. ~Calls("pausing") /\ ~Calls("awaitPause") /\ ui # <<>> /\ Head(ui) = "pause"
  BY DEF Pause, Calls
<1>3. UNCHANGED <<epc, EmuStatus, EmuRunning, unsure>>
  BY DEF Pause, emuvars, shared
<1>4. CASE EmuPauseStack > 0
  <2>1. CallsInOrder' /\ ~Calls("pausing")' /\ ~Calls("awaitPause")'
    BY <1>1, <1>2, <1>4, ReturnOrder DEF PauseInv, Pause, Return, Pauses
  <2> QED BY <1>1, <1>2, <1>3, <1>4, <2>1 DEF PauseInv, StatusTold, RestIsSafe, PauseUnderWay, AtRest
<1>5. CASE ~(EmuPauseStack > 0)
  <2>1. CallsInOrder' /\ Calls("pausing")' /\ ~Calls("awaitPause")'
    BY <1>1, <1>5, PauseOrder DEF PauseInv, Pause, Then
  <2>2. PrevEmuStatus' = EmuRunning
    BY <1>5 DEF Pause
  <2> QED BY <1>3, <2>1, <2>2 DEF PauseInv, StatusTold, RestIsSafe, PauseUnderWay, AtRest
<1> QED BY <1>4, <1>5

LEMMA PausingKeeps == PauseInv /\ Pausing => PauseInv'
<1> SUFFICES ASSUME PauseInv, Pausing PROVE PauseInv'
  OBVIOUS
<1>1. EmuPauseStack \in Nat /\ EmuPauseStack' = EmuPauseStack /\ EmuPauseStack' >= EmuPauseStack
  BY DEF PauseInv, CallsInOrder, Pausing
<1>2. CallsInOrder' /\ ~Calls("pausing")' /\ Calls("awaitPause")'
  BY <1>1, ReturnOrder DEF PauseInv, Pausing, Return, Calls
<1>3. UNCHANGED <<epc, EmuStatus>> /\ EmuRunning' = "Paused"
  BY DEF Pausing, emuvars
<1>4. ~unsure' /\ EmuStatus = "Paused" => ~unsure /\ EmuRunning = "Paused"
  BY DEF Pausing, PauseInv, PauseUnderWay
<1> QED BY <1>2, <1>3, <1>4 DEF PauseInv, StatusTold, RestIsSafe, PauseUnderWay, AtRest

LEMMA AwaitPauseKeeps == PauseInv /\ AwaitPause => PauseInv'
<1> SUFFICES ASSUME PauseInv, AwaitPause PROVE PauseInv'
  OBVIOUS
<1>1. EmuPauseStack \in Nat /\ EmuPauseStack' = EmuPauseStack /\ EmuPauseStack' >= EmuPauseStack
  BY DEF PauseInv, CallsInOrder, AwaitPause, pauses
<1>2. CallsInOrder' /\ ~Calls("pausing")' /\ ~Calls("awaitPause")'
  BY <1>1, ReturnOrder DEF PauseInv, AwaitPause, Return, Calls
<1>3. UNCHANGED <<epc, EmuStatus, EmuRunning, unsure>>
  BY DEF AwaitPause, emuvars, shared, pauses
<1>4. AtRest
  BY DEF AwaitPause, IsPaused, PauseInv, PauseUnderWay, AtRest
<1> QED BY <1>2, <1>3, <1>4 DEF PauseInv, StatusTold, RestIsSafe, PauseUnderWay, AtRest

LEMMA UnpauseKeeps == PauseInv /\ Unpause => PauseInv'
<1> SUFFICES ASSUME PauseInv, Unpause PROVE PauseInv'
  OBVIOUS
<1>1. EmuPauseStack \in Nat /\ EmuPauseStack' \in Nat
  BY DEF PauseInv, CallsInOrder, Unpause, Lowered
<1>2. CallsInOrder' /\ ~Calls("pausing")' /\ ~Calls("awaitPause")'
  BY <1>1, ReturnOrder DEF PauseInv, Unpause, Return, Calls, Pauses
<1>3. UNCHANGED <<epc, EmuStatus, unsure>>
  BY DEF Unpause, emuvars
<1>4. EmuPauseStack' > 0 => EmuPauseStack > 0 /\ EmuRunning' = EmuRunning
  BY <1>1 DEF Unpause, Lowered
<1>5. EmuRunning' = EmuRunning \/ EmuPauseStack > 0
  BY DEF Unpause
<1>6. EmuPauseStack > 0 /\ ~unsure => AtRest
  BY DEF Unpause, Calls, PauseInv, PauseUnderWay
<1> QED BY <1>2, <1>3, <1>4, <1>5, <1>6 DEF PauseInv, StatusTold, RestIsSafe, PauseUnderWay, AtRest

\* The calls that tell the thread to run or to end.
LEMMA CommandKeeps == PauseInv /\ (Run \/ Step \/ EmuStop) => PauseInv'
<1> SUFFICES ASSUME PauseInv PROVE (Run \/ Step \/ EmuStop) => PauseInv'
  OBVIOUS
<1> USE DEF PauseInv, StatusTold, RestIsSafe, PauseUnderWay, AtRest
<1>1. EmuPauseStack \in Nat
  BY DEF CallsInOrder
<1>2. ASSUME Run PROVE PauseInv'
  <2>1. ui # <<>> /\ Head(ui) = "run" /\ ui' = Tail(ui) /\ EmuPauseStack' = 0
    BY <1>2 DEF Run, Calls, Return
  <2>2. CallsInOrder' /\ ~Calls("pausing")' /\ ~Calls("awaitPause")'
    BY <2>1, ReturnOrder DEF Pauses
  <2> QED BY <1>2, <2>1, <2>2 DEF Run, emuvars
<1>3. ASSUME Step PROVE PauseInv'
  <2>1. ui # <<>> /\ Head(ui) = "step" /\ ui' = Tail(ui) /\ EmuPauseStack' = EmuPauseStack
    BY <1>3 DEF Step, Calls, Return
  <2>2. CallsInOrder' /\ ~Calls("pausing")' /\ ~Calls("awaitPause")'
    BY <1>1, <2>1, ReturnOrder DEF Pauses
  <2> QED BY <1>3, <2>1, <2>2 DEF Step, emuvars
<1>4. ASSUME EmuStop PROVE PauseInv'
  <2>1. ui # <<>> /\ Head(ui) \notin Pauses /\ ui' = <<"join">> \o Tail(ui) /\ EmuPauseStack' = 0
    BY <1>4 DEF EmuStop, Calls, Then, Pauses
  <2>2. "join" \in PlainCalls \ {"pick"}
    BY DEF PlainCalls
  <2>3. CallsInOrder' /\ ~Calls("pausing")' /\ ~Calls("awaitPause")'
    BY <2>1, <2>2, ThenOrder
  <2> QED BY <1>4, <2>1, <2>3 DEF EmuStop, emuvars
<1> QED BY <1>2, <1>3, <1>4

LEMMA CallKeeps == PauseInv /\ Call => PauseInv'
<1> SUFFICES ASSUME PauseInv, Call PROVE PauseInv'
  OBVIOUS
<1> USE DEF Calls, emuvars, shared
<1>1. CASE Work
  BY <1>1, ReturnQuietly DEF Work, Pauses
<1>2. CASE AwaitContext
  BY <1>2, ReturnQuietly DEF AwaitContext, Pauses
<1>3. CASE Stop
  <2>1. Head(ui) = "stop" /\ ui # <<>> /\ ui' = <<"pause">> \o Tail(ui)
    BY <1>3 DEF Stop, Then
  <2> QED BY <1>3, <2>1, ThenQuietly DEF Stop, Pauses, PlainCalls
<1>4. ASSUME NEW call \in {"deinit", "init"}, NEW kind, Request(call, kind) PROVE PauseInv'
  <2>1. Head(ui) = call /\ ui # <<>> /\ ui' = <<"awaitContext">> \o Tail(ui)
    BY <1>4 DEF Request, Then
  <2> QED BY <1>4, <2>1, ThenQuietly DEF Request, Pauses, PlainCalls
<1>5. CASE NewPanel
  <2>1. Head(ui) = "panel" /\ ui # <<>>
        /\ (ui' = <<"init">> \o Tail(ui) \/ ui' = <<>> \o Tail(ui))
        /\ UNCHANGED <<epc, EmuStatus, EmuRunning, pauses>>
    BY <1>5 DEF NewPanel, Then
  <2>2. <<>> \o Tail(ui) = Tail(ui)
    <3>1. Tail(ui) \in Seq(CallNames)
      BY <2>1 DEF PauseInv, CallsInOrder
    <3> QED BY <3>1, ConcatEmptySeq
  <2> QED BY <2>1, <2>2, ThenQuietly, ReturnQuietly DEF Return, Pauses, PlainCalls
<1>6. CASE Join
  <2>1. Head(ui) = "join" /\ ui # <<>> /\ ui' = <<"end">> \o Tail(ui)
    BY <1>6 DEF Join, Then
  <2> QED BY <1>6, <2>1, ThenQuietly DEF Join, Pauses, PlainCalls
<1> QED
  BY <1>1, <1>2, <1>3, <1>4, <1>5, <1>6, PauseKeeps, PausingKeeps, AwaitPauseKeeps, UnpauseKeeps,
     CommandKeeps DEF Call

\* A slot begins, or goes on once the user has been asked.
LEMMA UserKeeps == PauseInv /\ User => PauseInv'
<1> SUFFICES ASSUME PauseInv, User PROVE PauseInv'
  OBVIOUS
<1>1. UNCHANGED <<epc, EmuStatus, EmuRunning, pauses>>
  BY UserCalls
<1>2. EmuPauseStack' \in Nat
  BY <1>1 DEF PauseInv, CallsInOrder, pauses
<1>3. CASE Calls("pick") /\ ui' = Tail(ui)
  BY <1>1, <1>3, ReturnQuietly DEF Return, Calls, Pauses
<1>4. ASSUME ui = <<>> \/ Calls("pick"), GoodSlot(ui') PROVE PauseInv'
  <2>1. CallsInOrder' /\ ~Calls("pausing")' /\ ~Calls("awaitPause")'
    <3>1. PICK s : s = ui'
      OBVIOUS
    <3> QED BY <1>2, <1>4, <3>1, SlotOrder
  <2>2. ~Calls("pausing") /\ ~Calls("awaitPause")
    BY <1>4 DEF Calls
  <2> QED BY <1>1, <2>1, <2>2, QuietStep
<1>5. ASSUME Calls("pick"), NEW s \in EventCalls, ui' = s \o ui PROVE PauseInv'
  BY <1>4, <1>5, EventOrder DEF PauseInv
<1>6. CASE ui = <<>> /\ ui' \in SlotCalls
  BY <1>4, <1>6, SlotsAreGood
<1> QED BY <1>3, <1>5, <1>6, UserCalls DEF SlotCalls, VideoCalls

\* EmuRunning and EmuStatus tell both threads enough, wherever each of them is.
LEMMA SpecPauseInv == EthSpec => []PauseInv
<1>1. PauseInv /\ [EthNext]_ethvars => PauseInv'
  <2>1. PauseInv /\ UNCHANGED ethvars => PauseInv'
    BY DEF ethvars, emuvars, uivars, shared, pauses, PauseInv, CallsInOrder, StatusTold, RestIsSafe,
           PauseUnderWay, AtRest, Calls
  <2> QED BY <2>1, EmuKeeps, CallKeeps, UserKeeps DEF EthNext
<1> QED BY InitPauseInv, <1>1, PTL DEF EthSpec

\* A pause that waited for the emulator thread holds until it is undone: emuPause and
\* emuUnpause, the loop of run (EmuThread.cpp), and the slots that call them, those
\* included that run within another while it asks for a file.
THEOREM PausesHold == EthSpec => []NoFrameInPause
<1>1. PauseInv => NoFrameInPause
  <2> SUFFICES ASSUME PauseInv, ~unsure, Holding \/ Calls("work") PROVE epc # "frame"
    BY DEF NoFrameInPause
  <2>1. CASE Holding
    BY <2>1 DEF Holding, PauseInv, PauseUnderWay, StatusTold, AtRest
  <2>2. CASE Calls("work")
    <3>1. ui[1] = "work" /\ 1 \in 1 .. Len(ui)
      BY <2>2 DEF PauseInv, CallsInOrder, Calls
    <3>2. EmuPauseStack > 0
      BY <3>1 DEF PauseInv, CallsInOrder
    <3> QED BY <2>2, <3>2 DEF PauseInv, PauseUnderWay, StatusTold, AtRest, Calls
  <2> QED BY <2>1, <2>2
<1> QED BY <1>1, SpecPauseInv, PTL

-----------------------------------------------------------------------------
(* Contexts *)

\* The calls that are about contexts, and those after which the window is gone.
ContextCalls == {"deinit", "init", "awaitContext", "panel"}
LastCalls == {"exit", "join", "end"}

\* VideoSettings up to its first call about contexts, with an old context and without.
DeinitSlots == {<<"pause", "deinit", "panel", "unpause">>,
                <<"pausing", "awaitPause", "deinit", "panel", "unpause">>,
                <<"awaitPause", "deinit", "panel", "unpause">>,
                <<"deinit", "panel", "unpause">>}
PanelSlots == {<<"pause", "panel", "unpause">>,
               <<"pausing", "awaitPause", "panel", "unpause">>,
               <<"awaitPause", "panel", "unpause">>,
               <<"panel", "unpause">>}

\* Where VideoSettings is; elsewhere the threads agree on who draws, until the
\* window is closed.
Agreed == ContextRequest = "None" /\ (screenGL <=> hasOGL)
Free == \A i \in 1 .. Len(ui) : ui[i] \notin ContextCalls
NoVideo == Agreed /\ Free
BeforeDeinit == Agreed /\ hasOGL /\ ui \in DeinitSlots
BeforePanel == ContextRequest = "None" /\ ~screenGL /\ ui \in PanelSlots
AwaitingDeinit == /\ ui = <<"awaitContext", "panel", "unpause">>
                  /\ ContextRequest = "DeInitGL" \/ (ContextRequest = "None" /\ ~screenGL)
BeforeInit == ui = <<"init", "unpause">> /\ hasOGL /\ ContextRequest = "None"
AwaitingInit == /\ ui = <<"awaitContext", "unpause">> /\ hasOGL
                /\ ContextRequest = "InitGL" \/ (ContextRequest = "None" /\ screenGL)
Closing == ui # <<>> /\ ui[Len(ui)] \in LastCalls
Video == \/ NoVideo \/ BeforeDeinit \/ BeforePanel \/ AwaitingDeinit \/ BeforeInit \/ AwaitingInit
         \/ Closing

\* The first pause waits until the thread has made its console, so that no slot
\* comes before that.
NotStarted == /\ EmuStatus = "Exit" /\ ContextRequest = "None" /\ Free
              /\ \/ Calls("pause") /\ EmuPauseStack = 0
                 \/ Calls("pausing") \/ Calls("awaitPause")

ContextInv == /\ screenGL \in BOOLEAN /\ hasOGL \in BOOLEAN
              /\ epc = "start" => NotStarted
              /\ epc # "start" => Video
              /\ epc = "context!" => ContextRequest # "None"

\* VideoSettings, call by call.
LEMMA SlotSteps ==
  /\ \A s \in DeinitSlots :
       /\ s # <<>> /\ Head(s) \in Pauses \cup {"deinit"}
       /\ Head(s) = "pause" => <<"pausing", "awaitPause">> \o Tail(s) \in DeinitSlots
       /\ Head(s) \in Pauses => Tail(s) \in DeinitSlots
       /\ Head(s) = "deinit" => <<"awaitContext">> \o Tail(s) = <<"awaitContext", "panel", "unpause">>
  /\ \A s \in PanelSlots :
       /\ s # <<>> /\ Head(s) \in Pauses \cup {"panel"}
       /\ Head(s) = "pause" => <<"pausing", "awaitPause">> \o Tail(s) \in PanelSlots
       /\ Head(s) \in Pauses => Tail(s) \in PanelSlots
       /\ Head(s) = "panel" => /\ Tail(s) = <<"unpause">>
                               /\ <<"init">> \o Tail(s) = <<"init", "unpause">>
<1>1. {"pause", "pausing", "awaitPause", "deinit", "panel", "unpause", "init", "awaitContext"}
        \subseteq CallNames
  BY DEF CallNames, PlainCalls
<1>2. /\ \A a, b, c : Head(<<a, b, c>>) = a /\ Tail(<<a, b, c>>) = <<b, c>>
      /\ \A a, b, c, d : Head(<<a, b, c, d>>) = a /\ Tail(<<a, b, c, d>>) = <<b, c, d>>
      /\ \A a, b, c, d, e : Head(<<a, b, c, d, e>>) = a /\ Tail(<<a, b, c, d, e>>) = <<b, c, d, e>>
      /\ \A a, b : Head(<<a, b>>) = a /\ Tail(<<a, b>>) = <<b>>
      /\ \A a, b : <<a, b>> # <<>>
      /\ \A a, b, c : <<a, b, c>> # <<>>
      /\ \A a, b, c, d : <<a, b, c, d>> # <<>>
      /\ \A a, b, c, d, e : <<a, b, c, d, e>> # <<>>
  <2>1. \A a, b, c : Head(<<a, b, c>>) = a /\ Tail(<<a, b, c>>) = <<b, c>> /\ <<a, b, c>> # <<>>
    OBVIOUS
  <2>2. \A a, b, c, d : /\ Head(<<a, b, c, d>>) = a /\ Tail(<<a, b, c, d>>) = <<b, c, d>>
                       /\ <<a, b, c, d>> # <<>>
    OBVIOUS
  <2>3. \A a, b, c, d, e : /\ Head(<<a, b, c, d, e>>) = a
                          /\ Tail(<<a, b, c, d, e>>) = <<b, c, d, e>>
                          /\ <<a, b, c, d, e>> # <<>>
    OBVIOUS
  <2>4. \A a, b : Head(<<a, b>>) = a /\ Tail(<<a, b>>) = <<b>> /\ <<a, b>> # <<>>
    OBVIOUS
  <2> QED BY <2>1, <2>2, <2>3, <2>4
<1>3. <<"pausing", "awaitPause">> \o <<"deinit", "panel", "unpause">>
        = <<"pausing", "awaitPause", "deinit", "panel", "unpause">>
  BY <1>1, ShortThen
<1>4. <<"pausing", "awaitPause">> \o <<"panel", "unpause">>
        = <<"pausing", "awaitPause", "panel", "unpause">>
  BY <1>1, ShortThen
<1>5. /\ <<"awaitContext">> \o <<"panel", "unpause">> = <<"awaitContext", "panel", "unpause">>
      /\ <<"init">> \o <<"unpause">> = <<"init", "unpause">>
  BY <1>1, ShortThen
<1>6. ASSUME NEW s \in DeinitSlots
      PROVE  /\ s # <<>> /\ Head(s) \in Pauses \cup {"deinit"}
             /\ Head(s) = "pause" => <<"pausing", "awaitPause">> \o Tail(s) \in DeinitSlots
             /\ Head(s) \in Pauses => Tail(s) \in DeinitSlots
             /\ Head(s) = "deinit"
                  => <<"awaitContext">> \o Tail(s) = <<"awaitContext", "panel", "unpause">>
  <2>1. CASE s = <<"pause", "deinit", "panel", "unpause">>
    <3>1. s # <<>> /\ Head(s) = "pause" /\ Tail(s) = <<"deinit", "panel", "unpause">>
      BY <1>2, <2>1
    <3> QED BY <1>3, <3>1 DEF Pauses, DeinitSlots
  <2>2. CASE s = <<"pausing", "awaitPause", "deinit", "panel", "unpause">>
    <3>1. s # <<>> /\ Head(s) = "pausing" /\ Tail(s) = <<"awaitPause", "deinit", "panel", "unpause">>
      BY <1>2, <2>2
    <3> QED BY <3>1 DEF Pauses, DeinitSlots
  <2>3. CASE s = <<"awaitPause", "deinit", "panel", "unpause">>
    <3>1. s # <<>> /\ Head(s) = "awaitPause" /\ Tail(s) = <<"deinit", "panel", "unpause">>
      BY <1>2, <2>3
    <3> QED BY <3>1 DEF Pauses, DeinitSlots
  <2>4. CASE s = <<"deinit", "panel", "unpause">>
    <3>1. s # <<>> /\ Head(s) = "deinit" /\ Tail(s) = <<"panel", "unpause">>
      BY <1>2, <2>4
    <3> QED BY <1>5, <3>1 DEF Pauses
  <2> QED BY <2>1, <2>2, <2>3, <2>4 DEF DeinitSlots
<1>7. ASSUME NEW s \in PanelSlots
      PROVE  /\ s # <<>> /\ Head(s) \in Pauses \cup {"panel"}
             /\ Head(s) = "pause" => <<"pausing", "awaitPause">> \o Tail(s) \in PanelSlots
             /\ Head(s) \in Pauses => Tail(s) \in PanelSlots
             /\ Head(s) = "panel" => /\ Tail(s) = <<"unpause">>
                                     /\ <<"init">> \o Tail(s) = <<"init", "unpause">>
  <2>1. CASE s = <<"pause", "panel", "unpause">>
    <3>1. s # <<>> /\ Head(s) = "pause" /\ Tail(s) = <<"panel", "unpause">>
      BY <1>2, <2>1
    <3> QED BY <1>4, <3>1 DEF Pauses, PanelSlots
  <2>2. CASE s = <<"pausing", "awaitPause", "panel", "unpause">>
    <3>1. s # <<>> /\ Head(s) = "pausing" /\ Tail(s) = <<"awaitPause", "panel", "unpause">>
      BY <1>2, <2>2
    <3> QED BY <3>1 DEF Pauses, PanelSlots
  <2>3. CASE s = <<"awaitPause", "panel", "unpause">>
    <3>1. s # <<>> /\ Head(s) = "awaitPause" /\ Tail(s) = <<"panel", "unpause">>
      BY <1>2, <2>3
    <3> QED BY <3>1 DEF Pauses, PanelSlots
  <2>4. CASE s = <<"panel", "unpause">>
    <3>1. s # <<>> /\ Head(s) = "panel" /\ Tail(s) = <<"unpause">>
      BY <1>2, <2>4
    <3> QED BY <1>5, <3>1 DEF Pauses
  <2> QED BY <2>1, <2>2, <2>3, <2>4 DEF PanelSlots
<1> QED BY <1>6, <1>7

LEMMA AwaitSteps ==
  /\ LET s == <<"awaitContext", "panel", "unpause">>
     IN s # <<>> /\ Head(s) = "awaitContext" /\ Tail(s) = <<"panel", "unpause">>
  /\ LET s == <<"awaitContext", "unpause">>
     IN s # <<>> /\ Head(s) = "awaitContext" /\ Tail(s) = <<"unpause">>
  /\ LET s == <<"init", "unpause">>
     IN /\ s # <<>> /\ Head(s) = "init"
        /\ <<"awaitContext">> \o Tail(s) = <<"awaitContext", "unpause">>
<1>1. Tail(<<"init", "unpause">>) = <<"unpause">>
  OBVIOUS
<1>2. {"awaitContext", "unpause"} \subseteq CallNames
  BY DEF CallNames, PlainCalls
<1>3. <<"awaitContext">> \o <<"unpause">> = <<"awaitContext", "unpause">>
  BY <1>2, ShortThen
<1>4. /\ <<"awaitContext", "panel", "unpause">> # <<>>
      /\ Head(<<"awaitContext", "panel", "unpause">>) = "awaitContext"
      /\ Tail(<<"awaitContext", "panel", "unpause">>) = <<"panel", "unpause">>
  OBVIOUS
<1>5. /\ <<"awaitContext", "unpause">> # <<>>
      /\ Head(<<"awaitContext", "unpause">>) = "awaitContext"
      /\ Tail(<<"awaitContext", "unpause">>) = <<"unpause">>
  OBVIOUS
<1>6. <<"init", "unpause">> # <<>> /\ Head(<<"init", "unpause">>) = "init"
  OBVIOUS
<1> QED BY <1>1, <1>3, <1>4, <1>5, <1>6

\* Only calls before the last can be followed by others.
LEMMA TailCloses ==
  ASSUME ui \in Seq(CallNames), Closing, Head(ui) \notin LastCalls, ui' = Tail(ui)
  PROVE  Closing'
<1>1. /\ ui # <<>> /\ Head(ui) = ui[1] /\ ui' \in Seq(CallNames) /\ Len(ui') = Len(ui) - 1
      /\ Len(ui) \in Nat /\ Len(ui) > 0
      /\ \A i \in 1 .. Len(ui') : ui'[i] = ui[i + 1]
  BY HeadTailProperties DEF Closing
<1>2. Len(ui) # 1
  BY <1>1 DEF Closing
<1>3. Len(ui') \in 1 .. Len(ui') /\ Len(ui') + 1 = Len(ui)
  BY <1>1, <1>2
<1>4. ui'[Len(ui')] = ui[Len(ui)]
  BY <1>1, <1>3
<1>5. ui' # <<>>
  <2>1. Len(ui') # 0
    BY <1>1, <1>2
  <2> QED BY <2>1
<1> QED BY <1>4, <1>5 DEF Closing

LEMMA ReturnFree ==
  ASSUME ui \in Seq(CallNames), ui # <<>>, Free, ui' = Tail(ui)
  PROVE  Free'
<1>1. /\ ui' \in Seq(CallNames) /\ Len(ui') = Len(ui) - 1 /\ Len(ui) \in Nat
      /\ \A i \in 1 .. Len(ui') : ui'[i] = ui[i + 1]
  BY HeadTailProperties
<1>2. \A i \in 1 .. Len(ui') : i + 1 \in 1 .. Len(ui)
  BY <1>1
<1> QED BY <1>1, <1>2 DEF Free

\* A call returns, and changes nothing about contexts.
LEMMA ReturnVideo ==
  ASSUME ui \in Seq(CallNames), Video, ui # <<>>, ui' = Tail(ui),
         Head(ui) \notin LastCalls \cup {"deinit", "init", "panel"},
         Head(ui) = "awaitContext" => ContextRequest = "None",
         UNCHANGED <<ContextRequest, screenGL, hasOGL>>
  PROVE  Video'
<1>1. CASE NoVideo
  BY <1>1, ReturnFree DEF NoVideo, Agreed, Video
<1>2. CASE BeforeDeinit
  <2>1. Head(ui) \in Pauses /\ ui' \in DeinitSlots
    BY <1>2, SlotSteps DEF BeforeDeinit
  <2>2. BeforeDeinit'
    BY <1>2, <2>1 DEF BeforeDeinit, Agreed
  <2> QED BY <2>2 DEF Video
<1>3. CASE BeforePanel
  <2>1. Head(ui) \in Pauses /\ ui' \in PanelSlots
    BY <1>3, SlotSteps DEF BeforePanel
  <2>2. BeforePanel'
    BY <1>3, <2>1 DEF BeforePanel
  <2> QED BY <2>2 DEF Video
<1>4. CASE AwaitingDeinit
  <2>1. Head(ui) = "awaitContext" /\ ui' = <<"panel", "unpause">>
    BY <1>4, AwaitSteps DEF AwaitingDeinit
  <2>2. BeforePanel'
    BY <1>4, <2>1 DEF AwaitingDeinit, BeforePanel, PanelSlots
  <2> QED BY <2>2 DEF Video
<1>5. CASE BeforeInit
  BY <1>5, AwaitSteps DEF BeforeInit
<1>6. CASE AwaitingInit
  <2>1. Head(ui) = "awaitContext" /\ ui' = <<"unpause">>
    BY <1>6, AwaitSteps DEF AwaitingInit
  <2>2. Len(ui') = 1 /\ ui'[1] = "unpause"
    <3>1. Len(<<"unpause">>) = 1 /\ <<"unpause">>[1] = "unpause"
      OBVIOUS
    <3> QED BY <2>1, <3>1
  <2>3. Free'
    BY <2>2 DEF Free, ContextCalls
  <2>4. NoVideo'
    BY <1>6, <2>1, <2>3 DEF AwaitingInit, NoVideo, Agreed
  <2> QED BY <2>4 DEF Video
<1>7. CASE Closing
  BY <1>7, TailCloses DEF Video
<1> QED BY <1>1, <1>2, <1>3, <1>4, <1>5, <1>6, <1>7 DEF Video

\* One call is replaced by another before the rest.
LEMMA ThenCloses ==
  ASSUME ui \in Seq(CallNames), Closing, NEW call \in CallNames, ui' = <<call>> \o Tail(ui),
         Head(ui) \notin LastCalls \/ call \in LastCalls
  PROVE  Closing'
<1>1. /\ ui # <<>> /\ Head(ui) = ui[1] /\ Tail(ui) \in Seq(CallNames) /\ Len(Tail(ui)) = Len(ui) - 1
      /\ Len(ui) \in Nat /\ Len(ui) > 0
      /\ \A i \in 1 .. Len(ui) - 1 : Tail(ui)[i] = ui[i + 1]
  BY HeadTailProperties DEF Closing
<1>2. /\ Len(ui') = Len(ui) /\ ui'[1] = call
      /\ \A i \in 1 .. Len(ui) - 1 : ui'[i + 1] = ui[i + 1]
  BY <1>1, OneBefore
<1>3. CASE Len(ui) = 1
  <2>1. call \in LastCalls
    BY <1>1, <1>3 DEF Closing
  <2>2. ui'[Len(ui')] = call /\ Len(ui') = 1
    BY <1>2, <1>3
  <2>3. ui' # <<>>
    BY <2>2
  <2> QED BY <2>1, <2>2, <2>3 DEF Closing
<1>4. CASE Len(ui) # 1
  <2>1. Len(ui) - 1 \in 1 .. Len(ui) - 1 /\ (Len(ui) - 1) + 1 = Len(ui)
    BY <1>1, <1>4
  <2>2. ui'[Len(ui)] = ui[Len(ui)]
    BY <1>2, <2>1
  <2> QED BY <1>1, <1>2, <2>2 DEF Closing
<1> QED BY <1>3, <1>4

LEMMA ThenVideo ==
  ASSUME ui \in Seq(CallNames), Video, ui # <<>>, NEW call \in CallNames \ ContextCalls,
         ui' = <<call>> \o Tail(ui),
         Head(ui) \notin Pauses \cup ContextCalls, Head(ui) \notin LastCalls \/ call \in LastCalls,
         UNCHANGED <<ContextRequest, screenGL, hasOGL>>
  PROVE  Video'
<1>1. CASE NoVideo
  <2>1. /\ Tail(ui) \in Seq(CallNames) /\ Len(Tail(ui)) = Len(ui) - 1 /\ Len(ui) \in Nat /\ Len(ui) > 0
        /\ \A i \in 1 .. Len(ui) - 1 : Tail(ui)[i] = ui[i + 1]
    BY HeadTailProperties
  <2>2. /\ Len(ui') = Len(ui) /\ ui'[1] = call
        /\ \A i \in 1 .. Len(ui) - 1 : ui'[i + 1] = ui[i + 1]
    BY <2>1, OneBefore
  <2>3. Free'
    <3> SUFFICES ASSUME NEW i \in 1 .. Len(ui), i # 1 PROVE ui'[i] \notin ContextCalls
      BY <2>2 DEF Free
    <3>1. i - 1 \in 1 .. Len(ui) - 1 /\ (i - 1) + 1 = i
      BY <2>1
    <3>2. ui'[i] = ui[i]
      BY <2>2, <3>1
    <3> QED BY <1>1, <3>2 DEF NoVideo, Free
  <2>4. NoVideo'
    BY <1>1, <2>3 DEF NoVideo, Agreed
  <2> QED BY <2>4 DEF Video
<1>2. CASE BeforeDeinit \/ BeforePanel
  BY <1>2, SlotSteps DEF BeforeDeinit, BeforePanel, ContextCalls
<1>3. CASE AwaitingDeinit \/ BeforeInit \/ AwaitingInit
  BY <1>3, AwaitSteps DEF AwaitingDeinit, BeforeInit, AwaitingInit, ContextCalls
<1>4. CASE Closing
  BY <1>4, ThenCloses DEF Video
<1> QED BY <1>1, <1>2, <1>3, <1>4 DEF Video

\* emuPause begins.
LEMMA PauseSteps ==
  ASSUME ui \in Seq(CallNames), Calls("pause"), ui' = <<"pausing", "awaitPause">> \o Tail(ui)
  PROVE  /\ Len(ui) \in Nat /\ Len(ui) > 0 /\ ui[1] = "pause" /\ Head(ui) = "pause"
         /\ Len(ui') = Len(ui) + 1 /\ ui'[1] = "pausing" /\ ui'[2] = "awaitPause"
         /\ \A i \in 1 .. Len(ui) - 1 : ui'[i + 2] = ui[i + 1]
<1>1. /\ Tail(ui) \in Seq(CallNames) /\ Len(Tail(ui)) = Len(ui) - 1 /\ Len(ui) \in Nat /\ Len(ui) > 0
      /\ \A i \in 1 .. Len(ui) - 1 : Tail(ui)[i] = ui[i + 1]
      /\ Head(ui) = ui[1] /\ Head(ui) = "pause" /\ ui # <<>>
  BY HeadTailProperties DEF Calls
<1>2. "pausing" \in CallNames /\ "awaitPause" \in CallNames
  BY DEF CallNames
<1> QED BY <1>1, <1>2, TwoBefore

LEMMA PauseFree ==
  ASSUME ui \in Seq(CallNames), Calls("pause"), Free, ui' = <<"pausing", "awaitPause">> \o Tail(ui)
  PROVE  Free'
<1>1. /\ Len(ui) \in Nat /\ Len(ui) > 0
      /\ Len(ui') = Len(ui) + 1 /\ ui'[1] = "pausing" /\ ui'[2] = "awaitPause"
      /\ \A i \in 1 .. Len(ui) - 1 : ui'[i + 2] = ui[i + 1]
  BY PauseSteps
<1> SUFFICES ASSUME NEW i \in 3 .. Len(ui) + 1 PROVE ui'[i] \notin ContextCalls
  BY <1>1 DEF Free, ContextCalls
<1>2. i - 2 \in 1 .. Len(ui) - 1 /\ (i - 2) + 2 = i /\ (i - 2) + 1 = i - 1 /\ i - 1 \in 1 .. Len(ui)
  BY <1>1
<1>3. ui'[i] = ui[i - 1]
  BY <1>1, <1>2
<1> QED BY <1>2, <1>3 DEF Free

LEMMA PauseVideo ==
  ASSUME ui \in Seq(CallNames), Video, Calls("pause"),
         ui' = <<"pausing", "awaitPause">> \o Tail(ui),
         UNCHANGED <<ContextRequest, screenGL, hasOGL>>
  PROVE  Video'
<1>1. /\ Len(ui) \in Nat /\ Len(ui) > 0 /\ ui[1] = "pause" /\ Head(ui) = "pause"
      /\ Len(ui') = Len(ui) + 1
      /\ \A i \in 1 .. Len(ui) - 1 : ui'[i + 2] = ui[i + 1]
  BY PauseSteps
<1>3. CASE NoVideo
  BY <1>3, PauseFree DEF NoVideo, Agreed, Video
<1>4. CASE BeforeDeinit
  <2>1. ui' \in DeinitSlots
    BY <1>1, <1>4, SlotSteps DEF BeforeDeinit
  <2>2. BeforeDeinit'
    BY <1>4, <2>1 DEF BeforeDeinit, Agreed
  <2> QED BY <2>2 DEF Video
<1>5. CASE BeforePanel
  <2>1. ui' \in PanelSlots
    BY <1>1, <1>5, SlotSteps DEF BeforePanel
  <2>2. BeforePanel'
    BY <1>5, <2>1 DEF BeforePanel
  <2> QED BY <2>2 DEF Video
<1>6. CASE AwaitingDeinit \/ BeforeInit \/ AwaitingInit
  BY <1>1, <1>6, AwaitSteps DEF AwaitingDeinit, BeforeInit, AwaitingInit
<1>7. CASE Closing
  <2>1. Len(ui) # 1
    BY <1>1, <1>7 DEF Closing, LastCalls
  <2>2. Len(ui) - 1 \in 1 .. Len(ui) - 1 /\ (Len(ui) - 1) + 2 = Len(ui) + 1 /\ (Len(ui) - 1) + 1 = Len(ui)
    <3>1. Len(ui) \in Nat /\ Len(ui) > 0
      BY <1>1
    <3>2. \A n \in Nat : n > 0 /\ n # 1
                         => n - 1 \in 1 .. n - 1 /\ (n - 1) + 2 = n + 1 /\ (n - 1) + 1 = n
      OBVIOUS
    <3> QED BY <2>1, <3>1, <3>2
  <2>3. ui'[Len(ui) + 1] = ui[Len(ui)]
    BY <1>1, <2>2
  <2>4. Len(ui') # 0
    BY <1>1
  <2>5. Closing'
    BY <1>1, <1>7, <2>3, <2>4 DEF Closing
  <2> QED BY <2>5 DEF Video
<1> QED BY <1>3, <1>4, <1>5, <1>6, <1>7 DEF Video

LEMMA InitContextInv == EthInit => ContextInv
<1> SUFFICES ASSUME EthInit PROVE ContextInv
  OBVIOUS
<1>1. Free
  BY FirstSlots DEF Free, ContextCalls
<1>2. Calls("pause")
  BY FirstSlots DEF Calls
<1> QED BY <1>1, <1>2 DEF EthInit, ContextInv, NotStarted

\* The thread answers a request, and does nothing else about contexts once it has begun.
LEMMA EmuContext == ContextInv /\ Emu => ContextInv'
<1> SUFFICES ASSUME ContextInv, Emu PROVE ContextInv'
  OBVIOUS
<1>1. UNCHANGED <<ui, hasOGL>> /\ epc' # "start"
  BY DEF Emu, Start, Loop, Leave, Input, Check, Claim, ReadStep, WriteStep, Frame, AfterFrame, PausedBranch,
         ReadRequest, ServeRequest, Go, Turn, uivars
<1>2. Free' <=> Free
  BY <1>1 DEF Free
<1>3. CASE Start
  <2>1. epc' # "context!" /\ epc = "start" /\ screenGL' = hasOGL /\ ContextRequest' = ContextRequest
    BY <1>3 DEF Start, Go, shared
  <2>2. NoVideo'
    BY <1>1, <1>2, <2>1 DEF ContextInv, NotStarted, NoVideo, Agreed
  <2> QED BY <1>1, <2>1, <2>2 DEF ContextInv, Video
<1>4. CASE ServeRequest
  <2>1. /\ epc = "context!" /\ epc' # "context!" /\ ContextRequest # "None" /\ ContextRequest' = "None"
        /\ screenGL' = (ContextRequest = "InitGL")
    BY <1>4 DEF ServeRequest, Turn, ContextInv
  <2>2. Video
    BY <2>1 DEF ContextInv
  <2>3. AwaitingDeinit => AwaitingDeinit'
    BY <1>1, <2>1 DEF AwaitingDeinit
  <2>4. AwaitingInit => AwaitingInit'
    BY <1>1, <2>1 DEF AwaitingInit
  <2>5. Closing => Closing'
    BY <1>1 DEF Closing
  <2>6. ~NoVideo /\ ~BeforeDeinit /\ ~BeforePanel /\ ~BeforeInit
    BY <2>1 DEF NoVideo, Agreed, BeforeDeinit, BeforePanel, BeforeInit
  <2>7. Video'
    BY <2>2, <2>3, <2>4, <2>5, <2>6 DEF Video
  <2> QED BY <1>1, <2>1, <2>7 DEF ContextInv
<1>5. CASE ReadRequest \/ Loop \/ Leave \/ Input \/ Check \/ Claim \/ ReadStep \/ WriteStep \/ Frame \/ AfterFrame
           \/ PausedBranch
  <2>1. /\ UNCHANGED <<screenGL, ContextRequest>> /\ epc # "start"
        /\ epc' = "context!" => ContextRequest # "None"
    BY <1>5 DEF ReadRequest, Loop, Leave, Input, Check, Claim, ReadStep, WriteStep, Frame, AfterFrame, PausedBranch,
                Go, Turn, shared
  <2>2. Video' <=> Video
    BY <1>1, <1>2, <2>1 DEF Video, NoVideo, BeforeDeinit, BeforePanel, AwaitingDeinit, BeforeInit,
                            AwaitingInit, Closing, Agreed
  <2> QED BY <1>1, <2>1, <2>2 DEF ContextInv
<1> QED BY <1>3, <1>4, <1>5 DEF Emu

\* Until the thread has begun the UI can only pause.
LEMMA FirstPause ==
  ASSUME PauseInv, ContextInv, epc = "start", Call
  PROVE  ContextInv'
<1>1. NotStarted /\ ui \in Seq(CallNames) /\ EmuPauseStack \in Nat
  BY DEF ContextInv, PauseInv, CallsInOrder
<1>2. Pause \/ Pausing
  BY <1>1 DEF Call, NotStarted, AwaitPause, IsPaused, Work, Unpause, Run, Step, Stop, Request,
              AwaitContext, NewPanel, EmuStop, Join, Calls
<1>3. UNCHANGED <<EmuStatus, ContextRequest, epc, screenGL, hasOGL>>
  BY <1>2 DEF Pause, Pausing, emuvars, shared, window
<1>4. CASE Pause
  <2>1. /\ Calls("pause") /\ EmuPauseStack = 0 /\ EmuPauseStack' = 1
        /\ ui' = <<"pausing", "awaitPause">> \o Tail(ui)
    BY <1>1, <1>4 DEF Pause, Then, NotStarted, Calls
  <2>2. Calls("pausing")' /\ Free'
    BY <1>1, <2>1, PauseOrder, PauseFree DEF PauseInv, NotStarted
  <2> QED BY <1>1, <1>3, <2>2 DEF ContextInv, NotStarted
<1>5. CASE Pausing
  <2>1. Calls("pausing") /\ ui' = Tail(ui) /\ EmuPauseStack' = EmuPauseStack
    BY <1>5 DEF Pausing, Return
  <2>2. EmuPauseStack' \in Nat /\ EmuPauseStack' >= EmuPauseStack
    BY <1>1, <2>1
  <2>3. Calls("awaitPause")' /\ Free'
    BY <1>1, <2>1, <2>2, ReturnOrder, ReturnFree DEF PauseInv, NotStarted, Calls
  <2> QED BY <1>1, <1>3, <2>3 DEF ContextInv, NotStarted
<1> QED BY <1>2, <1>4, <1>5

\* deinitContext, initContext and createScreenPanel.
LEMMA ContextCallVideo ==
  ASSUME ui \in Seq(CallNames), Video, {screenGL, hasOGL} \subseteq BOOLEAN,
         Request("deinit", "DeInitGL") \/ Request("init", "InitGL") \/ NewPanel
  PROVE  Video'
<1>1. ui # <<>> /\ Head(ui) \in {"deinit", "init", "panel"}
  BY DEF Request, NewPanel, Calls
<1>2. ~NoVideo
  BY <1>1, HeadTailProperties DEF NoVideo, Free, ContextCalls
<1>3. \A call \in {"awaitContext", "init"} : call \in CallNames
  BY DEF CallNames, PlainCalls
<1>4. CASE Request("deinit", "DeInitGL")
  <2>1. /\ Head(ui) = "deinit" /\ ui' = <<"awaitContext">> \o Tail(ui)
        /\ ContextRequest' = "DeInitGL"
    BY <1>4 DEF Request, Then, Calls
  <2>2. CASE BeforeDeinit
    <3>1. ui' = <<"awaitContext", "panel", "unpause">>
      BY <2>1, <2>2, SlotSteps DEF BeforeDeinit
    <3> QED BY <2>1, <3>1 DEF Video, AwaitingDeinit
  <2>3. CASE Closing
    BY <1>3, <2>1, <2>3, ThenCloses DEF Video, LastCalls
  <2>4. ~BeforePanel
    BY <2>1, SlotSteps DEF BeforePanel, Pauses
  <2>5. ~AwaitingDeinit /\ ~BeforeInit /\ ~AwaitingInit
    BY <2>1, AwaitSteps DEF AwaitingDeinit, BeforeInit, AwaitingInit
  <2> QED BY <1>2, <2>2, <2>3, <2>4, <2>5 DEF Video
<1>5. CASE Request("init", "InitGL")
  <2>1. /\ Head(ui) = "init" /\ ui' = <<"awaitContext">> \o Tail(ui)
        /\ ContextRequest' = "InitGL" /\ hasOGL' = hasOGL
    BY <1>5 DEF Request, Then, Calls, window
  <2>2. CASE BeforeInit
    <3>1. ui' = <<"awaitContext", "unpause">>
      BY <2>1, <2>2, AwaitSteps DEF BeforeInit
    <3> QED BY <2>1, <2>2, <3>1 DEF Video, AwaitingInit, BeforeInit
  <2>3. CASE Closing
    BY <1>3, <2>1, <2>3, ThenCloses DEF Video, LastCalls
  <2>4. ~BeforePanel /\ ~BeforeDeinit
    BY <2>1, SlotSteps DEF BeforePanel, BeforeDeinit, Pauses
  <2>5. ~AwaitingDeinit /\ ~AwaitingInit
    BY <2>1, AwaitSteps DEF AwaitingDeinit, AwaitingInit
  <2> QED BY <1>2, <2>2, <2>3, <2>4, <2>5 DEF Video
<1>6. CASE NewPanel
  <2>1. /\ Head(ui) = "panel" /\ UNCHANGED <<ContextRequest, screenGL>> /\ hasOGL' \in BOOLEAN
        /\ hasOGL' => ui' = <<"init">> \o Tail(ui)
        /\ ~hasOGL' => ui' = <<>> \o Tail(ui)
    BY <1>6 DEF NewPanel, Then, Calls, emuvars, shared
  <2>2. <<>> \o Tail(ui) = Tail(ui)
    <3>1. Tail(ui) \in Seq(CallNames)
      BY <1>1
    <3> QED BY <3>1, ConcatEmptySeq
  <2>3. CASE BeforePanel
    <3>1. Tail(ui) = <<"unpause">> /\ <<"init">> \o Tail(ui) = <<"init", "unpause">>
      BY <2>1, <2>3, SlotSteps DEF BeforePanel
    <3>2. CASE hasOGL'
      BY <2>1, <2>3, <3>1, <3>2 DEF Video, BeforePanel, BeforeInit
    <3>3. CASE ~hasOGL'
      <4>1. Len(<<"unpause">>) = 1 /\ <<"unpause">>[1] = "unpause"
        OBVIOUS
      <4>2. Len(ui') = 1 /\ ui'[1] = "unpause"
        BY <2>1, <2>2, <3>1, <3>3, <4>1
      <4>3. Free'
        BY <4>2 DEF Free, ContextCalls
      <4> QED BY <2>1, <2>3, <3>3, <4>3 DEF Video, NoVideo, Agreed, BeforePanel
    <3> QED BY <3>2, <3>3
  <2>4. CASE Closing
    <3>1. CASE hasOGL'
      BY <1>3, <2>1, <2>4, <3>1, ThenCloses DEF Video, LastCalls
    <3>2. CASE ~hasOGL'
      BY <2>1, <2>2, <2>4, <3>2, TailCloses DEF Video, LastCalls
    <3> QED BY <3>1, <3>2
  <2>5. ~BeforeDeinit
    BY <2>1, SlotSteps DEF BeforeDeinit, Pauses
  <2>6. ~AwaitingDeinit /\ ~BeforeInit /\ ~AwaitingInit
    BY <2>1, AwaitSteps DEF AwaitingDeinit, BeforeInit, AwaitingInit
  <2> QED BY <1>2, <2>3, <2>4, <2>5, <2>6 DEF Video
<1> QED BY <1>4, <1>5, <1>6

LEMMA CallContext == PauseInv /\ ContextInv /\ Call => ContextInv'
<1> SUFFICES ASSUME PauseInv, ContextInv, Call, epc # "start" PROVE ContextInv'
  BY FirstPause
<1>1. ui \in Seq(CallNames) /\ Video
  BY DEF PauseInv, CallsInOrder, ContextInv
<1>2. CASE Request("deinit", "DeInitGL") \/ Request("init", "InitGL") \/ NewPanel
  <2>1. Video'
    BY <1>1, <1>2, ContextCallVideo DEF ContextInv
  <2>2. /\ UNCHANGED <<epc, screenGL>> /\ hasOGL' \in BOOLEAN
        /\ ContextRequest' # ContextRequest => ContextRequest' # "None"
    BY <1>2 DEF Request, NewPanel, emuvars, window, shared, ContextInv
  <2> QED BY <2>1, <2>2 DEF ContextInv
<1>3. CASE ~(Request("deinit", "DeInitGL") \/ Request("init", "InitGL") \/ NewPanel)
  <2>1. UNCHANGED <<epc, ContextRequest, screenGL, hasOGL>> /\ ui # <<>>
    BY <1>3 DEF Call, Pause, Pausing, AwaitPause, Work, Unpause, Run, Step, Stop, AwaitContext, EmuStop,
                Join, emuvars, window, shared, Calls
  <2>2. CASE Pause /\ EmuPauseStack = 0
    <3>1. Calls("pause") /\ ui' = <<"pausing", "awaitPause">> \o Tail(ui)
      BY <2>2 DEF Pause, Then
    <3> QED BY <1>1, <2>1, <3>1, PauseVideo DEF ContextInv
  <2>3. CASE Stop \/ EmuStop \/ Join
    <3>1. /\ Head(ui) \in {"stop", "exit", "join"}
          /\ \/ Head(ui) = "stop" /\ ui' = <<"pause">> \o Tail(ui)
             \/ ui' = <<"join">> \o Tail(ui)
             \/ ui' = <<"end">> \o Tail(ui)
      BY <2>3 DEF Stop, EmuStop, Join, Calls, Then
    <3>2. \A call \in {"pause", "join", "end"} : call \in CallNames \ ContextCalls
      BY DEF CallNames, PlainCalls, ContextCalls
    <3>3. Head(ui) \notin Pauses \cup ContextCalls
      BY <3>1 DEF Pauses, ContextCalls
    <3>4. Video'
      BY <1>1, <2>1, <3>1, <3>2, <3>3, ThenVideo DEF LastCalls
    <3> QED BY <2>1, <3>4 DEF ContextInv
  <2>4. CASE ~(Pause /\ EmuPauseStack = 0) /\ ~(Stop \/ EmuStop \/ Join)
    <3>1. EmuPauseStack \in Nat
      BY DEF PauseInv, CallsInOrder
    <3>2. ui' = Tail(ui) /\ (Head(ui) = "awaitContext" => ContextRequest = "None")
          /\ Head(ui) \in {"pause", "pausing", "awaitPause", "work", "load", "unpause", "run",
                           "step", "awaitContext"}
      BY <1>3, <2>4, <3>1 DEF Call, Pause, Pausing, AwaitPause, Work, Unpause, Run, Step, AwaitContext,
                        Calls, Return, IsServed
    <3>3. Head(ui) \notin LastCalls \cup {"deinit", "init", "panel"}
      BY <3>2 DEF LastCalls
    <3>4. Video'
      BY <1>1, <2>1, <3>2, <3>3, ReturnVideo
    <3> QED BY <2>1, <3>4 DEF ContextInv
  <2> QED BY <2>2, <2>3, <2>4
<1> QED BY <1>2, <1>3

\* What follows the calls of an event, and what an event puts before others.
LEMMA EventVideo ==
  ASSUME ui \in Seq(CallNames), Video, Calls("pick"), NEW s \in EventCalls, ui' = s \o ui,
         UNCHANGED <<ContextRequest, screenGL, hasOGL>>
  PROVE  Video'
<1>1. s \in Seq(CallNames) /\ Len(s) \in Nat
  BY SlotsAreGood DEF SlotCalls, GoodSlot
<1>2. \A i \in 1 .. Len(s) : s[i] \notin ContextCalls
  BY EventItems DEF ContextCalls
<1>3. /\ Len(ui') = Len(s) + Len(ui) /\ Len(ui) \in Nat /\ Len(ui) > 0
      /\ \A i \in 1 .. Len(ui') : ui'[i] = IF i <= Len(s) THEN s[i] ELSE ui[i - Len(s)]
  BY <1>1, ConcatProperties DEF Calls
<1>4. CASE NoVideo
  <2>1. Free'
    <3> SUFFICES ASSUME NEW i \in 1 .. Len(ui') PROVE ui'[i] \notin ContextCalls
      BY DEF Free
    <3>1. CASE i <= Len(s)
      BY <1>2, <1>3, <3>1
    <3>2. CASE ~(i <= Len(s))
      <4>1. i - Len(s) \in 1 .. Len(ui) /\ ui'[i] = ui[i - Len(s)]
        BY <1>1, <1>3, <3>2
      <4> QED BY <1>4, <4>1 DEF NoVideo, Free
    <3> QED BY <3>1, <3>2
  <2>2. NoVideo'
    BY <1>4, <2>1 DEF NoVideo, Agreed
  <2> QED BY <2>2 DEF Video
<1>5. CASE BeforeDeinit \/ BeforePanel
  BY <1>5, SlotSteps DEF BeforeDeinit, BeforePanel, Pauses, Calls
<1>6. CASE AwaitingDeinit \/ BeforeInit \/ AwaitingInit
  BY <1>6, AwaitSteps DEF AwaitingDeinit, BeforeInit, AwaitingInit, Calls
<1>7. CASE Closing
  <2>1. /\ Len(ui') \in 1 .. Len(ui') /\ ~(Len(ui') <= Len(s)) /\ Len(ui') - Len(s) = Len(ui)
        /\ Len(ui') # 0
    BY <1>1, <1>3
  <2>2. ui'[Len(ui')] = ui[Len(ui)]
    BY <1>3, <2>1
  <2>3. Closing'
    BY <1>7, <2>1, <2>2 DEF Closing
  <2> QED BY <2>3 DEF Video
<1> QED BY <1>4, <1>5, <1>6, <1>7 DEF Video

\* The calls of the slots that are not about contexts, and of Close.
LEMMA FreeSlots ==
  ASSUME NEW s \in EventCalls \cup AskingCalls \cup OtherCalls, NEW i \in 1 .. Len(s)
  PROVE  s[i] \notin ContextCalls
<1>1. {"pause", "unpause", "run", "stop", "work", "pick", "load"} \subseteq CallNames \ ContextCalls
  BY DEF CallNames, PlainCalls, ContextCalls
<1>2. CASE s \in EventCalls
  BY <1>2, EventItems DEF ContextCalls
<1>3. ASSUME NEW b \in {"pick", "work"}, s = <<"pause", b, "unpause">> PROVE s[i] \notin ContextCalls
  <2>1. Len(s) = 3 /\ s[1] = "pause" /\ s[2] = b /\ s[3] = "unpause"
    BY <1>1, <1>3, SlotItems
  <2> QED BY <1>1, <2>1
<1>4. ASSUME NEW d \in {"unpause", "run"}, s = <<"pause", "pick", "load", d>>
      PROVE  s[i] \notin ContextCalls
  <2>1. Len(s) = 4 /\ s[1] = "pause" /\ s[2] = "pick" /\ s[3] = "load" /\ s[4] = d
    BY <1>1, <1>4, SlotItems
  <2> QED BY <1>1, <2>1
<1>5. ASSUME s = <<"pause", "pick", "load", "pick", "unpause">> PROVE s[i] \notin ContextCalls
  <2>1. /\ Len(s) = 5 /\ s[1] = "pause" /\ s[2] = "pick" /\ s[3] = "load" /\ s[4] = "pick"
        /\ s[5] = "unpause"
    BY <1>1, <1>5, SlotItems
  <2> QED BY <1>1, <2>1
<1>6. ASSUME s = <<"pause", "stop">> PROVE s[i] \notin ContextCalls
  <2>1. Len(s) = 2 /\ s[1] = "pause" /\ s[2] = "stop"
    BY <1>1, <1>6, SlotItems
  <2> QED BY <1>1, <2>1
<1>7. s \in EventCalls \/ s \in AskingCalls \/ s \in OtherCalls
  OBVIOUS
<1>8. CASE s \in AskingCalls
  BY <1>3, <1>4, <1>5, <1>8 DEF AskingCalls
<1>9. CASE s \in OtherCalls
  BY <1>3, <1>6, <1>9 DEF OtherCalls
<1> QED BY <1>2, <1>7, <1>8, <1>9

\* A slot begins when both threads agree, and only VideoSettings and Close are about contexts.
LEMMA UserContext == PauseInv /\ ContextInv /\ User => ContextInv'
<1> SUFFICES ASSUME PauseInv, ContextInv, User PROVE ContextInv'
  OBVIOUS
<1>1. UNCHANGED <<epc, screenGL, hasOGL, ContextRequest>> /\ ui \in Seq(CallNames)
  BY UserCalls DEF PauseInv, CallsInOrder
<1>2. ui = <<>> \/ Calls("pick")
  BY UserCalls
<1>3. epc # "start" /\ Video
  BY <1>2 DEF ContextInv, NotStarted, Calls
<1>4. ASSUME Video' PROVE ContextInv'
  BY <1>1, <1>3, <1>4 DEF ContextInv
<1>5. CASE Calls("pick") /\ ui' = Tail(ui)
  <2>1. Head(ui) \notin LastCalls \cup {"deinit", "init", "panel", "awaitContext"} /\ ui # <<>>
    BY <1>5 DEF Calls, LastCalls
  <2> QED BY <1>1, <1>3, <1>4, <1>5, <2>1, ReturnVideo
<1>6. ASSUME Calls("pick"), NEW s \in EventCalls, ui' = s \o ui PROVE ContextInv'
  BY <1>1, <1>3, <1>4, <1>6, EventVideo
<1>7. ASSUME ui = <<>> PROVE Agreed'
  <2>1. ~BeforeDeinit /\ ~BeforePanel
    BY <1>7, SlotSteps DEF BeforeDeinit, BeforePanel
  <2>2. ~AwaitingDeinit /\ ~BeforeInit /\ ~AwaitingInit /\ ~Closing
    BY <1>7, AwaitSteps DEF AwaitingDeinit, BeforeInit, AwaitingInit, Closing
  <2> QED BY <1>1, <1>3, <2>1, <2>2 DEF Video, NoVideo, Agreed
<1>8. ASSUME ui = <<>>, ui' \in EventCalls \cup AskingCalls \cup OtherCalls PROVE ContextInv'
  <2>1. PICK s \in EventCalls \cup AskingCalls \cup OtherCalls : ui' = s
    BY <1>8
  <2>2. Free'
    BY <2>1, FreeSlots DEF Free
  <2>3. Video'
    BY <1>7, <1>8, <2>2 DEF Video, NoVideo
  <2> QED BY <1>4, <2>3
<1>9. ASSUME ui' \in CloseCalls PROVE ContextInv'
  <2>1. ui' = <<"exit">> \/ ui' = <<"pause", "deinit", "exit">>
    BY <1>9 DEF CloseCalls
  <2>2. {"exit", "pause", "deinit"} \subseteq CallNames
    BY DEF CallNames, PlainCalls
  <2>3. <<"exit">> # <<>> /\ Len(<<"exit">>) = 1 /\ <<"exit">>[1] = "exit"
    BY <2>2, SlotItems
  <2>4. /\ <<"pause", "deinit", "exit">> # <<>> /\ Len(<<"pause", "deinit", "exit">>) = 3
        /\ <<"pause", "deinit", "exit">>[3] = "exit"
    BY <2>2, SlotItems
  <2>5. Closing'
    BY <2>1, <2>3, <2>4 DEF Closing, LastCalls
  <2>6. Video'
    BY <2>5 DEF Video
  <2> QED BY <1>4, <2>6
<1>10. ASSUME ui = <<>>, hasOGL, ui' = <<"pause", "deinit", "panel", "unpause">> PROVE ContextInv'
  <2>1. BeforeDeinit'
    BY <1>1, <1>7, <1>10 DEF BeforeDeinit, DeinitSlots
  <2>2. Video'
    BY <2>1 DEF Video
  <2> QED BY <1>4, <2>2
<1>11. ASSUME ui = <<>>, ~hasOGL, ui' = <<"pause", "panel", "unpause">> PROVE ContextInv'
  <2>1. BeforePanel'
    BY <1>1, <1>7, <1>11 DEF BeforePanel, PanelSlots, Agreed
  <2>2. Video'
    BY <2>1 DEF Video
  <2> QED BY <1>4, <2>2
<1> QED BY <1>5, <1>6, <1>8, <1>9, <1>10, <1>11, UserCalls

\* Between two slots no context request is left over, and the emulator thread draws
\* with OpenGL exactly if the window's panel has a context: initContext and
\* deinitContext (EmuThread.cpp), as onUpdateVideoSettings (main.cpp) calls them.
THEOREM ContextsHandedOver == EthSpec => []ContextHandedOver
<1>1. PauseInv /\ ContextInv /\ [EthNext]_ethvars => ContextInv'
  <2>1. ContextInv /\ UNCHANGED ethvars => ContextInv'
    BY DEF ethvars, emuvars, uivars, shared, pauses, ContextInv, NotStarted, Video, NoVideo, Free,
           BeforeDeinit, BeforePanel, AwaitingDeinit, BeforeInit, AwaitingInit, Closing, Agreed, Calls
  <2> QED BY <2>1, EmuContext, CallContext, UserContext DEF EthNext
<1>2. ContextInv => ContextHandedOver
  <2> SUFFICES ASSUME ContextInv, ui = <<>>, epc # "start"
               PROVE  ContextRequest = "None" /\ screenGL = hasOGL
    BY DEF ContextHandedOver
  <2>1. ~BeforeDeinit /\ ~BeforePanel
    BY SlotSteps DEF BeforeDeinit, BeforePanel
  <2>2. ~AwaitingDeinit /\ ~BeforeInit /\ ~AwaitingInit /\ ~Closing
    BY AwaitSteps DEF AwaitingDeinit, BeforeInit, AwaitingInit, Closing
  <2>3. Agreed
    BY <2>1, <2>2 DEF ContextInv, Video, NoVideo
  <2>4. screenGL \in BOOLEAN /\ hasOGL \in BOOLEAN
    BY DEF ContextInv
  <2> QED BY <2>3, <2>4 DEF Agreed
<1> QED BY InitContextInv, SpecPauseInv, <1>1, <1>2, PTL DEF EthSpec

-----------------------------------------------------------------------------
(* Types *)

\* How far the calls to come can still nest the pauses: at most two of them do.
Nesting ==
  /\ EmuPauseStack \in Nat /\ EmuPauseStack <= MaxStack + 1
  /\ \A i \in 1 .. Len(ui) : ui[i] \in Nests => EmuPauseStack <= MaxStack
  /\ \A i, j \in 1 .. Len(ui) : i < j /\ ui[i] \in Nests /\ ui[j] \in Nests
                                => EmuPauseStack < MaxStack
  /\ \A i, j, k \in 1 .. Len(ui) : i < j /\ j < k => \/ ui[i] \notin Nests \/ ui[j] \notin Nests
                                                     \/ ui[k] \notin Nests

FieldTypes ==
  /\ epc \in Labels /\ inner \in 0 .. MaxInner /\ screenGL \in BOOLEAN
  /\ {EmuStatus, EmuRunning, PrevEmuStatus} \subseteq Status
  /\ ContextRequest \in {"None", "InitGL", "DeInitGL"}
  /\ {RunningSomething, hasOGL, pauseChecked, pausedManually, stopSignal, unsure} \subseteq BOOLEAN
  /\ dialogs \in 0 .. MaxDialogs

USE MaxStackAssumption, MaxDialogsAssumption, MaxInnerAssumption

\* A call that returns without counting, and emuPause.
LEMMA ReturnNests ==
  ASSUME ui \in Seq(CallNames), Nesting, ui # <<>>, ui' = Tail(ui),
         EmuPauseStack' \in Nat,
         EmuPauseStack' <= EmuPauseStack \/ (Head(ui) = "pause" /\ EmuPauseStack' = EmuPauseStack + 1)
  PROVE  Nesting'
<1>1. /\ Len(ui') = Len(ui) - 1 /\ Len(ui) \in Nat /\ Len(ui) > 0 /\ Head(ui) = ui[1]
      /\ \A i \in 1 .. Len(ui') : ui'[i] = ui[i + 1]
  BY HeadTailProperties
<1>2. \A i \in 1 .. Len(ui') : i + 1 \in 1 .. Len(ui) /\ 1 < i + 1 /\ ui'[i] = ui[i + 1]
  BY <1>1
<1>3. 1 \in 1 .. Len(ui)
  BY <1>1
<1>4. \A i, j, k \in 1 .. Len(ui') : i < j /\ j < k => \/ ui'[i] \notin Nests \/ ui'[j] \notin Nests
                                                       \/ ui'[k] \notin Nests
  <2> SUFFICES ASSUME NEW i \in 1 .. Len(ui'), NEW j \in 1 .. Len(ui'), NEW k \in 1 .. Len(ui'),
                      i < j, j < k
               PROVE  ui'[i] \notin Nests \/ ui'[j] \notin Nests \/ ui'[k] \notin Nests
    OBVIOUS
  <2>1. i + 1 < j + 1 /\ j + 1 < k + 1
    OBVIOUS
  <2> QED BY <1>2, <2>1 DEF Nesting
<1>5. CASE EmuPauseStack' <= EmuPauseStack
  <2>1. EmuPauseStack' <= MaxStack + 1
    BY <1>5 DEF Nesting
  <2>2. \A i \in 1 .. Len(ui') : ui'[i] \in Nests => EmuPauseStack' <= MaxStack
    BY <1>2, <1>5 DEF Nesting
  <2>3. \A i, j \in 1 .. Len(ui') : i < j /\ ui'[i] \in Nests /\ ui'[j] \in Nests
                                   => EmuPauseStack' < MaxStack
    <3> SUFFICES ASSUME NEW i \in 1 .. Len(ui'), NEW j \in 1 .. Len(ui'), i < j,
                        ui'[i] \in Nests, ui'[j] \in Nests
                 PROVE  EmuPauseStack' < MaxStack
      OBVIOUS
    <3>1. i + 1 < j + 1
      OBVIOUS
    <3>2. EmuPauseStack < MaxStack
      BY <1>2, <3>1 DEF Nesting
    <3> QED BY <1>5, <3>2 DEF Nesting
  <2> QED BY <1>4, <2>1, <2>2, <2>3 DEF Nesting
<1>6. CASE Head(ui) = "pause" /\ EmuPauseStack' = EmuPauseStack + 1
  <2>1. ui[1] \in Nests
    BY <1>1, <1>6 DEF Nests
  <2>2. EmuPauseStack' <= MaxStack + 1
    BY <1>3, <1>6, <2>1 DEF Nesting
  <2>3. \A i \in 1 .. Len(ui') : ui'[i] \in Nests => EmuPauseStack' <= MaxStack
    <3> SUFFICES ASSUME NEW i \in 1 .. Len(ui'), ui'[i] \in Nests PROVE EmuPauseStack' <= MaxStack
      OBVIOUS
    <3>1. EmuPauseStack < MaxStack
      BY <1>2, <1>3, <2>1 DEF Nesting
    <3> QED BY <1>6, <3>1 DEF Nesting
  <2>4. \A i, j \in 1 .. Len(ui') : i < j => ui'[i] \notin Nests \/ ui'[j] \notin Nests
    <3> SUFFICES ASSUME NEW i \in 1 .. Len(ui'), NEW j \in 1 .. Len(ui'), i < j
                 PROVE  ui'[i] \notin Nests \/ ui'[j] \notin Nests
      OBVIOUS
    <3>1. 1 < i + 1 /\ i + 1 < j + 1
      OBVIOUS
    <3> QED BY <1>2, <1>3, <2>1, <3>1 DEF Nesting
  <2> QED BY <1>4, <2>2, <2>3, <2>4 DEF Nesting
<1> QED BY <1>5, <1>6

\* A call becomes another, which nests only if the first did.
LEMMA ThenNests ==
  ASSUME ui \in Seq(CallNames), Nesting, ui # <<>>, NEW call \in CallNames,
         ui' = <<call>> \o Tail(ui), call \in Nests => Head(ui) \in Nests,
         EmuPauseStack' \in Nat, EmuPauseStack' <= EmuPauseStack
  PROVE  Nesting'
<1>1. /\ Tail(ui) \in Seq(CallNames) /\ Len(Tail(ui)) = Len(ui) - 1 /\ Len(ui) \in Nat /\ Len(ui) > 0
      /\ \A i \in 1 .. Len(ui) - 1 : Tail(ui)[i] = ui[i + 1]
      /\ Head(ui) = ui[1]
  BY HeadTailProperties
<1>2. /\ Len(ui') = Len(ui) /\ ui'[1] = call
      /\ \A i \in 1 .. Len(ui) - 1 : ui'[i + 1] = ui[i + 1]
  BY <1>1, OneBefore
<1>3. \A i \in 1 .. Len(ui') : ui'[i] \in Nests => ui[i] \in Nests
  <2> SUFFICES ASSUME NEW i \in 1 .. Len(ui), i # 1 PROVE ui'[i] = ui[i]
    BY <1>1, <1>2
  <2>1. i - 1 \in 1 .. Len(ui) - 1 /\ (i - 1) + 1 = i
    BY <1>1
  <2> QED BY <1>2, <2>1
<1>4. EmuPauseStack \in Nat /\ MaxStack \in Nat
  BY DEF Nesting
<1>5. Len(ui') = Len(ui)
  BY <1>2
<1> QED BY <1>3, <1>4, <1>5 DEF Nesting

\* emuPause, not nested.
LEMMA PauseNests ==
  ASSUME ui \in Seq(CallNames), Nesting, Calls("pause"),
         ui' = <<"pausing", "awaitPause">> \o Tail(ui), EmuPauseStack' = EmuPauseStack + 1
  PROVE  Nesting'
<1>1. /\ Len(ui) \in Nat /\ Len(ui) > 0 /\ ui[1] = "pause"
      /\ Len(ui') = Len(ui) + 1 /\ ui'[1] = "pausing" /\ ui'[2] = "awaitPause"
      /\ \A i \in 1 .. Len(ui) - 1 : ui'[i + 2] = ui[i + 1]
  BY PauseSteps
<1>2. 1 \in 1 .. Len(ui) /\ ui[1] \in Nests
  BY <1>1 DEF Nests
<1>3. \A i \in 1 .. Len(ui') : ui'[i] \in Nests
        => 2 < i /\ i - 1 \in 1 .. Len(ui) /\ 1 < i - 1 /\ ui[i - 1] \in Nests
  <2> SUFFICES ASSUME NEW i \in 1 .. Len(ui'), ui'[i] \in Nests
               PROVE  2 < i /\ i - 1 \in 1 .. Len(ui) /\ 1 < i - 1 /\ ui[i - 1] \in Nests
    OBVIOUS
  <2>1. i # 1 /\ i # 2
    BY <1>1 DEF Nests
  <2>2. 2 < i /\ i - 1 \in 1 .. Len(ui) /\ 1 < i - 1
    BY <1>1, <2>1
  <2>3. i - 2 \in 1 .. Len(ui) - 1 /\ (i - 2) + 2 = i /\ (i - 2) + 1 = i - 1
    BY <1>1, <2>1
  <2>4. ui'[i] = ui[i - 1]
    BY <1>1, <2>3
  <2> QED BY <2>2, <2>4
<1>4. EmuPauseStack' \in Nat /\ EmuPauseStack' <= MaxStack + 1
  BY <1>2 DEF Nesting
<1>5. \A i \in 1 .. Len(ui') : ui'[i] \in Nests => EmuPauseStack' <= MaxStack
  <2> SUFFICES ASSUME NEW i \in 1 .. Len(ui'), ui'[i] \in Nests PROVE EmuPauseStack' <= MaxStack
    OBVIOUS
  <2>1. EmuPauseStack < MaxStack
    BY <1>2, <1>3 DEF Nesting
  <2> QED BY <2>1 DEF Nesting
<1>6. \A i, j \in 1 .. Len(ui') : i < j => ui'[i] \notin Nests \/ ui'[j] \notin Nests
  <2> SUFFICES ASSUME NEW i \in 1 .. Len(ui'), NEW j \in 1 .. Len(ui'), i < j,
                      ui'[i] \in Nests, ui'[j] \in Nests
               PROVE  FALSE
    OBVIOUS
  <2>1. /\ i - 1 \in 1 .. Len(ui) /\ 1 < i - 1 /\ ui[i - 1] \in Nests
        /\ j - 1 \in 1 .. Len(ui) /\ ui[j - 1] \in Nests
    BY <1>3
  <2>2. i - 1 < j - 1
    OBVIOUS
  <2> QED BY <1>2, <2>1, <2>2 DEF Nesting
<1> QED BY <1>4, <1>5, <1>6 DEF Nesting

LEMMA InitNests == EthInit => Nesting
<1> SUFFICES ASSUME EthInit PROVE Nesting
  OBVIOUS
<1>1. \A i \in 1 .. Len(ui) : ui[i] \in Nests => i = 1
  BY FirstSlots DEF Nests
<1>2. EmuPauseStack = 0
  BY DEF EthInit
<1> QED BY <1>1, <1>2 DEF Nesting

LEMMA CallNests == PauseInv /\ Nesting /\ Call => Nesting'
<1> SUFFICES ASSUME PauseInv, Nesting, Call PROVE Nesting'
  OBVIOUS
<1>1. ui \in Seq(CallNames) /\ EmuPauseStack \in Nat /\ ui # <<>>
  BY DEF PauseInv, CallsInOrder, Call, Pause, Pausing, AwaitPause, Work, Unpause, Run, Step, Stop,
         Request, AwaitContext, NewPanel, EmuStop, Join, Calls
<1>2. CASE Pause
  <2>1. Calls("pause") /\ EmuPauseStack' = EmuPauseStack + 1
        /\ (ui' = Tail(ui) \/ ui' = <<"pausing", "awaitPause">> \o Tail(ui))
    BY <1>2 DEF Pause, Return, Then
  <2> QED BY <1>1, <2>1, ReturnNests, PauseNests DEF Calls
<1>3. CASE Pausing \/ AwaitPause \/ Work \/ Unpause \/ Run \/ Step \/ AwaitContext
  <2>1. ui' = Tail(ui) /\ EmuPauseStack' \in Nat /\ EmuPauseStack' <= EmuPauseStack
    BY <1>1, <1>3 DEF Pausing, AwaitPause, Work, Unpause, Run, Step, AwaitContext, Return, Lowered, pauses
  <2> QED BY <1>1, <2>1, ReturnNests
<1>4. CASE Stop \/ Request("deinit", "DeInitGL") \/ Request("init", "InitGL") \/ EmuStop \/ Join
  <2>1. EmuPauseStack' \in Nat /\ EmuPauseStack' <= EmuPauseStack
    BY <1>1, <1>4 DEF Stop, Request, EmuStop, Join, pauses
  <2>2. \/ Head(ui) = "stop" /\ ui' = <<"pause">> \o Tail(ui)
        \/ ui' = <<"awaitContext">> \o Tail(ui)
        \/ ui' = <<"join">> \o Tail(ui)
        \/ ui' = <<"end">> \o Tail(ui)
    BY <1>4 DEF Stop, Request, EmuStop, Join, Then, Calls
  <2>3. \A call \in {"pause", "awaitContext", "join", "end"} : call \in CallNames
    BY DEF CallNames, PlainCalls
  <2> QED BY <1>1, <2>1, <2>2, <2>3, ThenNests DEF Nests
<1>5. CASE NewPanel
  <2>1. /\ EmuPauseStack' = EmuPauseStack
        /\ ui' = <<"init">> \o Tail(ui) \/ ui' = <<>> \o Tail(ui)
    BY <1>5 DEF NewPanel, Then, pauses
  <2>2. Tail(ui) \in Seq(CallNames)
    BY <1>1
  <2>3. <<>> \o Tail(ui) = Tail(ui)
    BY <2>2, ConcatEmptySeq
  <2>4. "init" \in CallNames /\ "init" \notin Nests
    BY DEF CallNames, PlainCalls, Nests
  <2> QED BY <1>1, <2>1, <2>3, <2>4, ReturnNests, ThenNests
<1> QED BY <1>2, <1>3, <1>4, <1>5 DEF Call

\* A slot nests at most twice.
LEMMA UserNests == PauseInv /\ Nesting /\ User => Nesting'
<1> SUFFICES ASSUME PauseInv, Nesting, User PROVE Nesting'
  OBVIOUS
<1>1. EmuPauseStack' = EmuPauseStack /\ EmuPauseStack \in Nat /\ ui \in Seq(CallNames)
  BY UserCalls DEF PauseInv, CallsInOrder, pauses
<1>2. CASE Calls("pick") /\ ui' = Tail(ui)
  BY <1>1, <1>2, ReturnNests DEF Calls
<1>3. ASSUME EmuPauseStack < MaxStack, GoodSlot(ui') PROVE Nesting'
  <2>1. \A i \in 1 .. Len(ui') : ui'[i] \in Nests => i \in {1, 2}
    BY <1>3 DEF GoodSlot, NestsFirst
  <2> QED BY <1>1, <1>3, <2>1 DEF Nesting
<1>4. ASSUME EmuPauseStack < MaxStack, Calls("pick"), NEW s \in EventCalls, ui' = s \o ui
      PROVE  Nesting'
  BY <1>3, <1>4, EventOrder DEF PauseInv
<1>5. ASSUME EmuPauseStack < MaxStack, ui' \in SlotCalls PROVE Nesting'
  BY <1>3, <1>5, SlotsAreGood
<1> QED BY <1>2, <1>4, <1>5, UserCalls DEF SlotCalls, VideoCalls

LEMMA NextFieldTypes == PauseInv /\ FieldTypes /\ [EthNext]_ethvars => FieldTypes'
<1> SUFFICES ASSUME PauseInv, FieldTypes, [EthNext]_ethvars PROVE FieldTypes'
  OBVIOUS
<1>1. CASE UNCHANGED ethvars
  BY <1>1 DEF ethvars, emuvars, uivars, shared, pauses, FieldTypes
<1>2. CASE Start \/ Loop \/ Leave \/ Input \/ Check \/ Claim \/ ReadStep \/ WriteStep
  BY <1>2 DEF Start, Loop, Leave, Input, Check, Claim, ReadStep, WriteStep, Go, FieldTypes, Labels, Status, shared,
              pauses, uivars
<1>3. CASE Frame \/ PausedBranch
  BY <1>3 DEF Frame, PausedBranch, Reported, Go, FieldTypes, Labels, Status, pauses, uivars
<1>6. ASSUME NEW from, Turn(from) PROVE epc' \in Labels /\ inner' \in 0 .. MaxInner
  <2>1. inner \in Int /\ 0 <= inner /\ inner <= MaxInner /\ MaxInner \in Nat
    BY DEF FieldTypes
  <2>2. epc' \in {"input", "loop"} /\ inner' \in {inner - 1, 0} /\ (inner' = inner - 1 => inner > 0 \/ inner' = 0)
    BY <1>6 DEF Turn
  <2> QED BY <2>1, <2>2 DEF Labels
<1>7. CASE AfterFrame \/ ReadRequest
  <2>1. UNCHANGED <<screenGL, uivars, shared, pauses>>
    BY <1>7 DEF AfterFrame, ReadRequest
  <2>2. epc' \in Labels /\ inner' \in 0 .. MaxInner
    BY <1>6, <1>7 DEF AfterFrame, ReadRequest, Go, Labels, FieldTypes
  <2> QED BY <2>1, <2>2 DEF FieldTypes, shared, pauses, uivars
<1>8. CASE ServeRequest
  <2>1. epc' \in Labels /\ inner' \in 0 .. MaxInner
    BY <1>6, <1>8 DEF ServeRequest
  <2>2. screenGL' \in BOOLEAN /\ ContextRequest' = "None"
        /\ UNCHANGED <<uivars, EmuStatus, EmuRunning, RunningSomething, stopSignal, pauses>>
    BY <1>8 DEF ServeRequest
  <2> QED BY <2>1, <2>2 DEF FieldTypes, pauses, uivars
<1>4. CASE Call
  BY <1>4 DEF Call, Pause, Pausing, AwaitPause, Work, Unpause, Run, Step, Stop, Request, AwaitContext,
              NewPanel, EmuStop, Join, FieldTypes, Status, emuvars, shared, pauses, window
<1>5. CASE User
  <2>1. UNCHANGED others /\ UNCHANGED hasOGL
    BY <1>5 DEF User, UseConsole, UseFile, Boot, Pick, Reset, OpenDialog, CloseDialog, TogglePause, OnStop,
                OnEmuStop, FrameStep, LoseFocus, GainFocus, VideoSettings, Close, others, emuvars,
                shared, window
  <2>2. dialogs' \in 0 .. MaxDialogs
    <3>1. dialogs \in Int /\ 0 <= dialogs /\ dialogs <= MaxDialogs /\ MaxDialogs \in Nat
      BY DEF FieldTypes
    <3>2. \/ dialogs' = dialogs
          \/ dialogs < MaxDialogs /\ dialogs' = dialogs + 1
          \/ dialogs > 0 /\ dialogs' = dialogs - 1
      BY <1>5 DEF User, UseConsole, UseFile, Boot, Pick, Reset, OpenDialog, CloseDialog, TogglePause,
                  OnStop, OnEmuStop, FrameStep, LoseFocus, GainFocus, VideoSettings, Close, window
    <3> QED BY <3>1, <3>2
  <2>3. stopSignal' \in BOOLEAN
    BY <1>5 DEF User, UseConsole, UseFile, Boot, Pick, Reset, OpenDialog, CloseDialog, TogglePause, OnStop,
                OnEmuStop, FrameStep, LoseFocus, GainFocus, VideoSettings, Close, FieldTypes, shared
  <2>4. pauseChecked' \in BOOLEAN /\ pausedManually' \in BOOLEAN
    <3>1. \/ UNCHANGED <<pauseChecked, pausedManually>>
          \/ \E calls : Trigger(calls)
      BY <1>5 DEF User, UseConsole, UseFile, Boot, Pick, Reset, OpenDialog, CloseDialog, TogglePause,
                  OnStop, OnEmuStop, FrameStep, LoseFocus, GainFocus, VideoSettings, Close, window
    <3> QED BY <3>1 DEF Trigger, FieldTypes
  <2> QED BY <2>1, <2>2, <2>3, <2>4 DEF others, emuvars, pauses, FieldTypes
<1> QED BY <1>1, <1>2, <1>3, <1>4, <1>5, <1>7, <1>8 DEF EthNext, Emu

\* The fields the two threads share keep their types, among them the count of nested
\* pauses, which emuUnpause never lowers past zero (EmuThread.cpp).
THEOREM ThreadTypes == EthSpec => []EthTypeOK
<1>1. EthInit => FieldTypes
  <2>1. 0 \in 0 .. MaxInner /\ 0 \in 0 .. MaxDialogs
    OBVIOUS
  <2> QED BY <2>1 DEF EthInit, FieldTypes, Labels, Status
<1>2. PauseInv /\ Nesting /\ [EthNext]_ethvars => Nesting'
  <2>1. Nesting /\ UNCHANGED <<ui, EmuPauseStack>> => Nesting'
    BY DEF Nesting
  <2>2. Emu \/ UNCHANGED ethvars => UNCHANGED <<ui, EmuPauseStack>>
    BY DEF Emu, Start, Loop, Leave, Input, Check, Claim, ReadStep, WriteStep, Frame, AfterFrame, PausedBranch,
           ReadRequest, ServeRequest, ethvars, uivars, pauses
  <2> QED BY <2>1, <2>2, CallNests, UserNests DEF EthNext
<1>3. FieldTypes /\ Nesting => EthTypeOK
  BY DEF FieldTypes, Nesting, EthTypeOK
<1> QED BY <1>1, <1>2, <1>3, InitNests, NextFieldTypes, SpecPauseInv, PTL DEF EthSpec
=============================================================================
