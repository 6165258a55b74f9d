--------------------------- MODULE GatewayProofs ---------------------------
(***************************************************************************)
(* Theorems about Gateway, for every set of request threads, every set of  *)
(* requests and every assembly: the command lock of an axis is exclusive   *)
(* and always given back, the drive of FV3 is as the request has left it   *)
(* when the daemon is told, and a table runs in profile position.          *)
(*                                                                         *)
(* The argument follows the list of steps of a request.  What a thread has *)
(* still to do is the end of the list, and the steps that are done have    *)
(* established something: the one that takes the lock that the thread has  *)
(* it, the one that writes the drive what the drive is in.  Only a thread  *)
(* that has the lock of FV3 takes a step that disturbs this.               *)
(***************************************************************************)
EXTENDS Gateway, TLAPS, SequenceTheorems

StepNames == {"answer", "guard", "stop", "clear", "wait", "profile", "drive",
              "send", "reserve", "ready", "release", "launch", "start"}

\* The steps that take the lock, those that need it, and those before it.
Claims   == {"guard", "stop", "launch"}
Guarded  == {"wait", "profile", "drive", "send", "start"}
Unlocked == {"answer", "guard", "stop", "clear", "reserve", "ready", "launch"}

-----------------------------------------------------------------------------
(* The list of steps of a request.                                         *)

\* u is s with x after it, if c.
Extends(u, s, c, x) ==
    /\ u \in Seq(StepNames) /\ Len(u) \in Nat
    /\ Len(u) = Len(s) + (IF c THEN 1 ELSE 0)
    /\ \A i \in 1..Len(s) : u[i] = s[i]
    /\ c => u[Len(u)] = x

\* What is appended to a list comes after what was in it.
LEMMA Appended ==
    ASSUME NEW s \in Seq(StepNames), NEW c \in BOOLEAN, NEW x \in StepNames
    PROVE  Extends(s \o If(c, x), s, c, x)
  <1>1. Len(s) \in Nat
    BY LenProperties
  <1>2. CASE c
    <2>1. If(c, x) = <<x>>
      BY <1>2 DEF If
    <2> DEFINE u == s \o <<x>>
    <2>2. /\ u \in Seq(StepNames) /\ Len(u) = Len(s) + 1 /\ u[Len(s) + 1] = x
          /\ \A i \in 1..Len(s) : u[i] = s[i]
      OBVIOUS
    <2> HIDE DEF u
    <2>3. Extends(u, s, c, x)
      BY <1>1, <1>2, <2>2 DEF Extends
    <2> QED
      BY <2>1, <2>3 DEF u
  <1>3. CASE ~c
    <2>1. s \o If(c, x) = s
      BY <1>3, ConcatEmptySeq DEF If
    <2>2. Extends(s, s, c, x)
      BY <1>1, <1>3 DEF Extends
    <2> QED
      BY <2>1, <2>2
  <1> QED
    BY <1>2, <1>3

\* The list of a guarded command, with the optional steps w, p and d.
GuardedList(w, p, d) ==
    <<"guard">> \o If(w, "wait") \o If(p, "profile") \o If(d, "drive") \o <<"send">>

ListOf(S, w, p, d) ==
    /\ S \in Seq(StepNames) /\ Len(S) \in Nat /\ Len(S) > 1
    /\ S[1] = "guard" /\ S[Len(S)] = "send"
    /\ \A i \in 2..(Len(S) - 1) :
          \/ S[i] = "wait"
          \/ p /\ S[i] = "profile"
          \/ d /\ S[i] = "drive"
    /\ p => \E i \in 2..(Len(S) - 1) : S[i] = "profile"
    /\ d => \E i \in 2..(Len(S) - 1) : S[i] = "drive"

\* The step list of a guarded command, whichever of its optional steps it has.
LEMMA GuardedSteps ==
    ASSUME NEW w \in BOOLEAN, NEW p \in BOOLEAN, NEW d \in BOOLEAN
    PROVE  ListOf(GuardedList(w, p, d), w, p, d)
  <1> DEFINE s0 == <<"guard">>
             s1 == s0 \o If(w, "wait")
             s2 == s1 \o If(p, "profile")
             s3 == s2 \o If(d, "drive")
             s4 == s3 \o If(TRUE, "send")
  <1>1. s0 \in Seq(StepNames) /\ Len(s0) = 1 /\ s0[1] = "guard"
    BY DEF StepNames
  <1>2. /\ "wait" \in StepNames /\ "profile" \in StepNames
        /\ "drive" \in StepNames /\ "send" \in StepNames
    BY DEF StepNames
  <1>3. GuardedList(w, p, d) = s4
    BY DEF If, GuardedList
  <1>4. Extends(s1, s0, w, "wait")
    BY <1>1, <1>2, Appended
  <1> HIDE DEF s0, s1
  <1>5. s1 \in Seq(StepNames)
    BY <1>4 DEF Extends
  <1>6. Extends(s2, s1, p, "profile")
    BY <1>2, <1>5, Appended
  <1> HIDE DEF s2
  <1>7. s2 \in Seq(StepNames)
    BY <1>6 DEF Extends
  <1>8. Extends(s3, s2, d, "drive")
    BY <1>2, <1>7, Appended
  <1> HIDE DEF s3
  <1>9. s3 \in Seq(StepNames)
    BY <1>8 DEF Extends
  <1>10. Extends(s4, s3, TRUE, "send")
    BY <1>2, <1>9, Appended
  <1> HIDE DEF s4
  <1>11. /\ Len(s1) \in Nat /\ Len(s1) >= 1 /\ s1[1] = "guard"
         /\ \A i \in 2..Len(s1) : s1[i] = "wait"
    BY <1>1, <1>4 DEF Extends
  <1>12. /\ Len(s2) \in Nat /\ Len(s2) >= 1 /\ s2[1] = "guard"
         /\ \A i \in 2..Len(s2) :
               \/ s2[i] = "wait"
               \/ p /\ s2[i] = "profile"
         /\ p => Len(s2) >= 2 /\ s2[Len(s2)] = "profile"
    <2>1. Len(s2) = Len(s1) + (IF p THEN 1 ELSE 0) /\ Len(s2) \in Nat
      BY <1>6 DEF Extends
    <2>2. \A i \in 1..Len(s1) : s2[i] = s1[i]
      BY <1>6 DEF Extends
    <2>3. p => s2[Len(s2)] = "profile"
      BY <1>6 DEF Extends
    <2>4. \A i \in 2..Len(s2) : i \in 2..Len(s1) \/ (p /\ i = Len(s2))
      BY <1>11, <2>1
    <2>5. \A i \in 2..Len(s2) :
              \/ s2[i] = "wait"
              \/ p /\ s2[i] = "profile"
      BY <1>11, <2>2, <2>3, <2>4
    <2>6. Len(s2) >= 1 /\ s2[1] = "guard"
      BY <1>11, <2>1, <2>2
    <2>7. p => Len(s2) >= 2 /\ s2[Len(s2)] = "profile"
      BY <1>11, <2>1, <2>3
    <2> QED
      BY <2>1, <2>5, <2>6, <2>7
  <1>13. /\ Len(s3) \in Nat /\ Len(s3) >= 1 /\ s3[1] = "guard"
         /\ \A i \in 2..Len(s3) :
               \/ s3[i] = "wait"
               \/ p /\ s3[i] = "profile"
               \/ d /\ s3[i] = "drive"
         /\ p => Len(s2) \in 2..Len(s3) /\ s3[Len(s2)] = "profile"
         /\ d => Len(s3) >= 2 /\ s3[Len(s3)] = "drive"
    <2>1. Len(s3) = Len(s2) + (IF d THEN 1 ELSE 0) /\ Len(s3) \in Nat
      BY <1>8 DEF Extends
    <2>2. \A i \in 1..Len(s2) : s3[i] = s2[i]
      BY <1>8 DEF Extends
    <2>3. d => s3[Len(s3)] = "drive"
      BY <1>8 DEF Extends
    <2>4. \A i \in 2..Len(s3) : i \in 2..Len(s2) \/ (d /\ i = Len(s3))
      BY <1>12, <2>1
    <2>5. \A i \in 2..Len(s3) :
              \/ s3[i] = "wait"
              \/ p /\ s3[i] = "profile"
              \/ d /\ s3[i] = "drive"
      BY <1>12, <2>2, <2>3, <2>4
    <2>6. Len(s3) >= 1 /\ s3[1] = "guard"
      BY <1>12, <2>1, <2>2
    <2>7. p => Len(s2) \in 2..Len(s3) /\ s3[Len(s2)] = "profile"
      BY <1>12, <2>1, <2>2
    <2>8. d => Len(s3) >= 2 /\ s3[Len(s3)] = "drive"
      BY <1>12, <2>1, <2>3
    <2> QED
      BY <2>1, <2>5, <2>6, <2>7, <2>8
  <1>14. /\ s4 \in Seq(StepNames) /\ Len(s4) \in Nat /\ Len(s4) = Len(s3) + 1
         /\ s4[Len(s4)] = "send"
         /\ \A i \in 1..Len(s3) : s4[i] = s3[i]
    BY <1>10 DEF Extends
  <1>15. /\ Len(s4) > 1 /\ s4[1] = "guard"
         /\ \A i \in 2..(Len(s4) - 1) :
               \/ s4[i] = "wait"
               \/ p /\ s4[i] = "profile"
               \/ d /\ s4[i] = "drive"
    BY <1>13, <1>14
  <1>16. /\ p => \E i \in 2..(Len(s4) - 1) : s4[i] = "profile"
         /\ d => \E i \in 2..(Len(s4) - 1) : s4[i] = "drive"
    BY <1>13, <1>14
  <1>17. ListOf(s4, w, p, d)
    BY <1>14, <1>15, <1>16 DEF ListOf
  <1> QED
    BY <1>3, <1>17

\* What the list of a request is like: the steps under the lock come after
\* the one that takes it; the drive is written for FV3 only, and before the
\* daemon is told.
Special == {"point_table_run", "point_table_clear", "stop", "point_table_stop"}
Silent  == {"none", "status", "point_table_status", "point_table_write"} \cup SwayCommands

WellPlanned(q, S) ==
    /\ S \in Seq(StepNames) /\ Len(S) \in Nat /\ Len(S) >= 1
    /\ \A j \in 1..Len(S) : S[j] \in Guarded => \E i \in 1..(j - 1) : S[i] \in Claims
    /\ \A j \in 1..Len(S) : S[j] \in Unlocked => \A i \in 1..(j - 1) : S[i] \notin Claims
    /\ \A j \in 1..Len(S) : S[j] \in {"profile", "drive"} => q.dev = "fv3"
    /\ \A j \in 1..Len(S) : S[j] # "answer" => q.cmd \notin Silent
    /\ \A j \in 1..Len(S) : S[j] # "release"
    /\ \A j \in 1..Len(S) : S[j] \in {"reserve", "ready", "launch", "start"}
                              => q.cmd = "point_table_run"
    /\ \A j \in 1..(Len(S) - 1) : \/ S[j] \notin {"answer", "clear", "send", "start"}
                                  \/ S[j] = "send" /\ q.cmd = "point_table_run"
    /\ \/ S[Len(S)] \in {"answer", "clear", "start"}
       \/ S[Len(S)] = "send" /\ q.cmd # "point_table_run"
    /\ \A j \in 1..Len(S) :
          (S[j] \in {"send", "start"} /\ q.dev = "fv3" /\ q.cmd = "point_table_run")
             => \E i \in 1..(j - 1) : S[i] = "drive"
    /\ \A j \in 1..Len(S) :
          (S[j] = "send" /\ q.dev = "fv3" /\ q.cmd \notin Special) =>
             /\ DriveMode(q.key, q.cmd, q.mode) # {} => \E i \in 1..(j - 1) : S[i] = "drive"
             /\ WritesProfile(q.key, q.cmd) => \E i \in 1..(j - 1) : S[i] = "profile"

\* The lists of a read, a clear and a stop.
LEMMA ShortLists ==
    ASSUME NEW q
    PROVE  /\ q.cmd \in Silent => WellPlanned(q, <<"answer">>)
           /\ q.cmd = "point_table_clear" => WellPlanned(q, <<"clear">>)
           /\ q.cmd \in {"stop", "point_table_stop"} => WellPlanned(q, <<"stop", "send">>)
  <1>1. ASSUME NEW S, S \in Seq(StepNames), Len(S) = 1, S[1] \in {"answer", "clear"},
               S[1] # "answer" => q.cmd \notin Silent
        PROVE  WellPlanned(q, S)
    BY <1>1 DEF WellPlanned, Guarded, Claims
  <1>2. ASSUME NEW S, S \in Seq(StepNames), Len(S) = 2, S[1] = "stop", S[2] = "send",
               q.cmd \in {"stop", "point_table_stop"}
        PROVE  WellPlanned(q, S)
    BY <1>2 DEF WellPlanned, Guarded, Claims, Unlocked, Special, Silent, SwayCommands
  <1>3. /\ <<"answer">> \in Seq(StepNames) /\ Len(<<"answer">>) = 1 /\ <<"answer">>[1] = "answer"
        /\ <<"clear">> \in Seq(StepNames) /\ Len(<<"clear">>) = 1 /\ <<"clear">>[1] = "clear"
    BY DEF StepNames
  <1>4. /\ <<"stop", "send">> \in Seq(StepNames) /\ Len(<<"stop", "send">>) = 2
        /\ <<"stop", "send">>[1] = "stop" /\ <<"stop", "send">>[2] = "send"
    BY DEF StepNames
  <1>5. q.cmd \in Silent => WellPlanned(q, <<"answer">>)
    BY <1>1, <1>3
  <1>6. q.cmd = "point_table_clear" => q.cmd \notin Silent
    BY DEF Silent, SwayCommands
  <1>7. q.cmd = "point_table_clear" => WellPlanned(q, <<"clear">>)
    BY <1>1, <1>3, <1>6
  <1>8. q.cmd \in {"stop", "point_table_stop"} => WellPlanned(q, <<"stop", "send">>)
    BY <1>2, <1>4
  <1> QED
    BY <1>5, <1>7, <1>8

\* A list with the steps of a table run in their order, with the drive for fv3.
LEMMA TableShape ==
    ASSUME NEW q, q.cmd = "point_table_run", NEW S, S \in Seq(StepNames),
           NEW n \in 5..6, Len(S) = n, q.dev = "fv3" <=> n = 6,
           S[1] = "reserve", S[2] = "ready", S[3] = "launch",
           n = 6 => S[4] = "drive", S[n - 1] = "send", S[n] = "start"
    PROVE  WellPlanned(q, S)
  <1>0. q.cmd \notin Silent /\ q.cmd \in Special
    BY DEF Silent, SwayCommands, Special
  <1>1. ASSUME NEW j \in 1..n
        PROVE  /\ S[j] \in Guarded => j > 3
               /\ S[j] \in Unlocked => j < 4
               /\ S[j] \in {"send", "start"} => j > n - 2
               /\ S[j] \notin {"answer", "clear", "release"}
               /\ S[j] \in {"profile", "drive"} => q.dev = "fv3"
               /\ j # n => S[j] # "start"
    <2>1. j = 1 \/ j = 2 \/ j = 3 \/ (n = 6 /\ j = 4) \/ j = n - 1 \/ j = n
      OBVIOUS
    <2> QED
      BY <2>1 DEF Guarded, Unlocked
  <1>2. S[1] \notin Claims /\ S[2] \notin Claims /\ S[3] \in Claims
    BY DEF Claims
  <1>3. ASSUME NEW j \in 1..n, S[j] \in Guarded
        PROVE  \E i \in 1..(j - 1) : S[i] \in Claims
    <2>1. 3 \in 1..(j - 1)
      BY <1>1, <1>3
    <2> QED
      BY <1>2, <2>1
  <1>4. ASSUME NEW j \in 1..n, S[j] \in Unlocked, NEW i \in 1..(j - 1)
        PROVE  S[i] \notin Claims
    <2>1. i = 1 \/ i = 2
      BY <1>1, <1>4
    <2> QED
      BY <1>2, <2>1
  <1>5. ASSUME NEW j \in 1..n, S[j] \in {"send", "start"}, q.dev = "fv3"
        PROVE  \E i \in 1..(j - 1) : S[i] = "drive"
    <2>1. 4 \in 1..(j - 1) /\ S[4] = "drive"
      BY <1>1, <1>5
    <2> QED
      BY <2>1
  <1>6. \A j \in 1..(n - 1) : \/ S[j] \notin {"answer", "clear", "send", "start"}
                             \/ S[j] = "send"
    BY <1>1
  <1>7. Len(S) \in Nat /\ Len(S) >= 1 /\ S[Len(S)] = "start"
    OBVIOUS
  <1> QED
    BY <1>0, <1>1, <1>3, <1>4, <1>5, <1>6, <1>7 DEF WellPlanned

\* The list of a table run is such a list.
LEMMA TableLists ==
    ASSUME NEW q, q.cmd = "point_table_run"
    PROVE  WellPlanned(q, <<"reserve", "ready", "launch">>
                            \o If(q.dev = "fv3", "drive") \o <<"send", "start">>)
  <1> DEFINE S == <<"reserve", "ready", "launch">> \o If(q.dev = "fv3", "drive")
                    \o <<"send", "start">>
  <1>1. CASE q.dev = "fv3"
    <2>1. S \in Seq(StepNames) /\ Len(S) = 6
      BY <1>1 DEF If, StepNames
    <2>2. /\ S[1] = "reserve" /\ S[2] = "ready" /\ S[3] = "launch"
          /\ S[4] = "drive" /\ S[5] = "send" /\ S[6] = "start"
      BY <1>1 DEF If
    <2> HIDE DEF S
    <2>3. WellPlanned(q, S)
      BY <1>1, <2>1, <2>2, TableShape
    <2> QED
      BY <2>3 DEF S
  <1>2. CASE q.dev # "fv3"
    <2>1. S \in Seq(StepNames) /\ Len(S) = 5
      BY <1>2 DEF If, StepNames
    <2>2. /\ S[1] = "reserve" /\ S[2] = "ready" /\ S[3] = "launch"
          /\ S[4] = "send" /\ S[5] = "start"
      BY <1>2 DEF If
    <2> HIDE DEF S
    <2>3. WellPlanned(q, S)
      BY <1>2, <2>1, <2>2, TableShape
    <2> QED
      BY <2>3 DEF S
  <1> QED
    BY <1>1, <1>2

\* The list of any other command is one of a guarded command.
LEMMA GuardedLists ==
    ASSUME NEW q, q.cmd \notin Silent, q.cmd \notin Special
    PROVE  WellPlanned(q,
              <<"guard">>
                \o If(WaitsForReady(q.key, q.cmd), "wait")
                \o If(q.dev = "fv3" /\ WritesProfile(q.key, q.cmd), "profile")
                \o If(q.dev = "fv3" /\ DriveMode(q.key, q.cmd, q.mode) # {}, "drive")
                \o <<"send">>)
  <1> DEFINE w == WaitsForReady(q.key, q.cmd)
             p == q.dev = "fv3" /\ WritesProfile(q.key, q.cmd)
             d == q.dev = "fv3" /\ DriveMode(q.key, q.cmd, q.mode) # {}
             S == GuardedList(w, p, d)
  <1>1. w \in BOOLEAN /\ p \in BOOLEAN /\ d \in BOOLEAN
    BY DEF WaitsForReady
  <1>2. /\ q.dev = "fv3" /\ DriveMode(q.key, q.cmd, q.mode) # {} => d
        /\ q.dev = "fv3" /\ WritesProfile(q.key, q.cmd) => p
        /\ (p \/ d) => q.dev = "fv3"
    OBVIOUS
  <1> HIDE DEF w, p, d
  <1>3. ListOf(S, w, p, d)
    BY <1>1, GuardedSteps
  <1> HIDE DEF S
  <1>4. /\ S \in Seq(StepNames) /\ Len(S) \in Nat /\ Len(S) > 1
        /\ S[1] = "guard" /\ S[Len(S)] = "send"
        /\ \A i \in 2..(Len(S) - 1) :
              \/ S[i] = "wait"
              \/ p /\ S[i] = "profile"
              \/ d /\ S[i] = "drive"
        /\ p => \E i \in 2..(Len(S) - 1) : S[i] = "profile"
        /\ d => \E i \in 2..(Len(S) - 1) : S[i] = "drive"
    BY <1>3 DEF ListOf
  <1>5. ASSUME NEW j \in 1..Len(S)
        PROVE  /\ j = 1 => S[j] = "guard"
               /\ j # 1 => S[j] \in Guarded
               /\ S[j] = "send" => j = Len(S)
               /\ S[j] \in {"profile", "drive"} => q.dev = "fv3"
               /\ S[j] \in {"guard", "wait", "profile", "drive", "send"}
    <2>1. j = 1 \/ j = Len(S) \/ j \in 2..(Len(S) - 1)
      BY <1>4
    <2>2. CASE j = 1
      BY <1>4, <2>2
    <2>3. CASE j = Len(S)
      BY <1>4, <2>3 DEF Guarded
    <2>4. CASE j \in 2..(Len(S) - 1)
      BY <1>2, <1>4, <2>4 DEF Guarded
    <2> QED
      BY <2>1, <2>2, <2>3, <2>4
  <1>6. "guard" \in Claims /\ "guard" \notin Guarded
    BY DEF Claims, Guarded
  <1>7. ASSUME NEW j \in 1..Len(S), S[j] \in Guarded
        PROVE  \E i \in 1..(j - 1) : S[i] \in Claims
    <2>1. 1 \in 1..(j - 1)
      BY <1>4, <1>6, <1>7
    <2> QED
      BY <1>4, <1>6, <2>1
  <1>8. ASSUME NEW j \in 1..Len(S), S[j] \in Unlocked, NEW i \in 1..(j - 1)
        PROVE  S[i] \notin Claims
    <2>1. j = 1
      BY <1>5, <1>8 DEF Unlocked, Guarded
    <2> QED
      BY <2>1
  <1>9. ASSUME NEW j \in 1..Len(S), S[j] = "send", q.dev = "fv3"
        PROVE  /\ DriveMode(q.key, q.cmd, q.mode) # {} => \E i \in 1..(j - 1) : S[i] = "drive"
               /\ WritesProfile(q.key, q.cmd) => \E i \in 1..(j - 1) : S[i] = "profile"
    BY <1>2, <1>4, <1>5, <1>9
  <1>10. \A j \in 1..(Len(S) - 1) : S[j] \notin {"answer", "clear", "send", "start"}
    BY <1>4, <1>5
  <1>11. q.cmd # "point_table_run"
    BY DEF Special
  <1>12. \A j \in 1..Len(S) :
            /\ S[j] \notin {"release", "reserve", "ready", "launch", "start"}
            /\ S[j] \in {"profile", "drive"} => q.dev = "fv3"
    BY <1>5
  <1>13. /\ Len(S) \in Nat /\ Len(S) >= 1 /\ S \in Seq(StepNames)
         /\ S[Len(S)] = "send" /\ q.cmd # "point_table_run" /\ q.cmd \notin Silent
    BY <1>4, <1>11
  <1>14. WellPlanned(q, S)
    BY <1>7, <1>8, <1>9, <1>10, <1>12, <1>13 DEF WellPlanned
  <1> QED
    BY <1>14 DEF S, w, p, d, GuardedList

\* Every request has such a list.
LEMMA StepsWellPlanned == ASSUME NEW q PROVE WellPlanned(q, Steps(q))
  <1>1. CASE q.cmd \in Silent
    <2>1. Steps(q) = <<"answer">>
      BY <1>1 DEF Steps, Silent, SwayCommands
    <2> QED
      BY <1>1, <2>1, ShortLists
  <1>2. CASE q.cmd = "point_table_run"
    <2>1. Steps(q) = <<"reserve", "ready", "launch">> \o If(q.dev = "fv3", "drive")
                       \o <<"send", "start">>
      BY <1>2 DEF Steps, SwayCommands
    <2> QED
      BY <1>2, <2>1, TableLists
  <1>3. CASE q.cmd = "point_table_clear"
    <2>1. Steps(q) = <<"clear">>
      BY <1>3 DEF Steps, SwayCommands
    <2> QED
      BY <1>3, <2>1, ShortLists
  <1>4. CASE q.cmd \in {"stop", "point_table_stop"}
    <2>1. Steps(q) = <<"stop", "send">>
      BY <1>4 DEF Steps, SwayCommands
    <2> QED
      BY <1>4, <2>1, ShortLists
  <1>5. CASE q.cmd \notin Silent /\ q.cmd \notin Special
    <2>1. Steps(q) =
              <<"guard">>
                \o If(WaitsForReady(q.key, q.cmd), "wait")
                \o If(q.dev = "fv3" /\ WritesProfile(q.key, q.cmd), "profile")
                \o If(q.dev = "fv3" /\ DriveMode(q.key, q.cmd, q.mode) # {}, "drive")
                \o <<"send">>
      BY <1>5 DEF Steps, Silent, Special
    <2> QED
      BY <1>5, <2>1, GuardedLists
  <1> QED
    BY <1>1, <1>2, <1>3, <1>4, <1>5 DEF Special

-----------------------------------------------------------------------------
(* A thread on its way through the list.                                   *)

\* The requests a server of this assembly may have taken.
Known(a) == Outcomes[a] \cup {NoRequest}

\* How many steps of its request a thread has done.
Gone(x) == Len(Steps(x.req)) - Len(x.todo)

\* What a thread has still to do is the end of the list of its request.
Follows(x) ==
    /\ x.todo \in Seq(StepNames) /\ Len(x.todo) \in Nat
    /\ Gone(x) \in Nat
    /\ \A i \in 1..Len(x.todo) : x.todo[i] = Steps(x.req)[Gone(x) + i]

\* It has taken the lock.
HasClaimed(x) == \E i \in 1..Gone(x) : Steps(x.req)[i] \in Claims

\* What thread t has given of the drive's profile is its own in r.
Own(x, t, r) == \A g \in Registers : g \in x.req.gives => r[g] = t

\* What the steps that are done have left: the lock l of the axis is held by
\* thread t, the drive is in mode m and has in r the profile of t.
Kept(x, t, l, m, r) ==
    \A i \in 1..Gone(x) :
       /\ Steps(x.req)[i] \in Claims => l[x.req.dev] = t
       /\ Steps(x.req)[i] = "drive" => m = CodeFor(x.req)
       /\ Steps(x.req)[i] = "profile" => Own(x, t, r)

\* The reservation of a table is being given up.
Releasing(x) == x.todo = <<"release">>

\* A command that does something names an axis.
LEMMA KnownDevice ==
    ASSUME NEW a \in Assemblies, NEW q \in Known(a), q.cmd \notin Silent
    PROVE  q.dev \in Axes
  <1>1. PICK r \in Requests : q = Outcome(r, Servers[a])
    BY DEF Known, Outcomes, NoRequest, Silent
  <1> DEFINE s == Servers[a]
             p == r.p
             dev == NormalDevice(Get(p, "device", "mctivity"), s.capabilities)
             no == Refusal(r, s)
  <1>2. no = "none" /\ q.dev = dev /\ q.cmd = p["cmd"]
    BY <1>1 DEF Outcome, NoRequest, Silent
  <1>3. dev \in {"mctivity", "fv3", "aux_encoder", "none"}
    BY DEF NormalDevice
  <1>4. p["cmd"] # "status"
    BY <1>2 DEF Silent
  <1>5. dev # "none" /\ dev # "aux_encoder"
    BY <1>2, <1>4 DEF Refusal
  <1> QED
    BY <1>2, <1>3, <1>5 DEF Axes

\* The next step of a thread, as an element of the list.
LEMMA NextStep ==
    ASSUME NEW x, Follows(x), x.todo # <<>>
    PROVE  /\ Gone(x) + 1 \in 1..Len(Steps(x.req))
           /\ Steps(x.req)[Gone(x) + 1] = Head(x.todo)
           /\ Len(x.todo) >= 1
  <1> DEFINE n == Len(Steps(x.req))
             k == Len(x.todo)
  <1>1. n \in Nat
    BY StepsWellPlanned DEF WellPlanned
  <1>2. k \in Nat /\ k >= 1 /\ Head(x.todo) = x.todo[1]
    BY EmptySeq, LenProperties DEF Follows
  <1>3. n - k \in Nat /\ \A i \in 1..k : x.todo[i] = Steps(x.req)[n - k + i]
    BY DEF Follows, Gone
  <1> HIDE DEF n, k
  <1>4. n - k + 1 \in 1..n
    BY <1>1, <1>2, <1>3
  <1>5. Steps(x.req)[n - k + 1] = x.todo[1]
    BY <1>2, <1>3
  <1> QED
    BY <1>2, <1>4, <1>5 DEF Gone, n, k

\* What the step a thread is at says about its request and its locks.
LEMMA StepFacts ==
    ASSUME NEW x, Follows(x), x.todo # <<>>, NEW s, s = Head(x.todo)
    PROVE  /\ s \in Guarded => HasClaimed(x)
           /\ s \in Unlocked => ~HasClaimed(x)
           /\ s \in {"profile", "drive"} => x.req.dev = "fv3"
           /\ s # "answer" => x.req.cmd \notin Silent
           /\ s # "release"
           /\ s \in {"reserve", "ready", "launch", "start"}
                => x.req.cmd = "point_table_run"
  <1> DEFINE S == Steps(x.req)
             j == Gone(x) + 1
  <1>1. j \in 1..Len(S) /\ S[j] = s /\ Gone(x) \in Nat
    BY NextStep DEF Follows
  <1>2. 1..(j - 1) = 1..Gone(x)
    BY <1>1
  <1>3. WellPlanned(x.req, S)
    BY StepsWellPlanned
  <1>4. HasClaimed(x) <=> \E i \in 1..(j - 1) : S[i] \in Claims
    BY <1>2 DEF HasClaimed
  <1> HIDE DEF S, j
  <1> QED
    BY <1>1, <1>3, <1>4 DEF WellPlanned

\* The step after which there is no other.
LEMMA LastStep ==
    ASSUME NEW x, Follows(x), x.todo # <<>>, NEW s, s = Head(x.todo),
           \/ s \notin {"answer", "clear", "send", "start"}
           \/ s = "send" /\ x.req.cmd = "point_table_run"
    PROVE  Tail(x.todo) # <<>>
  <1> DEFINE S == Steps(x.req)
             n == Len(S)
             k == Len(x.todo)
  <1>1. n \in Nat /\ k \in Nat /\ n - k \in Nat
    BY StepsWellPlanned DEF WellPlanned, Follows, Gone
  <1>2. n - k + 1 \in 1..n /\ S[n - k + 1] = s
    BY NextStep DEF Gone
  <1>3. \/ S[n] \in {"answer", "clear", "start"}
        \/ S[n] = "send" /\ x.req.cmd # "point_table_run"
    BY StepsWellPlanned DEF WellPlanned
  <1> HIDE DEF S, n, k
  <1>4. n - k + 1 # n
    BY <1>2, <1>3
  <1>5. k # 1
    BY <1>1, <1>4
  <1>6. Len(Tail(x.todo)) = Len(x.todo) - 1
    BY HeadTailProperties DEF Follows
  <1> DEFINE v == Tail(x.todo)
  <1>7. Len(v) # 0
    BY <1>1, <1>5, <1>6 DEF k
  <1> HIDE DEF v
  <1>8. v # <<>>
    BY <1>7
  <1> QED
    BY <1>8 DEF v

\* A thread that has made a step is at the next one of its list.
LEMMA Advancing ==
    ASSUME NEW x, Follows(x), x.todo # <<>>, NEW y,
           y.todo = Tail(x.todo), y.req = x.req
    PROVE  /\ Follows(y)
           /\ Gone(y) = Gone(x) + 1
           /\ Steps(y.req)[Gone(y)] = Head(x.todo)
  <1> DEFINE S == Steps(x.req)
             n == Len(S)
             k == Len(x.todo)
             u == x.todo
             v == Tail(x.todo)
  <1>1. n \in Nat /\ k \in Nat /\ n - k \in Nat /\ u \in Seq(StepNames)
    BY StepsWellPlanned DEF WellPlanned, Follows, Gone
  <1>2. /\ v \in Seq(StepNames) /\ Len(v) = k - 1
        /\ \A i \in 1..Len(v) : v[i] = u[i + 1]
    BY <1>1, HeadTailProperties
  <1>3. \A i \in 1..k : u[i] = S[n - k + i]
    BY DEF Follows, Gone
  <1>4. k >= 1 /\ S[n - k + 1] = Head(x.todo)
    BY NextStep DEF Gone
  <1> HIDE DEF S, n, k, u, v
  <1>5. /\ Len(v) \in Nat /\ n - Len(v) \in Nat
        /\ n - Len(v) = n - k + 1
    BY <1>1, <1>2, <1>4
  <1>6. ASSUME NEW i \in 1..Len(v)
        PROVE  v[i] = S[n - Len(v) + i]
    <2>1. i + 1 \in 1..k /\ n - k + (i + 1) = n - Len(v) + i
      BY <1>1, <1>2, <1>5
    <2> QED
      BY <1>2, <1>3, <2>1
  <1>7. /\ y.todo = v /\ y.req = x.req /\ Steps(y.req) = S
        /\ Gone(y) = n - Len(v) /\ Gone(x) = n - k
    BY DEF Gone, S, n, k, v
  <1>8. Follows(y)
    BY <1>2, <1>5, <1>6, <1>7 DEF Follows
  <1> QED
    BY <1>4, <1>5, <1>7, <1>8

\* A thread that begins is at the first step of its list.
LEMMA Starting ==
    ASSUME NEW q, NEW x, x.todo = Steps(q), x.req = q
    PROVE  Follows(x) /\ Gone(x) = 0
  <1>1. Steps(q) \in Seq(StepNames) /\ Len(Steps(q)) \in Nat
    BY StepsWellPlanned DEF WellPlanned
  <1>2. Gone(x) = 0
    BY <1>1 DEF Gone
  <1> QED
    BY <1>1, <1>2 DEF Follows

\* An idle thread follows a list of nothing and holds nothing.
LEMMA IdleFollows ==
    ASSUME NEW t, NEW l, NEW m, NEW r
    PROVE  /\ Follows(Idle) /\ ~HasClaimed(Idle) /\ ~Releasing(Idle)
           /\ Kept(Idle, t, l, m, r)
  <1>1. Steps(NoRequest) = <<"answer">>
    BY DEF Steps, NoRequest, SwayCommands
  <1>2. Gone(Idle) = 1 /\ Idle.todo = <<>> /\ Idle.req = NoRequest
    BY <1>1 DEF Gone, Idle
  <1>3. \A i \in 1..Gone(Idle) : Steps(Idle.req)[i] = "answer"
    BY <1>1, <1>2
  <1>4. "answer" \notin Claims
    BY DEF Claims
  <1>5. Follows(Idle)
    BY <1>2 DEF Follows
  <1>6. ~Releasing(Idle)
    BY <1>2 DEF Releasing
  <1> QED
    BY <1>3, <1>4, <1>5, <1>6 DEF HasClaimed, Kept

-----------------------------------------------------------------------------
(* The invariant.                                                          *)

Serving(x, t, l, m, r) == Releasing(x) \/ (Follows(x) /\ Kept(x, t, l, m, r))

\* Thread record x is in the section that the lock of axis d protects.
InHand(x, d) == x.req.dev = d /\ Follows(x) /\ HasClaimed(x) /\ x.todo # <<>>

ThreadRecord(a) == [todo : Seq(StepNames), req : Known(a)]
Locks == [Axes -> Threads \cup {None}]

\* The threads follow their lists, and a lock is held by a thread that is in
\* the section it protects.
Threaded ==
    /\ asm \in Assemblies
    /\ thread \in [Threads -> ThreadRecord(asm)]
    /\ lock \in Locks
    /\ \A t \in Threads : Serving(thread[t], t, lock, drive, rates)
    /\ \A d \in Axes : lock[d] # None => InHand(thread[lock[d]], d)

RunStates == {"free", "preparing", "running", "stopping", "unconfirmed"}

\* A table runs only while nobody has the lock, or is between two rows.
RunApart == lock["fv3"] # None => run["fv3"] # "running"

GatewayInv ==
    /\ Threaded
    /\ run \in [Axes -> RunStates]
    /\ RunApart
    /\ TableRunsInPp

\* The step that gives a failed start back is on no list.
LEMMA ReleasingIsApart ==
    ASSUME NEW x, Follows(x), x.todo # <<>>
    PROVE  ~Releasing(x) /\ Head(x.todo) # "release"
  <1>1. Head(x.todo) # "release"
    BY StepFacts
  <1>2. Head(<<"release">>) = "release"
    OBVIOUS
  <1> QED
    BY <1>1, <1>2 DEF Releasing

\* Whoever takes a step under the lock has it.
LEMMA HasLock ==
    ASSUME Threaded, NEW t \in Threads, NEW s \in Guarded, At(t, s)
    PROVE  /\ Follows(thread[t]) /\ Dev(t) \in Axes
           /\ lock[Dev(t)] = t /\ HasClaimed(thread[t])
  <1> DEFINE x == thread[t]
  <1>1. x.todo # <<>> /\ s = Head(x.todo)
    BY DEF At
  <1>2. ~Releasing(x)
    <2>1. s # "release"
      BY DEF Guarded
    <2> QED
      BY <1>1, <2>1 DEF Releasing
  <1>3. Follows(x) /\ Kept(x, t, lock, drive, rates)
    BY <1>2 DEF Threaded, Serving
  <1> HIDE DEF x
  <1>4. HasClaimed(x) /\ x.req.cmd \notin Silent
    <2>1. s # "answer"
      BY DEF Guarded
    <2> QED
      BY <1>1, <1>3, <2>1, StepFacts
  <1>5. lock[x.req.dev] = t
    BY <1>3, <1>4 DEF HasClaimed, Kept
  <1>6. x.req \in Known(asm) /\ asm \in Assemblies
    BY DEF Threaded, ThreadRecord, x
  <1>7. x.req.dev \in Axes
    BY <1>4, <1>6, KnownDevice
  <1> QED
    BY <1>3, <1>4, <1>5, <1>7 DEF x, Dev

\* A thread that is not between a guard and its end holds no lock.
LEMMA HasNoLock ==
    ASSUME Threaded, NEW t \in Threads,
           ~(Follows(thread[t]) /\ HasClaimed(thread[t]) /\ thread[t].todo # <<>>)
    PROVE  \A d \in Axes : lock[d] # t
  BY ThreadAssumption DEF Threaded, InHand

\* One thread takes a step: it takes a free lock or gives back its own, and
\* it touches the drive only under the lock of FV3.
LEMMA OneServes ==
    ASSUME Threaded, NEW t \in Threads, NEW y \in ThreadRecord(asm),
           asm' = asm, thread' = [thread EXCEPT ![t] = y], lock' \in Locks,
           \A d \in Axes : \/ lock'[d] = lock[d]
                           \/ lock[d] \in {t, None} /\ lock'[d] \in {t, None},
           Serving(y, t, lock', drive', rates'),
           \A d \in Axes : lock'[d] = t => InHand(y, d),
           \/ lock["fv3"] = t
           \/ drive' = drive /\ rates' = rates
    PROVE  Threaded'
  <1>1. asm' \in Assemblies /\ thread' \in [Threads -> ThreadRecord(asm')]
    BY DEF Threaded
  <1>2. thread'[t] = y /\ \A u \in Threads : u # t => thread'[u] = thread[u]
    BY DEF Threaded
  <1>3. ASSUME NEW u \in Threads
        PROVE  Serving(thread'[u], u, lock', drive', rates')
    <2>1. CASE u = t
      BY <1>2, <2>1
    <2>2. CASE u # t
      <3> DEFINE x == thread[u]
      <3>1. thread'[u] = x /\ x \in ThreadRecord(asm) /\ asm \in Assemblies
        BY <1>2, <2>2 DEF Threaded
      <3>2. Serving(x, u, lock, drive, rates)
        BY DEF Threaded
      <3> HIDE DEF x
      <3>3. CASE Releasing(x)
        BY <3>1, <3>3 DEF Serving
      <3>4. CASE ~Releasing(x)
        <4>1. Follows(x) /\ Kept(x, u, lock, drive, rates)
          BY <3>2, <3>4 DEF Serving
        <4> DEFINE S == Steps(x.req)
        <4>2. WellPlanned(x.req, S) /\ Gone(x) \in Nat /\ Gone(x) <= Len(S)
          <5>1. WellPlanned(x.req, S)
            BY StepsWellPlanned
          <5>2. Len(S) \in Nat
            BY <5>1 DEF WellPlanned
          <5>3. Len(x.todo) \in Nat /\ Gone(x) \in Nat
            BY <4>1 DEF Follows
          <5>4. Gone(x) = Len(S) - Len(x.todo)
            BY DEF Gone
          <5> HIDE DEF S
          <5>5. Gone(x) <= Len(S)
            BY <5>2, <5>3, <5>4
          <5> QED
            BY <5>1, <5>3, <5>5
        <4> HIDE DEF S
        <4>3. ASSUME NEW i \in 1..Gone(x), S[i] \in Claims
              PROVE  x.req.dev \in Axes /\ lock[x.req.dev] = u /\ lock'[x.req.dev] = u
          <5>1. lock[x.req.dev] = u
            BY <4>1, <4>3 DEF Kept, S
          <5>2. S[i] # "answer" /\ i \in 1..Len(S)
            BY <4>2, <4>3 DEF Claims
          <5>3. x.req.cmd \notin Silent
            BY <4>2, <5>2 DEF WellPlanned
          <5>4. x.req.dev \in Axes
            BY <3>1, <5>3, KnownDevice DEF ThreadRecord
          <5>5. u \notin {t, None}
            BY <2>2, ThreadAssumption
          <5> QED
            BY <5>1, <5>4, <5>5
        <4>4. ASSUME NEW i \in 1..Gone(x), S[i] \in {"drive", "profile"}
              PROVE  drive' = drive /\ rates' = rates
          <5>1. i \in 1..Len(S) /\ S[i] \in Guarded /\ S[i] \in {"profile", "drive"}
            BY <4>2, <4>4 DEF Guarded
          <5>2. x.req.dev = "fv3" /\ \E k \in 1..(i - 1) : S[k] \in Claims
            BY <4>2, <5>1 DEF WellPlanned
          <5>3. PICK k \in 1..(i - 1) : S[k] \in Claims
            BY <5>2
          <5>4. k \in 1..Gone(x)
            BY <4>2
          <5>5. lock["fv3"] = u
            BY <4>3, <5>2, <5>3, <5>4
          <5> QED
            BY <2>2, <5>5
        <4>5. Kept(x, u, lock', drive', rates')
          BY <4>1, <4>3, <4>4 DEF Kept, S
        <4> QED
          BY <3>1, <4>1, <4>5 DEF Serving
      <3> QED
        BY <3>3, <3>4
    <2> QED
      BY <2>1, <2>2
  <1>4. ASSUME NEW d \in Axes, lock'[d] # None
        PROVE  InHand(thread'[lock'[d]], d)
    <2>1. CASE lock'[d] = t
      BY <1>2, <2>1
    <2>2. CASE lock'[d] # t
      <3>1. lock'[d] = lock[d] /\ lock[d] # None /\ lock[d] # t /\ lock[d] \in Threads
        BY <1>4, <2>2 DEF Threaded, Locks
      <3>2. InHand(thread[lock[d]], d)
        BY <3>1 DEF Threaded
      <3> QED
        BY <1>2, <3>1, <3>2
    <2> QED
      BY <2>1, <2>2
  <1> QED
    BY <1>1, <1>3, <1>4 DEF Threaded

\* The end of a request: the lock is given back, or was not held.
LEMMA Leaves ==
    ASSUME Threaded, NEW t \in Threads, Leave(t), asm' = asm,
           \/ Unlock(t)
           \/ UNCHANGED lock /\ \A d \in Axes : lock[d] # t,
           \/ lock["fv3"] = t
           \/ drive' = drive /\ rates' = rates
    PROVE  Threaded' /\ \A d \in Axes : lock'[d] \in {lock[d], None} \ {t}
  <1>1. thread' = [thread EXCEPT ![t] = Idle]
    BY DEF Leave
  <1>2. Idle \in ThreadRecord(asm)
    BY EmptySeq DEF ThreadRecord, Idle, Known
  <1>3. Serving(Idle, t, lock', drive', rates')
    BY IdleFollows DEF Serving
  <1>4. /\ lock' \in Locks
        /\ \A d \in Axes : lock'[d] # t
        /\ \A d \in Axes : \/ lock'[d] = lock[d]
                           \/ lock[d] \in {t, None} /\ lock'[d] \in {t, None}
        /\ \A d \in Axes : lock'[d] \in {lock[d], None}
    <2>1. CASE Unlock(t)
      BY <2>1, ThreadAssumption DEF Unlock, Threaded, Locks
    <2>2. CASE UNCHANGED lock /\ \A d \in Axes : lock[d] # t
      BY <2>2 DEF Threaded
    <2> QED
      BY <2>1, <2>2
  <1>5. Threaded'
    BY <1>1, <1>2, <1>3, <1>4, OneServes
  <1> QED
    BY <1>4, <1>5

\* A step of a request that is not its last one.
LEMMA Advances ==
    ASSUME Threaded, NEW t \in Threads, NEW s, At(t, s), Advance(t), asm' = asm,
           \/ s \notin {"answer", "clear", "send", "start", "release"}
           \/ s = "send" /\ Cmd(t) = "point_table_run",
           \/ s \in Claims /\ Lock(t)
           \/ s \notin Claims /\ UNCHANGED lock,
           drive' = IF s = "drive" THEN CodeFor(thread[t].req) ELSE drive,
           rates' = IF s = "profile" THEN Written(thread[t].req.gives, t) ELSE rates
    PROVE  Threaded'
  <1> DEFINE x == thread[t]
             y == [x EXCEPT !.todo = Tail(x.todo)]
             S == Steps(x.req)
  <1>1. x \in ThreadRecord(asm) /\ x.todo # <<>> /\ s = Head(x.todo)
    BY DEF Threaded, At
  <1>2. thread' = [thread EXCEPT ![t] = y]
    BY DEF Advance
  <1>3. ~Releasing(x)
    BY <1>1 DEF Releasing
  <1>4. Follows(x) /\ Kept(x, t, lock, drive, rates)
    BY <1>3 DEF Threaded, Serving
  <1>5. y \in ThreadRecord(asm) /\ y.req = x.req /\ y.todo = Tail(x.todo)
    <2>1. x.todo \in Seq(StepNames) /\ x.req \in Known(asm)
      BY <1>1 DEF ThreadRecord
    <2>2. Tail(x.todo) \in Seq(StepNames)
      BY <1>1, <2>1, HeadTailProperties
    <2> QED
      BY <1>1, <2>1, <2>2 DEF ThreadRecord
  <1>6. x.req.cmd = Cmd(t) /\ x.req.dev = Dev(t)
    BY DEF Cmd, Dev
  <1> HIDE DEF x, y
  <1>7. Follows(y) /\ Gone(y) = Gone(x) + 1 /\ Steps(y.req)[Gone(y)] = s
    BY <1>1, <1>4, <1>5, Advancing
  <1>8. Gone(x) \in Nat
    BY <1>4 DEF Follows
  <1>9. y.todo # <<>>
    BY <1>1, <1>4, <1>5, <1>6, LastStep
  <1>10. /\ s \in Guarded => HasClaimed(x)
         /\ s \in Unlocked => ~HasClaimed(x)
         /\ s # "answer" => x.req.cmd \notin Silent
         /\ s \in {"profile", "drive"} => x.req.dev = "fv3"
    BY <1>1, <1>4, StepFacts
  <1>11. x.req.dev \in Axes
    BY <1>1, <1>10, KnownDevice DEF Threaded, ThreadRecord
  <1>12. S[Gone(x) + 1] = s /\ Steps(y.req) = S
    BY <1>5, <1>7
  <1>13. HasClaimed(y) <=> (HasClaimed(x) \/ s \in Claims)
    BY <1>7, <1>8, <1>12 DEF HasClaimed
  <1>14. HasClaimed(x) => lock[x.req.dev] = t
    BY <1>4 DEF HasClaimed, Kept
  <1>15. /\ lock' \in Locks
         /\ s \in Claims => lock'[x.req.dev] = t /\ lock[x.req.dev] = None
         /\ \A d \in Axes : \/ lock'[d] = lock[d]
                            \/ d = x.req.dev /\ lock[d] = None /\ lock'[d] = t
    BY <1>6, <1>11, ThreadAssumption DEF Lock, LockFree, Threaded, Locks
  <1>16. Kept(y, t, lock', drive', rates')
    <2> SUFFICES ASSUME NEW i \in 1..Gone(y)
                 PROVE  /\ S[i] \in Claims => lock'[x.req.dev] = t
                        /\ S[i] = "drive" => drive' = CodeFor(x.req)
                        /\ S[i] = "profile" => Own(x, t, rates')
      BY <1>5, <1>12 DEF Kept, Own
    <2>1. i \in 1..Gone(x) \/ i = Gone(x) + 1
      BY <1>7, <1>8
    <2>2. CASE i \in 1..Gone(x)
      <3>1. /\ S[i] \in Claims => lock[x.req.dev] = t
            /\ S[i] = "drive" => drive = CodeFor(x.req)
            /\ S[i] = "profile" => Own(x, t, rates)
        BY <1>4, <2>2 DEF Kept
      <3>2. drive' \in {drive, CodeFor(x.req)}
        BY DEF x
      <3>3. Own(x, t, rates) => Own(x, t, rates')
        BY DEF Own, Written, x
      <3> QED
        BY <1>11, <1>15, <3>1, <3>2, <3>3
    <2>3. CASE i = Gone(x) + 1
      <3>1. S[i] = s
        BY <1>12, <2>3
      <3>2. s = "drive" => drive' = CodeFor(x.req)
        BY DEF x
      <3>3. s = "profile" => Own(x, t, rates')
        BY DEF Own, Written, x
      <3> QED
        BY <1>15, <3>1, <3>2, <3>3
    <2> QED
      BY <2>1, <2>2, <2>3
  <1>17. ASSUME NEW d \in Axes, lock'[d] = t
         PROVE  InHand(y, d)
    <2>1. CASE lock[d] = t
      <3>1. InHand(x, d)
        BY <2>1, ThreadAssumption DEF Threaded, x
      <3> QED
        BY <1>5, <1>7, <1>9, <1>13, <3>1 DEF InHand
    <2>2. CASE lock[d] # t
      <3>1. d = x.req.dev /\ s \in Claims
        BY <1>15, <1>17, <2>2
      <3> QED
        BY <1>5, <1>7, <1>9, <1>13, <3>1 DEF InHand
    <2> QED
      BY <2>1, <2>2
  <1>18. lock["fv3"] = t \/ (drive' = drive /\ rates' = rates)
    <2>1. CASE s \in {"profile", "drive"}
      BY <1>10, <1>14, <2>1 DEF Guarded
    <2>2. CASE s \notin {"profile", "drive"}
      BY <2>2
    <2> QED
      BY <2>1, <2>2
  <1>19. Serving(y, t, lock', drive', rates')
    BY <1>7, <1>16 DEF Serving
  <1>20. \A d \in Axes : \/ lock'[d] = lock[d]
                         \/ lock[d] \in {t, None} /\ lock'[d] \in {t, None}
    BY <1>15
  <1> QED
    BY <1>2, <1>5, <1>15, <1>17, <1>18, <1>19, <1>20, OneServes

-----------------------------------------------------------------------------
(* Every step keeps the invariant.                                         *)

\* A thread that has not come to its lock, or gives up a reservation.
LEMMA NoLockYet ==
    ASSUME Threaded, NEW t \in Threads, NEW s, At(t, s),
           s \in Unlocked \/ s = "release"
    PROVE  \A d \in Axes : lock[d] # t
  <1> DEFINE x == thread[t]
  <1>1. x.todo # <<>> /\ s = Head(x.todo)
    BY DEF At
  <1>2. ~(Follows(x) /\ HasClaimed(x))
    <2>1. CASE s \in Unlocked
      BY <1>1, <2>1, StepFacts
    <2>2. CASE s = "release"
      BY <1>1, <2>2, StepFacts
    <2> QED
      BY <2>1, <2>2
  <1> QED
    BY <1>2, HasNoLock

\* Nothing begins to run: the lock is taken only where no table goes on, and
\* the drive is touched only under the lock.
LEMMA QuietRun ==
    ASSUME GatewayInv, run' \in [Axes -> RunStates],
           run'["fv3"] = "running" => run["fv3"] = "running",
           \/ lock'["fv3"] \in {lock["fv3"], None}
           \/ run'["fv3"] # "running",
           drive' = drive \/ lock["fv3"] # None
    PROVE  RunApart' /\ TableRunsInPp'
  BY DEF GatewayInv, RunApart, TableRunsInPp

\* An abort starts no run.
LEMMA AbortedRun ==
    ASSUME run \in [Axes -> RunStates], NEW d, NEW b \in BOOLEAN
    PROVE  /\ Aborted(d, b) \in [Axes -> RunStates]
           /\ Aborted(d, b)["fv3"] = "running" => run["fv3"] = "running" /\ d # "fv3"
  BY DEF Aborted, RunStates, Axes

\* A table of fv3 is at its last steps only with the drive in position mode.
LEMMA TableHasDrive ==
    ASSUME Threaded, NEW t \in Threads, NEW s \in {"send", "start"}, At(t, s),
           Dev(t) = "fv3", Cmd(t) = "point_table_run"
    PROVE  drive = PP
  <1> DEFINE x == thread[t]
             S == Steps(x.req)
             j == Gone(x) + 1
  <1>1. x.todo # <<>> /\ s = Head(x.todo)
    BY DEF At
  <1>2. ~Releasing(x)
    BY <1>1 DEF Releasing
  <1>3. Follows(x) /\ Kept(x, t, lock, drive, rates)
    BY <1>2 DEF Threaded, Serving
  <1>4. j \in 1..Len(S) /\ S[j] = s /\ Gone(x) \in Nat
    BY <1>1, <1>3, NextStep DEF Follows
  <1>5. x.req.dev = "fv3" /\ x.req.cmd = "point_table_run"
    BY DEF Dev, Cmd
  <1> HIDE DEF x, S
  <1>6. \E i \in 1..(j - 1) : S[i] = "drive"
    <2>1. WellPlanned(x.req, S)
      BY StepsWellPlanned DEF S
    <2> QED
      BY <1>4, <1>5, <2>1 DEF WellPlanned
  <1>7. PICK i \in 1..(j - 1) : S[i] = "drive"
    BY <1>6
  <1>8. i \in 1..Gone(x)
    BY <1>4
  <1>9. drive = CodeFor(x.req)
    BY <1>3, <1>7, <1>8 DEF Kept, S
  <1> QED
    BY <1>5, <1>9 DEF CodeFor, ModeCode

\* No thread has a request and no lock is held to begin with.
LEMMA GatewayInit == Init => GatewayInv
  <1> SUFFICES ASSUME Init PROVE GatewayInv
    OBVIOUS
  <1>1. Idle \in ThreadRecord(asm)
    BY EmptySeq DEF ThreadRecord, Idle, Known
  <1>2. \A t \in Threads : Serving(Idle, t, lock, drive, rates)
    BY IdleFollows DEF Serving
  <1>3. Threaded
    BY <1>1, <1>2 DEF Threaded, Init, Locks
  <1> QED
    BY <1>3 DEF GatewayInv, Init, RunStates, RunApart, TableRunsInPp, Axes

\* A request begins at the first step of its list.
LEMMA ReceiveKeeps ==
    ASSUME GatewayInv, NEW t \in Threads, Receive(t)
    PROVE  GatewayInv'
  <1>1. Threaded /\ run \in [Axes -> RunStates] /\ run' = run /\ drive' = drive
    BY DEF GatewayInv, Receive, fv3
  <1>2. PICK q \in Outcomes[asm] :
            thread' = [thread EXCEPT ![t] = [todo |-> Steps(q), req |-> q]]
    BY DEF Receive
  <1> DEFINE y == [todo |-> Steps(q), req |-> q]
  <1>3. y \in ThreadRecord(asm)
    BY StepsWellPlanned DEF ThreadRecord, Known, WellPlanned
  <1>4. Follows(y) /\ Gone(y) = 0
    BY Starting
  <1>5. Serving(y, t, lock', drive', rates')
    BY <1>4 DEF Serving, Kept
  <1>6. \A d \in Axes : lock[d] # t
    BY <1>1, IdleFollows, HasNoLock DEF Receive
  <1>7. lock' = lock /\ asm' = asm /\ rates' = rates /\ lock' \in Locks
    BY <1>1 DEF Receive, fv3, Threaded
  <1> HIDE DEF y
  <1>8. thread' = [thread EXCEPT ![t] = y]
    BY <1>2 DEF y
  <1>9. Threaded'
    BY <1>1, <1>3, <1>5, <1>6, <1>7, <1>8, OneServes
  <1> QED
    BY <1>1, <1>7, <1>9, QuietRun DEF GatewayInv

\* A request that ends before it has the lock.
LEMMA LeavesEarly ==
    ASSUME GatewayInv, NEW t \in Threads, NEW s, At(t, s), Leave(t),
           s \in Unlocked \/ s = "release",
           UNCHANGED <<asm, lock, fv3>>,
           run' \in [Axes -> RunStates],
           run'["fv3"] = "running" => run["fv3"] = "running"
    PROVE  GatewayInv'
  <1>1. Threaded
    BY DEF GatewayInv
  <1>2. Threaded'
    BY <1>1, NoLockYet, Leaves DEF fv3
  <1> QED
    BY <1>2, QuietRun DEF GatewayInv, fv3

\* A request that fails under the lock, or in the wait before it.
LEMMA Fails ==
    ASSUME GatewayInv, NEW t \in Threads, Fail(t), asm' = asm,
           lock["fv3"] = t \/ (drive' = drive /\ rates' = rates)
    PROVE  GatewayInv'
  <1>1. Threaded /\ run \in [Axes -> RunStates]
    BY DEF GatewayInv
  <1>2. Threaded' /\ \A d \in Axes : lock'[d] \in {lock[d], None} \ {t}
    BY <1>1, Leaves DEF Fail
  <1>3. /\ run' \in [Axes -> RunStates]
        /\ run'["fv3"] = "running" => run["fv3"] = "running"
    BY <1>1, AbortedRun DEF Fail
  <1>4. lock'["fv3"] \in {lock["fv3"], None}
    BY <1>2 DEF Axes
  <1>5. drive' = drive \/ lock["fv3"] # None
    BY ThreadAssumption
  <1> QED
    BY <1>2, <1>3, <1>4, <1>5, QuietRun DEF GatewayInv

\* A step that is not the last one and leaves the lock and the run alone.
LEMMA GoesOn ==
    ASSUME GatewayInv, NEW t \in Threads, NEW s, At(t, s), Advance(t), asm' = asm,
           \/ s \in {"wait", "profile", "drive", "reserve", "ready"}
           \/ s = "send" /\ Cmd(t) = "point_table_run",
           UNCHANGED lock,
           run' \in [Axes -> RunStates],
           run'["fv3"] = "running" => run["fv3"] = "running",
           drive' = IF s = "drive" THEN CodeFor(thread[t].req) ELSE drive,
           rates' = IF s = "profile" THEN Written(thread[t].req.gives, t) ELSE rates
    PROVE  GatewayInv'
  <1>1. Threaded
    BY DEF GatewayInv
  <1>2. s \notin Claims
    BY DEF Claims
  <1>3. Threaded'
    BY <1>1, <1>2, Advances
  <1>4. drive' = drive \/ lock["fv3"] # None
    <2>1. CASE s = "drive"
      <3>1. s \in Guarded /\ thread[t].todo # <<>> /\ Head(thread[t].todo) = s
        BY <2>1 DEF Guarded, At
      <3>2. Follows(thread[t]) /\ lock[Dev(t)] = t
        BY <1>1, <3>1, HasLock
      <3>3. Dev(t) = "fv3"
        BY <2>1, <3>1, <3>2, StepFacts DEF Dev
      <3> QED
        BY <3>2, <3>3, ThreadAssumption
    <2>2. CASE s # "drive"
      BY <2>2
    <2> QED
      BY <2>1, <2>2
  <1> QED
    BY <1>3, <1>4, QuietRun DEF GatewayInv

\* A step that takes the lock, where no table goes on.
LEMMA TakesLock ==
    ASSUME GatewayInv, NEW t \in Threads, NEW s \in Claims, At(t, s), Advance(t),
           Lock(t), UNCHANGED <<asm, fv3>>,
           run' \in [Axes -> RunStates],
           run'["fv3"] = "running" => run["fv3"] = "running" /\ Dev(t) # "fv3"
    PROVE  GatewayInv'
  <1>1. Threaded
    BY DEF GatewayInv
  <1>2. s \notin {"answer", "clear", "send", "start", "release", "drive", "profile"}
    BY DEF Claims
  <1>3. drive' = drive /\ rates' = rates /\ asm' = asm
    BY DEF fv3
  <1>4. Threaded'
    BY <1>1, <1>2, <1>3, Advances
  <1>5. Dev(t) # "fv3" => lock'["fv3"] = lock["fv3"]
    BY <1>1 DEF Lock, Threaded, Locks, Axes
  <1> QED
    BY <1>3, <1>4, <1>5, QuietRun DEF GatewayInv

\* A read is answered without a lock.
LEMMA AnswerKeeps ==
    ASSUME GatewayInv, NEW t \in Threads, Answer(t)
    PROVE  GatewayInv'
  BY LeavesEarly DEF Answer, Unlocked, GatewayInv

\* A guard takes the lock of its axis, or ends the request.
LEMMA GuardKeeps ==
    ASSUME GatewayInv, NEW t \in Threads, Guard(t)
    PROVE  GatewayInv'
  <1>1. At(t, "guard") /\ UNCHANGED <<asm, fv3>> /\ run \in [Axes -> RunStates]
    BY DEF Guard, GatewayInv
  <1>2. CASE Lock(t) /\ Advance(t) /\ run' = Aborted(Dev(t), TRUE)
    BY <1>1, <1>2, AbortedRun, TakesLock DEF Claims
  <1>3. CASE /\ Leave(t) /\ UNCHANGED lock
             /\ run' \in {Aborted(Dev(t), FALSE), run}
    <2>1. CASE run' = Aborted(Dev(t), FALSE)
      BY <1>1, <1>3, <2>1, AbortedRun, LeavesEarly DEF Unlocked
    <2>2. CASE run' = run
      BY <1>1, <1>3, <2>2, LeavesEarly DEF Unlocked
    <2> QED
      BY <1>3, <2>1, <2>2
  <1> QED
    BY <1>2, <1>3 DEF Guard

\* A stop ends when a run is active, and takes the lock of its axis otherwise.
LEMMA StopKeeps ==
    ASSUME GatewayInv, NEW t \in Threads, Stop(t)
    PROVE  GatewayInv'
  <1>1. /\ At(t, "stop") /\ UNCHANGED <<asm, fv3>> /\ run \in [Axes -> RunStates]
        /\ run' = Aborted(Dev(t), TRUE)
    BY DEF Stop, GatewayInv
  <1>2. CASE Lock(t) /\ Advance(t)
    BY <1>1, <1>2, AbortedRun, TakesLock DEF Claims
  <1>3. CASE Leave(t) /\ UNCHANGED lock
    BY <1>1, <1>3, AbortedRun, LeavesEarly DEF Unlocked
  <1> QED
    BY <1>2, <1>3 DEF Stop

\* A clear needs the lock and does not keep it.
LEMMA ClearKeeps ==
    ASSUME GatewayInv, NEW t \in Threads, Clear(t)
    PROVE  GatewayInv'
  <1>1. run \in [Axes -> RunStates]
    BY DEF GatewayInv
  <1> QED
    BY <1>1, AbortedRun, LeavesEarly DEF Clear, Unlocked

\* A wait for the drive keeps the lock, or gives it back in the end.
LEMMA WaitKeeps ==
    ASSUME GatewayInv, NEW t \in Threads, Wait(t)
    PROVE  GatewayInv'
  <1>1. /\ At(t, "wait") /\ asm' = asm /\ drive' = drive /\ rates' = rates
        /\ run \in [Axes -> RunStates]
    BY DEF Wait, fv3, GatewayInv
  <1>2. CASE Advance(t) /\ UNCHANGED <<lock, run>>
    BY <1>1, <1>2, GoesOn
  <1>3. CASE Fail(t)
    BY <1>1, <1>3, Fails
  <1> QED
    BY <1>2, <1>3 DEF Wait

\* The profile and the mode of the drive are written under its lock.
LEMMA WriterHasLock ==
    ASSUME GatewayInv, NEW t \in Threads, NEW s \in {"profile", "drive"}, At(t, s)
    PROVE  lock["fv3"] = t
  <1>1. s \in Guarded /\ thread[t].todo # <<>> /\ s = Head(thread[t].todo)
    BY DEF Guarded, At
  <1>2. Follows(thread[t]) /\ lock[Dev(t)] = t
    BY <1>1, HasLock DEF GatewayInv
  <1>3. Dev(t) = "fv3"
    BY <1>1, <1>2, StepFacts DEF Dev
  <1> QED
    BY <1>2, <1>3

\* Writing the profile of fv3 keeps the lock, or gives it back on a failure.
LEMMA WriteProfileKeeps ==
    ASSUME GatewayInv, NEW t \in Threads, WriteProfile(t)
    PROVE  GatewayInv'
  <1>1. /\ At(t, "profile") /\ asm' = asm /\ drive' = drive
        /\ run \in [Axes -> RunStates]
    BY DEF WriteProfile, GatewayInv
  <1>2. CASE /\ Advance(t) /\ rates' = Written(thread[t].req.gives, t)
             /\ UNCHANGED <<lock, run>>
    BY <1>1, <1>2, GoesOn
  <1>3. CASE Fail(t)
    BY <1>1, <1>3, WriterHasLock, Fails
  <1> QED
    BY <1>2, <1>3 DEF WriteProfile

\* Writing the mode of fv3 does so too, and prepares what is sent.
LEMMA WriteDriveKeeps ==
    ASSUME GatewayInv, NEW t \in Threads, WriteDrive(t)
    PROVE  GatewayInv'
  <1>1. /\ At(t, "drive") /\ asm' = asm /\ rates' = rates
        /\ run \in [Axes -> RunStates]
    BY DEF WriteDrive, GatewayInv
  <1>2. CASE Advance(t) /\ drive' = CodeFor(thread[t].req) /\ UNCHANGED <<lock, run>>
    BY <1>1, <1>2, GoesOn
  <1>3. CASE Fail(t)
    BY <1>1, <1>3, WriterHasLock, Fails
  <1> QED
    BY <1>2, <1>3 DEF WriteDrive

\* The command itself is the last step but the start of a worker.
LEMMA SendKeeps ==
    ASSUME GatewayInv, NEW t \in Threads, Send(t)
    PROVE  GatewayInv'
  <1>1. /\ At(t, "send") /\ asm' = asm /\ drive' = drive
        /\ Threaded /\ run \in [Axes -> RunStates]
        /\ Dev(t) # "fv3" \/ Cmd(t) \notin Moves => rates' = rates
    BY DEF Send, GatewayInv, Dev, Cmd
  <1>0. lock["fv3"] = t \/ (drive' = drive /\ rates' = rates)
    <2>1. lock[Dev(t)] = t
      BY <1>1, HasLock DEF Guarded
    <2> QED
      BY <1>1, <2>1
  <1>2. CASE Told(t)
    <2>1. run' = run
      BY <1>2 DEF Told
    <2>2. CASE Cmd(t) = "point_table_run"
      <3>1. Advance(t) /\ UNCHANGED lock /\ rates' = rates
        BY <1>1, <1>2, <2>2 DEF Told, Moves
      <3> QED
        BY <1>1, <2>1, <2>2, <3>1, GoesOn
    <2>3. CASE Cmd(t) # "point_table_run"
      <3>1. Leave(t) /\ Unlock(t)
        BY <1>2, <2>3 DEF Told
      <3>2. Threaded' /\ \A d \in Axes : lock'[d] \in {lock[d], None} \ {t}
        BY <1>0, <1>1, <3>1, Leaves
      <3>3. lock'["fv3"] \in {lock["fv3"], None}
        BY <3>2 DEF Axes
      <3> QED
        BY <1>1, <2>1, <3>2, <3>3, QuietRun DEF GatewayInv
    <2> QED
      BY <2>2, <2>3
  <1>3. CASE Fail(t)
    BY <1>0, <1>1, <1>3, Fails
  <1> QED
    BY <1>2, <1>3 DEF Send

\* A reservation needs the lock and does not keep it.
LEMMA ReserveKeeps ==
    ASSUME GatewayInv, NEW t \in Threads, Reserve(t)
    PROVE  GatewayInv'
  <1>1. /\ At(t, "reserve") /\ UNCHANGED <<asm, lock, fv3>>
        /\ run \in [Axes -> RunStates]
    BY DEF Reserve, GatewayInv
  <1>2. CASE Leave(t) /\ UNCHANGED run
    BY <1>1, <1>2, LeavesEarly DEF Unlocked
  <1>3. CASE Advance(t) /\ run' = [run EXCEPT ![Dev(t)] = "preparing"]
    <2>1. run' \in [Axes -> RunStates]
      BY <1>1, <1>3 DEF RunStates
    <2>2. run'["fv3"] = "running" => run["fv3"] = "running"
      BY <1>1, <1>3 DEF Axes
    <2> QED
      BY <1>1, <1>3, <2>1, <2>2, GoesOn DEF fv3
  <1> QED
    BY <1>2, <1>3 DEF Reserve

\* The wait of a start goes on without a lock.
LEMMA ReadyKeeps ==
    ASSUME GatewayInv, NEW t \in Threads, Ready(t)
    PROVE  GatewayInv'
  <1>1. /\ At(t, "ready") /\ asm' = asm /\ drive' = drive /\ rates' = rates
        /\ Threaded /\ run \in [Axes -> RunStates]
    BY DEF Ready, fv3, GatewayInv
  <1>2. CASE Advance(t) /\ UNCHANGED <<lock, run>>
    BY <1>1, <1>2, GoesOn
  <1>3. CASE /\ thread' = [thread EXCEPT ![t].todo = <<"release">>]
             /\ UNCHANGED <<lock, run>>
    <2> DEFINE x == thread[t]
               y == [x EXCEPT !.todo = <<"release">>]
    <2>1. x \in ThreadRecord(asm)
      BY <1>1 DEF Threaded
    <2>2. <<"release">> \in Seq(StepNames)
      BY DEF StepNames
    <2>3. y \in ThreadRecord(asm) /\ y.todo = <<"release">>
      BY <2>1, <2>2 DEF ThreadRecord
    <2>4. thread' = [thread EXCEPT ![t] = y]
      BY <1>3
    <2>5. Serving(y, t, lock', drive', rates')
      BY <2>3 DEF Serving, Releasing
    <2>6. \A d \in Axes : lock[d] # t
      BY <1>1, NoLockYet DEF Unlocked
    <2>7. lock' \in Locks
      BY <1>1, <1>3 DEF Threaded
    <2> HIDE DEF x, y
    <2>8. Threaded'
      BY <1>1, <1>3, <2>3, <2>4, <2>5, <2>6, <2>7, OneServes
    <2> QED
      BY <1>1, <1>3, <2>8, QuietRun DEF GatewayInv
  <1>4. CASE Fail(t)
    BY <1>1, <1>4, Fails
  <1> QED
    BY <1>2, <1>3, <1>4 DEF Ready

\* A failed start gives its reservation back.
LEMMA ReleaseKeeps ==
    ASSUME GatewayInv, NEW t \in Threads, Release(t)
    PROVE  GatewayInv'
  <1>1. /\ At(t, "release") /\ Leave(t) /\ UNCHANGED <<asm, lock, fv3>>
        /\ run \in [Axes -> RunStates]
    BY DEF Release, GatewayInv
  <1>2. run' = [run EXCEPT ![Dev(t)] = IF @ = "preparing" THEN "free" ELSE @]
    BY DEF Release
  <1>3. run' \in [Axes -> RunStates]
    BY <1>1, <1>2 DEF RunStates
  <1>4. run'["fv3"] = "running" => run["fv3"] = "running"
    BY <1>1, <1>2 DEF Axes
  <1> QED
    BY <1>1, <1>3, <1>4, LeavesEarly

\* A start takes the lock again, unless it was cancelled.
LEMMA LaunchKeeps ==
    ASSUME GatewayInv, NEW t \in Threads, Launch(t)
    PROVE  GatewayInv'
  <1>1. At(t, "launch") /\ UNCHANGED <<asm, run, fv3>> /\ run \in [Axes -> RunStates]
    BY DEF Launch, GatewayInv
  <1>2. CASE run[Dev(t)] = "preparing" /\ Lock(t) /\ Advance(t)
    BY <1>1, <1>2, TakesLock DEF Claims
  <1>3. CASE Leave(t) /\ UNCHANGED lock
    BY <1>1, <1>3, LeavesEarly DEF Unlocked
  <1> QED
    BY <1>2, <1>3 DEF Launch

\* The run of a table begins: the drive has been put into PP by this request,
\* and the lock is given back.
LEMMA StartKeeps ==
    ASSUME GatewayInv, NEW t \in Threads, Start(t)
    PROVE  GatewayInv'
  <1>1. /\ At(t, "start") /\ Leave(t) /\ Unlock(t) /\ asm' = asm
        /\ drive' = drive /\ rates' = rates
        /\ run' = [run EXCEPT ![Dev(t)] = "running"]
        /\ Threaded /\ run \in [Axes -> RunStates] /\ RunApart /\ TableRunsInPp
    BY DEF Start, fv3, GatewayInv
  <1>2. Threaded' /\ \A d \in Axes : lock'[d] \in {lock[d], None} \ {t}
    BY <1>1, Leaves
  <1>3. run' \in [Axes -> RunStates]
    BY <1>1 DEF RunStates
  <1>4. Follows(thread[t]) /\ lock[Dev(t)] = t
    BY <1>1, HasLock DEF Guarded
  <1>5. Cmd(t) = "point_table_run"
    BY <1>1, <1>4, StepFacts DEF At, Cmd
  <1>6. CASE Dev(t) = "fv3"
    <2>1. drive = PP
      BY <1>1, <1>5, <1>6, TableHasDrive
    <2>2. lock'["fv3"] = None
      BY <1>2, <1>4, <1>6 DEF Axes
    <2> QED
      BY <1>1, <1>2, <1>3, <2>1, <2>2 DEF GatewayInv, RunApart, TableRunsInPp
  <1>7. CASE Dev(t) # "fv3"
    <2>1. run'["fv3"] = run["fv3"]
      BY <1>1, <1>7 DEF Axes
    <2>2. lock'["fv3"] \in {lock["fv3"], None}
      BY <1>2 DEF Axes
    <2> QED
      BY <1>1, <1>2, <1>3, <2>1, <2>2, QuietRun DEF GatewayInv
  <1> QED
    BY <1>6, <1>7

\* A row or a stop thread of a run leaves the requests alone.
LEMMA RowKeeps ==
    ASSUME GatewayInv, NEW d \in Axes, Row(d) \/ StopThread(d)
    PROVE  GatewayInv'
  <1>1. UNCHANGED <<asm, thread, lock, drive, rates>>
    BY DEF Row, StopThread
  <1>2. Threaded'
    BY <1>1 DEF GatewayInv, Threaded
  <1>3. run \in [Axes -> RunStates]
    BY DEF GatewayInv
  <1>4. \/ run' = run
        \/ \E s \in {"free", "stopping", "unconfirmed"} : run' = [run EXCEPT ![d] = s]
    BY DEF Row, StopThread
  <1>5. run' \in [Axes -> RunStates]
    BY <1>3, <1>4 DEF RunStates
  <1>6. run'["fv3"] = "running" => run["fv3"] = "running"
    BY <1>3, <1>4 DEF Axes
  <1> QED
    BY <1>1, <1>2, <1>5, <1>6, QuietRun DEF GatewayInv

\* A restart forgets every request and every lock.
LEMMA RestartKeeps ==
    ASSUME GatewayInv, Restart
    PROVE  GatewayInv'
  <1>1. /\ asm' \in Assemblies /\ thread' = [t \in Threads |-> Idle]
        /\ lock' = [d \in Axes |-> None] /\ run' = [d \in Axes |-> "free"]
    BY DEF Restart
  <1>2. Idle \in ThreadRecord(asm')
    BY EmptySeq DEF ThreadRecord, Idle, Known
  <1>3. \A t \in Threads : Serving(Idle, t, lock', drive', rates')
    BY IdleFollows DEF Serving
  <1>4. Threaded'
    BY <1>1, <1>2, <1>3 DEF Threaded, Locks
  <1> QED
    BY <1>1, <1>4 DEF GatewayInv, RunStates, RunApart, TableRunsInPp, Axes

\* Every step keeps the invariant.
LEMMA GatewayNext == GatewayInv /\ [Next]_vars => GatewayInv'
  <1> SUFFICES ASSUME GatewayInv, [Next]_vars PROVE GatewayInv'
    OBVIOUS
  <1>1. ASSUME NEW t \in Threads,
               \/ Receive(t) \/ Answer(t) \/ Guard(t) \/ Stop(t) \/ Clear(t)
               \/ Wait(t) \/ WriteProfile(t) \/ WriteDrive(t) \/ Send(t)
               \/ Reserve(t) \/ Ready(t) \/ Release(t) \/ Launch(t) \/ Start(t)
        PROVE  GatewayInv'
    BY <1>1, ReceiveKeeps, AnswerKeeps, GuardKeeps, StopKeeps, ClearKeeps, WaitKeeps,
       WriteProfileKeeps, WriteDriveKeeps, SendKeeps, ReserveKeeps, ReadyKeeps,
       ReleaseKeeps, LaunchKeeps, StartKeeps
  <1>2. ASSUME NEW d \in Axes, Row(d) \/ StopThread(d)
        PROVE  GatewayInv'
    BY <1>2, RowKeeps
  <1>3. CASE UNCHANGED <<asm, thread, lock, run, drive, rates>>
    BY <1>3 DEF GatewayInv, Threaded, RunApart, TableRunsInPp
  <1>4. DeliverLate \/ DaemonRestart \/ UNCHANGED vars
           => UNCHANGED <<asm, thread, lock, run, drive, rates>>
    BY DEF DeliverLate, DaemonRestart, vars, fv3
  <1> QED
    BY <1>1, <1>2, <1>3, <1>4, RestartKeeps DEF Next

-----------------------------------------------------------------------------
(* Theorems.                                                               *)

\* In every reachable state the threads follow their lists and the run of a
\* table keeps out of the way of the commands (guarded_axis_command and the
\* handlers of feature_*.py).
THEOREM GatewayInvHolds == Spec => []GatewayInv
  <1>1. Init => GatewayInv
    BY GatewayInit
  <1>2. GatewayInv /\ [Next]_vars => GatewayInv'
    BY GatewayNext
  <1> QED
    BY <1>1, <1>2, PTL DEF Spec

\* The command lock is exclusive and is given back: the threads that are past
\* their guard on an axis are one at most, and as long as the lock is not free
\* its holder is such a thread, with steps left to do (_COMMAND_LOCKS).
LocksAreSound ==
    /\ \A t, u \in Threads : \A s, v \in Guarded :
          At(t, s) /\ At(u, v) /\ Dev(t) = Dev(u) => t = u
    /\ \A d \in Axes : lock[d] # None =>
          /\ lock[d] \in Threads
          /\ Dev(lock[d]) = d
          /\ \E s \in Guarded : At(lock[d], s)

\* Two requests at guarded steps are for different axes, and a held lock has a
\* holder that will give it back (_COMMAND_LOCKS, guarded_axis_command).
THEOREM LocksHold == Spec => []LocksAreSound
  <1>1. GatewayInv => LocksAreSound
    <2> SUFFICES ASSUME Threaded PROVE LocksAreSound
      BY DEF GatewayInv
    <2>1. ASSUME NEW t \in Threads, NEW u \in Threads, NEW s \in Guarded,
                 NEW v \in Guarded, At(t, s), At(u, v), Dev(t) = Dev(u)
          PROVE  t = u
      <3>1. lock[Dev(t)] = t /\ lock[Dev(u)] = u
        BY <2>1, HasLock
      <3> QED
        BY <2>1, <3>1
    <2>2. ASSUME NEW d \in Axes, lock[d] # None
          PROVE  /\ lock[d] \in Threads /\ Dev(lock[d]) = d
                 /\ \E s \in Guarded : At(lock[d], s)
      <3>1. lock[d] \in Threads
        BY <2>2 DEF Threaded, Locks
      <3> DEFINE x == thread[lock[d]]
                 S == Steps(x.req)
                 s == Head(x.todo)
      <3>2. /\ Dev(lock[d]) = d /\ Follows(x) /\ HasClaimed(x) /\ x.todo # <<>>
        BY <2>2 DEF Threaded, InHand, Dev
      <3>3. s \notin Unlocked /\ s # "release"
        BY <3>2, StepFacts
      <3>4. s \in StepNames
        BY <3>2, HeadTailProperties DEF Follows
      <3>5. s \in Guarded
        BY <3>3, <3>4 DEF StepNames, Unlocked, Guarded
      <3>6. At(lock[d], s)
        BY <3>2 DEF At
      <3> QED
        BY <3>1, <3>2, <3>5, <3>6
    <2> QED
      BY <2>1, <2>2 DEF LocksAreSound
  <1> QED
    BY <1>1, GatewayInvHolds, PTL

\* The rows of a table on FV3 are profile positions, and whatever requests
\* come while it runs, nothing takes the drive out of that mode
\* (_start_multi_point_run, guarded_axis_command).
THEOREM TableRuns == Spec => []TableRunsInPp
  BY GatewayInvHolds, PTL DEF GatewayInv

\* What the steps before the one that tells the daemon have left.
LEMMA SendFacts ==
    ASSUME Threaded, NEW t \in Threads, At(t, "send"), Dev(t) = "fv3",
           Cmd(t) \notin Special
    PROVE  LET q == thread[t].req IN
           /\ DriveMode(q.key, q.cmd, q.mode) # {} => drive = CodeFor(q)
           /\ WritesProfile(q.key, q.cmd) => Own(thread[t], t, rates)
  <1> DEFINE x == thread[t]
             q == x.req
             S == Steps(q)
             j == Gone(x) + 1
  <1>1. x.todo # <<>> /\ "send" = Head(x.todo)
    BY DEF At
  <1>2. ~Releasing(x)
    BY <1>1 DEF Releasing
  <1>3. Follows(x) /\ Kept(x, t, lock, drive, rates)
    BY <1>2 DEF Threaded, Serving
  <1>4. j \in 1..Len(S) /\ S[j] = "send" /\ Gone(x) \in Nat
    BY <1>1, <1>3, NextStep DEF Follows
  <1>5. q.dev = "fv3" /\ q.cmd \notin Special
    BY DEF Dev, Cmd
  <1>6. WellPlanned(q, S)
    BY StepsWellPlanned
  <1>7. \A i \in 1..Gone(x) : /\ S[i] = "drive" => drive = CodeFor(q)
                              /\ S[i] = "profile" => Own(x, t, rates)
    BY <1>3 DEF Kept
  <1>8. \A i \in 1..(j - 1) : i \in 1..Gone(x)
    BY <1>4
  <1> HIDE DEF x, q, S, j
  <1>9. DriveMode(q.key, q.cmd, q.mode) # {} => \E i \in 1..(j - 1) : S[i] = "drive"
    BY <1>4, <1>5, <1>6 DEF WellPlanned
  <1>10. WritesProfile(q.key, q.cmd) => \E i \in 1..(j - 1) : S[i] = "profile"
    BY <1>4, <1>5, <1>6 DEF WellPlanned
  <1>11. /\ DriveMode(q.key, q.cmd, q.mode) # {} => drive = CodeFor(q)
         /\ WritesProfile(q.key, q.cmd) => Own(x, t, rates)
    BY <1>7, <1>8, <1>9, <1>10
  <1> QED
    BY <1>11 DEF q, x

\* When the daemon is told, the drive has the mode and the given part of the
\* profile that the same request has written,
\* whatever other requests, runs and failures lie between: if no registry
\* hands a command to a handler that does not prepare it, which is so of
\* feature_registry.json and of the built-in registry.
THEOREM SendsPrepared == RegistriesFit => (Spec => []SendsAsPrepared)
  <1> SUFFICES ASSUME RegistriesFit
               PROVE  Spec => []SendsAsPrepared
    OBVIOUS
  <1>1. GatewayInv => SendsAsPrepared
    <2> SUFFICES ASSUME Threaded, NEW t \in Threads, At(t, "send"),
                        Dev(t) = "fv3", thread[t].req.key \in Handled
                 PROVE  /\ Cmd(t) \in {"move_curve_rel", "homing_start_torque"} \cup GearSetup
                             => drive = CSP
                        /\ Cmd(t) = "set_mode" /\ thread[t].req.key # "anti_sway_position"
                             => drive = ModeCode(thread[t].req.mode)
                        /\ Cmd(t) \in Moves => Own(thread[t], t, rates)
      BY DEF GatewayInv, SendsAsPrepared, Own
    <2> DEFINE q == thread[t].req
    <2>1. q \in Known(asm) /\ asm \in Assemblies
      BY DEF Threaded, ThreadRecord
    <2>2. q \in Outcomes[asm]
      BY <2>1 DEF Known, NoRequest, Handled
    <2>3. /\ q.key \in Preparers(q.cmd)
          /\ q.cmd = "set_mode" /\ q.key # "anti_sway_position"
               => q.mode \in OwnModes(q.key)
      BY <2>1, <2>2 DEF RegistriesFit
    <2>4. /\ q.cmd = Cmd(t) /\ q.dev = "fv3"
      BY DEF Cmd, Dev
    <2>5. Cmd(t) \notin Special =>
            /\ DriveMode(q.key, q.cmd, q.mode) # {} => drive = CodeFor(q)
            /\ WritesProfile(q.key, q.cmd) => Own(thread[t], t, rates)
      BY SendFacts
    <2> HIDE DEF q
    <2>6. ASSUME q.cmd \in {"move_curve_rel", "homing_start_torque"} \cup GearSetup
          PROVE  drive = CSP
      <3>1. DriveMode(q.key, q.cmd, q.mode) = {CSP}
        BY <2>3, <2>6 DEF DriveMode, Preparers, GearSetup, Moves
      <3>2. q.cmd \notin Special /\ q.cmd # "point_table_run"
        BY <2>6 DEF Special, GearSetup
      <3>3. CodeFor(q) = CSP
        BY <3>1, <3>2 DEF CodeFor
      <3> QED
        BY <2>4, <2>5, <3>1, <3>2, <3>3
    <2>7. ASSUME q.cmd = "set_mode", q.key # "anti_sway_position"
          PROVE  drive = ModeCode(q.mode)
      <3>1. DriveMode(q.key, q.cmd, q.mode) = {ModeCode(q.mode)}
        BY <2>3, <2>7 DEF DriveMode
      <3>2. q.cmd \notin Special /\ q.cmd # "point_table_run"
        BY <2>7 DEF Special
      <3>3. CodeFor(q) = ModeCode(q.mode)
        BY <3>1, <3>2 DEF CodeFor
      <3> QED
        BY <2>4, <2>5, <3>1, <3>2, <3>3
    <2>8. ASSUME q.cmd \in Moves
          PROVE  Own(thread[t], t, rates)
      <3>1. WritesProfile(q.key, q.cmd)
        <4>1. Preparers(q.cmd) = {"position", "incremental"}
          <5>1. q.cmd \notin GearSetup /\ q.cmd # "homing_start_torque"
            BY <2>8 DEF Moves, GearSetup
          <5> QED
            BY <2>8, <5>1 DEF Preparers
        <4> QED
          BY <2>3, <2>8, <4>1 DEF WritesProfile
      <3>2. q.cmd \notin Special
        BY <2>8 DEF Special, Moves
      <3> QED
        BY <2>4, <2>5, <3>1, <3>2
    <2> QED
      BY <2>4, <2>6, <2>7, <2>8 DEF q
  <1> QED
    BY <1>1, GatewayInvHolds, PTL

=============================================================================
