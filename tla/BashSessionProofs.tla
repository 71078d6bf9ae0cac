------------------------- MODULE BashSessionProofs -------------------------
(***************************************************************************)
(* Proofs about the hooks of an interactive session, for any descriptors,  *)
(* any number of commands and any lengths: the tracker hears exactly the   *)
(* writes to the channel, and BashSession implements CommandMarkers.       *)
(***************************************************************************)
EXTENDS BashSession, SequenceTheorems, WellFoundedInduction, TLAPS

-----------------------------------------------------------------------------
(* The inductive invariant *)

(* The tracker believes what is true of the descriptors. *)
Agrees(k) == k.aliases = {f \in Fd : k.table[f] = "channel"}

(* The last descriptor is free, so that standard output can be saved. *)
ChannelInv ==
    /\ table \in [Fd -> {"channel", "other", "free"}]
    /\ aliases \subseteq Fd
    /\ table[Max(Fd)] = "free"
    /\ ~unseen => Agrees(Now)

(* What receives comes to: the context descriptor is open and believed to be the
   channel.  A write does not change it. *)
Hears == table[Context] # "free" /\ Context \in aliases

(* The variables of the hooks. *)
HookTypes ==
    /\ pc \in HookStep \cup {"prompt", "idle", "run", "gone"}
    /\ next \in {"p_trap", "idle", "run"}
    /\ at_prompt \in BOOLEAN /\ trap \in BOOLEAN /\ disturbed \in BOOLEAN
    /\ unseen \in BOOLEAN /\ thrown \in BOOLEAN
    /\ skip_debug \in {0, 1}
HookNumbers ==
    /\ sequence \in 0 .. MaxCommand /\ active_command \in 0 .. MaxCommand
    /\ last \in 0 .. sequence
    /\ typed \in Nat /\ newest \in [n : Nat, size : Nat] /\ newest.n <= typed

(* An id is used for one Arm marker at most, and the trap is set only while a
   command is active. *)
HookOrder ==
    /\ pc \in {"p_set", "p_arm"} => last < sequence
    /\ pc = "p_arm" => active_command = sequence
    /\ trap \/ pc \in {"p_at", "p_skip", "p_debug"} => active_command > 0
    /\ pc \in StartStep => trap
    /\ pc \in {"s_print", "s_history", "s_nul"} => ~at_prompt
    /\ pc \in PromptStep \ {"p_trap"} => ~trap
    /\ unseen => disturbed
    /\ thrown => pc = "gone"
HooksInv == HookTypes /\ HookNumbers /\ HookOrder

(* The marker that is being put together.  Half a Start marker, which Ctrl-C may
   leave behind, is completed by the next End marker; what is left of that one
   makes the following marker fail. *)
Kind == {"A", "S", "E", "number", "text", "line", "mixed", "empty"}
FieldSet == [kind : Kind, value : Nat, size : Nat]
HalfStart ==
    /\ ~at_prompt /\ active_command > 0
    /\ pc \in {"s_history", "s_nul", "prompt", "start", "p_trap", "p_end"}
    /\ pc = "start" => next = "p_trap"
HalfEnd ==
    /\ fields[2] = Number(0)
    /\ ~trap
    /\ pc \in {"prompt", "p_trap", "p_end", "p_reset", "p_count", "p_set", "p_arm"}
FieldsOK ==
    /\ pending_field \in FieldSet /\ pending_field.size <= MaxField
    /\ fields \in Seq(FieldSet)
    /\ Len(fields) \in {0, 3}
    /\ fields # << >> => fields[1].kind # "A"
FieldsInv ==
    /\ FieldsOK
    /\ pc # "gone" =>
         \/ fields = << >> /\ (pc \in {"s_history", "s_nul"} => ~Hears)
         \/ fields # << >> /\ Hears /\ (HalfStart \/ HalfEnd)

(* The command the recorder has, for every statement the shell can be at, as
   long as the session is not disturbed. *)
Whole == fields = << >> /\ pending_field = Empty
Between == active.id = 0 /\ ~active.started
NoneYet == Between /\ active_command = 0 /\ last = sequence
InTurn == active.id = sequence /\ active_command = sequence /\ last = sequence
            /\ sequence > 0
Armed == InTurn /\ ~active.started
Running == InTurn /\ active.started
ActiveInv ==
    active \in [id : 0 .. MaxCommand, started : BOOLEAN, text : Nat]
CalmChannel == table[Context] = "channel" /\ ~unseen
CalmLine ==
    /\ newest.size <= MaxField
    /\ newest.n \in {0, typed}
    /\ active.started /\ does # "nothing" => active.text = typed
CalmStart ==
    /\ pc = "start" =>
         /\ Whole
         /\ next = "idle" => Armed /\ at_prompt /\ skip_debug = 1
         /\ next # "idle" => skip_debug = 0 /\ IF at_prompt THEN Armed ELSE Running
    /\ pc \in {"s_print", "s_history", "s_nul"} =>
         ~at_prompt /\ skip_debug = 0 /\ next # "idle" /\ Armed
    /\ pc = "s_print" => Whole
    /\ pc \in {"s_history", "s_nul"} =>
         /\ Len(fields) = 3
         /\ fields[1] = Letter("S") /\ fields[2] = Number(active_command)
         /\ fields[3] = Text
    /\ pc = "s_history" => pending_field = Empty
    /\ pc = "s_nul" => /\ newest.n # 0
                       /\ pending_field = Field("line", newest.n, newest.size)
CalmPrompt ==
    /\ pc \in PromptStep => Whole
    /\ pc \in {"p_trap", "p_end"} => Running \/ NoneYet
    /\ pc \in {"p_reset", "p_count"} => Between /\ last = sequence
    /\ pc \in {"p_count", "p_set"} => active_command = 0
    /\ pc \in {"p_set", "p_arm"} => Between /\ sequence = last + 1
    /\ pc \in {"p_at", "p_skip", "p_debug"} => Armed
    /\ pc \in {"p_skip", "p_debug"} => at_prompt
    /\ pc = "p_debug" => skip_debug = 1
CalmUser ==
    /\ pc \in {"idle", "run", "prompt"} => Whole
    /\ pc = "idle" => Armed /\ at_prompt /\ trap /\ skip_debug = 0
    /\ pc = "run" => /\ skip_debug = 0 /\ trap
                     /\ IF at_prompt THEN Armed /\ does = "group" ELSE Running
    /\ pc = "prompt" =>
         /\ trap => skip_debug = 0 /\ IF at_prompt THEN Armed ELSE Running
         /\ ~trap => Running \/ NoneYet
Calm == CalmChannel /\ CalmLine /\ CalmStart /\ CalmPrompt /\ CalmUser
CalmInv == ~disturbed /\ pc # "gone" => Calm

-----------------------------------------------------------------------------
(* Descriptors *)

Tables == [table : [Fd -> {"channel", "other", "free"}], aliases : SUBSET Fd]

Less == {ss \in Nat \X Nat : ss[1] < ss[2]}

(* The numbers are well founded; a set of descriptors has a least one. *)
LEMMA LessWellFounded == IsWellFoundedOn(Less, Nat)
  BY NatLessThanWellFounded DEF OpToRel, Less

(* Min yields a member of a set of numbers. *)
LEMMA Smallest ==
    ASSUME NEW S \in SUBSET Nat, S # {}
    PROVE  Min(S) \in S
<1>1. PICK m \in S : \A y \in S : ~(<<y, m>> \in Less)
  BY LessWellFounded, WFMin
<1>2. ASSUME NEW y \in S PROVE m <= y
  <2>1. ~(y < m) BY <1>1 DEF Less
  <2> QED BY <2>1
<1>3. \A y \in S : m =< y BY <1>2
<1> QED BY <1>3 DEF Min

(* There is a last descriptor, and it is not the context descriptor. *)
LEMMA Top == Max(Fd) \in Fd /\ Context < Max(Fd)
<1>1. PICK top \in Fd : Context < top /\ \A f \in Fd : f <= top
  BY SessionAssumption
<1>2. \A f \in Fd : top >= f BY <1>1, SessionAssumption
<1>3. Max(Fd) \in Fd /\ \A f \in Fd : Max(Fd) >= f BY <1>2 DEF Max
<1> DEFINE m == Max(Fd)
<1>4. m \in Fd /\ m >= top BY <1>1, <1>3
<1> HIDE DEF m
<1>5. m \in Nat /\ top \in Nat /\ Context \in Nat BY <1>1, <1>4, SessionAssumption
<1>6. Context < m BY <1>1, <1>4, <1>5
<1> QED BY <1>4, <1>6 DEF m

(* F_DUPFD finds a free descriptor while the last one is free. *)
LEMMA FreeOne ==
    ASSUME NEW k \in Tables, k.table[Max(Fd)] = "free"
    PROVE  Free(k) \in Fd /\ Free(k) >= Context /\ k.table[Free(k)] = "free"
<1> DEFINE S == {f \in Fd : f >= Context /\ k.table[f] = "free"}
<1> DEFINE m == Max(Fd)
<1>0. m \in Fd /\ Context < m /\ k.table[m] = "free" BY Top
<1> HIDE DEF m
<1>1. m \in S
  <2>1. m \in Nat /\ Context \in Nat BY <1>0, SessionAssumption
  <2> QED BY <2>1, <1>0
<1>2. S \in SUBSET Nat /\ S # {} BY <1>1, SessionAssumption
<1>3. Min(S) \in S BY <1>2, Smallest
<1>4. Free(k) \in S BY <1>3 DEF Free
<1> QED BY <1>4

(* observe follows dup, dup2, dup3 and F_DUPFD. *)
LEMMA DupTables ==
    ASSUME NEW k \in Tables, NEW from \in Fd, NEW to \in Fd
    PROVE  /\ Dup(k, from, to) \in Tables
           /\ Agrees(k) => Agrees(Dup(k, from, to))
           /\ \A f \in Fd : Dup(k, from, to).table[f] =
                IF f = to /\ k.table[from] # "free" THEN k.table[from] ELSE k.table[f]
           /\ \A f \in Fd : f # to => (f \in Dup(k, from, to).aliases <=> f \in k.aliases)
           /\ k.table[from] # "free" =>
                (to \in Dup(k, from, to).aliases <=> from \in k.aliases)
<1> DEFINE d == Dup(k, from, to)
<1>0. k.table \in [Fd -> {"channel", "other", "free"}] /\ k.aliases \subseteq Fd BY DEF Tables
<1>1. CASE k.table[from] = "free" \/ from = to
  <2>1. d = k BY <1>1 DEF Dup
  <2> QED BY <2>1, <1>1, <1>0
<1>2. CASE k.table[from] # "free" /\ from # to
  <2>1. d = [table |-> [k.table EXCEPT ![to] = k.table[from]],
             aliases |-> assign_alias(k.aliases, to, from \in k.aliases)]
    BY <1>2 DEF Dup
  <2>2. /\ d.table = [k.table EXCEPT ![to] = k.table[from]]
        /\ d.aliases = assign_alias(k.aliases, to, from \in k.aliases)
    BY <2>1
  <2>3. d.table \in [Fd -> {"channel", "other", "free"}] BY <2>2, <1>0
  <2>4. d.aliases \subseteq Fd BY <2>2, <1>0 DEF assign_alias
  <2>5. d \in Tables BY <2>1, <2>2, <2>3, <2>4 DEF Tables
  <2>6. \A f \in Fd : d.table[f] = IF f = to THEN k.table[from] ELSE k.table[f]
    BY <2>2, <1>0
  <2>7. \A f \in Fd : f \in d.aliases <=> IF f = to THEN from \in k.aliases
                                           ELSE f \in k.aliases
    BY <2>2 DEF assign_alias
  <2> HIDE DEF d
  <2>8. Agrees(k) => Agrees(d)
    BY <2>4, <2>6, <2>7 DEF Agrees
  <2> QED BY <1>2, <2>5, <2>6, <2>7, <2>8 DEF d
<1> QED BY <1>1, <1>2

(* observe follows close. *)
LEMMA CloseTables ==
    ASSUME NEW k \in Tables, NEW fd \in Fd
    PROVE  /\ Close(k, fd) \in Tables
           /\ Agrees(k) => Agrees(Close(k, fd))
           /\ \A f \in Fd : Close(k, fd).table[f] = IF f = fd THEN "free" ELSE k.table[f]
           /\ \A f \in Fd : f # fd => (f \in Close(k, fd).aliases <=> f \in k.aliases)
<1> DEFINE d == Close(k, fd)
<1>0. k.table \in [Fd -> {"channel", "other", "free"}] /\ k.aliases \subseteq Fd BY DEF Tables
<1>1. CASE k.table[fd] = "free"
  BY <1>1, <1>0 DEF Close
<1>2. CASE k.table[fd] # "free"
  <2>1. d = [table |-> [k.table EXCEPT ![fd] = "free"], aliases |-> k.aliases \ {fd}]
    BY <1>2 DEF Close
  <2>2. d.table = [k.table EXCEPT ![fd] = "free"] /\ d.aliases = k.aliases \ {fd}
    BY <2>1
  <2>3. d \in Tables BY <2>1, <1>0 DEF Tables
  <2>4. \A f \in Fd : d.table[f] = IF f = fd THEN "free" ELSE k.table[f]
    BY <2>2, <1>0
  <2> HIDE DEF d
  <2>5. Agrees(k) => Agrees(d)
    BY <2>2, <2>4 DEF Agrees
  <2> QED BY <2>2, <2>3, <2>4, <2>5 DEF d
<1> QED BY <1>1, <1>2

(* observe follows the calls that exec with a file makes. *)
LEMMA OpenTables ==
    ASSUME NEW k \in Tables, NEW fd \in Fd, k.table[Max(Fd)] = "free", fd # Max(Fd)
    PROVE  /\ Open(k, fd) \in Tables
           /\ Open(k, fd).table[Max(Fd)] = "free"
           /\ Agrees(k) => Agrees(Open(k, fd))
<1> DEFINE tmp == Free(k)
           opened == [k EXCEPT !.table[tmp] = "other"]
<1>0. k.table \in [Fd -> {"channel", "other", "free"}] /\ k.aliases \subseteq Fd BY DEF Tables
<1>1. tmp \in Fd /\ k.table[tmp] = "free" BY FreeOne
<1> HIDE DEF tmp
<1>2. /\ opened.table = [k.table EXCEPT ![tmp] = "other"]
      /\ opened.aliases = k.aliases
      /\ opened = [table |-> [k.table EXCEPT ![tmp] = "other"], aliases |-> k.aliases]
  BY DEF Tables
<1> HIDE DEF opened
<1>3. opened \in Tables BY <1>0, <1>1, <1>2 DEF Tables
<1>4. \A f \in Fd : opened.table[f] = IF f = tmp THEN "other" ELSE k.table[f]
  BY <1>0, <1>1, <1>2
<1>5. Agrees(k) => Agrees(opened) BY <1>1, <1>2, <1>4 DEF Agrees
<1>6. CASE fd = tmp
  <2>1. Open(k, fd) = opened BY <1>6 DEF Open, tmp, opened
  <2> QED BY <2>1, <1>3, <1>4, <1>5, <1>6, Top
<1>7. CASE fd # tmp
  <2> DEFINE moved == Dup(opened, tmp, fd)
  <2>1. Open(k, fd) = Close(moved, tmp) BY <1>7 DEF Open, tmp, opened
  <2>2. /\ moved \in Tables /\ (Agrees(opened) => Agrees(moved))
        /\ \A f \in Fd : f # fd => moved.table[f] = opened.table[f]
    BY <1>1, <1>3, DupTables
  <2> HIDE DEF moved
  <2>3. /\ Close(moved, tmp) \in Tables
        /\ Agrees(moved) => Agrees(Close(moved, tmp))
        /\ \A f \in Fd : Close(moved, tmp).table[f] = IF f = tmp THEN "free" ELSE moved.table[f]
    BY <1>1, <2>2, CloseTables
  <2>4. Close(moved, tmp).table[Max(Fd)] = "free"
    BY <2>2, <2>3, <1>4, Top
  <2> QED BY <2>1, <2>2, <2>3, <2>4, <1>5
<1> QED BY <1>6, <1>7

(* A builtin with a redirection leaves the descriptors as they were, and the
   tracker right about them; receives depends on the context descriptor alone. *)
LEMMA RedirectionUndone ==
    ASSUME ChannelInv
    PROVE  /\ Redirected.after.table = table
           /\ Redirected.after.aliases \subseteq Fd
           /\ Agrees(Now) => Agrees(Redirected.after)
           /\ receives <=> Hears
           /\ Agrees(Now) => (receives <=> Reaches)
           /\ table[Context] # "free" =>
                (Context \in Redirected.after.aliases <=> Context \in aliases)
<1> DEFINE k == Now
           open == table[Stdout] # "free"
           saved == Free(k)
           kept == IF open THEN Dup(k, Stdout, saved) ELSE k
           during == Dup(kept, Context, Stdout)
           after == IF open THEN Close(Dup(during, saved, Stdout), saved)
                    ELSE Close(during, Stdout)
<1>1. Redirected.during = during /\ Redirected.after = after BY DEF Redirected
<1>2. k \in Tables /\ k.table = table /\ k.aliases = aliases
  BY DEF Now, Tables, ChannelInv
<1>3. saved \in Fd /\ saved >= Context /\ table[saved] = "free"
  BY <1>2, FreeOne DEF ChannelInv
<1> HIDE DEF k, saved
<1>4. Stdout \in Fd /\ Context \in Fd /\ Stdout # Context /\ saved # Stdout
  <2>1. Stdout \in Fd /\ Context \in Fd /\ Stdout < Context BY SessionAssumption
  <2>2. Stdout \in Nat /\ Context \in Nat /\ saved \in Nat
    BY <2>1, <1>3, SessionAssumption
  <2> QED BY <2>1, <2>2, <1>3
<1>5. table[Context] # "free" => saved # Context BY <1>3
<1>6. /\ kept \in Tables
      /\ Agrees(k) => Agrees(kept)
      /\ \A f \in Fd : kept.table[f] = IF f = saved THEN table[Stdout] ELSE table[f]
      /\ \A f \in Fd : f # saved => (f \in kept.aliases <=> f \in aliases)
  <2>1. CASE open
    <3>1. kept = Dup(k, Stdout, saved) BY <2>1
    <3> HIDE DEF kept
    <3>2. /\ Dup(k, Stdout, saved) \in Tables
          /\ Agrees(k) => Agrees(Dup(k, Stdout, saved))
          /\ \A f \in Fd : Dup(k, Stdout, saved).table[f] =
               IF f = saved /\ k.table[Stdout] # "free" THEN k.table[Stdout]
               ELSE k.table[f]
          /\ \A f \in Fd : f # saved =>
               (f \in Dup(k, Stdout, saved).aliases <=> f \in k.aliases)
      BY <1>2, <1>3, <1>4, DupTables
    <3> QED BY <2>1, <3>1, <3>2, <1>2
  <2>2. CASE ~open
    BY <2>2, <1>2, <1>3, <1>4
  <2> QED BY <2>1, <2>2
<1> HIDE DEF kept
<1>7. /\ during \in Tables
      /\ Agrees(kept) => Agrees(during)
      /\ \A f \in Fd : during.table[f] =
           IF f = Stdout /\ kept.table[Context] # "free" THEN kept.table[Context]
           ELSE kept.table[f]
      /\ \A f \in Fd : f # Stdout => (f \in during.aliases <=> f \in kept.aliases)
      /\ kept.table[Context] # "free" =>
           (Stdout \in during.aliases <=> Context \in kept.aliases)
  BY <1>4, <1>6, DupTables
<1> HIDE DEF during
<1>8. /\ after \in Tables
      /\ Agrees(during) => Agrees(after)
      /\ \A f \in Fd : after.table[f] =
           IF open THEN IF f = saved THEN "free"
                        ELSE IF f = Stdout /\ during.table[saved] # "free"
                             THEN during.table[saved] ELSE during.table[f]
           ELSE IF f = Stdout THEN "free" ELSE during.table[f]
      /\ \A f \in Fd : f # Stdout /\ f # saved =>
           (f \in after.aliases <=> f \in during.aliases)
      /\ ~open => (saved # Stdout => (saved \in after.aliases <=> saved \in during.aliases))
  <2>1. CASE open
    <3> DEFINE back == Dup(during, saved, Stdout)
    <3>1. /\ back \in Tables
          /\ Agrees(during) => Agrees(back)
          /\ \A f \in Fd : back.table[f] =
               IF f = Stdout /\ during.table[saved] # "free" THEN during.table[saved]
               ELSE during.table[f]
          /\ \A f \in Fd : f # Stdout => (f \in back.aliases <=> f \in during.aliases)
      BY <1>3, <1>4, <1>7, DupTables
    <3>2. after = Close(back, saved) BY <2>1
    <3> HIDE DEF back, after
    <3>3. /\ Close(back, saved) \in Tables
          /\ Agrees(back) => Agrees(Close(back, saved))
          /\ \A f \in Fd : Close(back, saved).table[f] =
               IF f = saved THEN "free" ELSE back.table[f]
          /\ \A f \in Fd : f # saved =>
               (f \in Close(back, saved).aliases <=> f \in back.aliases)
      BY <3>1, <1>3, CloseTables
    <3> QED BY <2>1, <3>1, <3>2, <3>3
  <2>2. CASE ~open
    <3>1. after = Close(during, Stdout) BY <2>2
    <3> HIDE DEF after
    <3>2. /\ Close(during, Stdout) \in Tables
          /\ Agrees(during) => Agrees(Close(during, Stdout))
          /\ \A f \in Fd : Close(during, Stdout).table[f] =
               IF f = Stdout THEN "free" ELSE during.table[f]
          /\ \A f \in Fd : f # Stdout =>
               (f \in Close(during, Stdout).aliases <=> f \in during.aliases)
      BY <1>4, <1>7, CloseTables
    <3> QED BY <2>2, <3>1, <3>2, <1>3
  <2> QED BY <2>1, <2>2
<1> HIDE DEF after
<1>9. after.table = table
  <2>1. /\ after.table \in [Fd -> {"channel", "other", "free"}]
        /\ table \in [Fd -> {"channel", "other", "free"}]
    BY <1>8 DEF Tables, ChannelInv
  <2>2. ASSUME NEW f \in Fd PROVE after.table[f] = table[f]
    <3>1. CASE f = saved BY <3>1, <1>3, <1>4, <1>6, <1>7, <1>8
    <3>2. CASE f = Stdout BY <3>2, <1>3, <1>4, <1>6, <1>7, <1>8
    <3>3. CASE f # saved /\ f # Stdout BY <3>3, <1>6, <1>7, <1>8
    <3> QED BY <3>1, <3>2, <3>3
  <2> QED BY <2>1, <2>2
<1>10. receives <=> Hears
  BY <1>1, <1>4, <1>5, <1>6, <1>7 DEF receives, Hears
<1>11. Agrees(Now) => (receives <=> Reaches)
  BY <1>1, <1>4, <1>6, <1>7 DEF receives, Reaches, Agrees, k
<1>12. table[Context] # "free" => (Context \in after.aliases <=> Context \in aliases)
  BY <1>4, <1>5, <1>6, <1>7, <1>8
<1>13. after.aliases \subseteq Fd BY <1>8 DEF Tables
<1>14. Agrees(Now) => Agrees(after) BY <1>6, <1>7, <1>8 DEF k
<1> QED BY <1>1, <1>9, <1>10, <1>11, <1>12, <1>13, <1>14

(* A write of the shell changes nothing about its descriptors. *)
LEMMA WriteKeeps ==
    ASSUME ChannelInv, NEW ended, NEW open, NEW goto, Write(ended, open, goto)
    PROVE  ChannelInv' /\ table' = table /\ unseen' = unseen /\ (Hears' <=> Hears)
<1>1. /\ table' = Redirected.after.table
      /\ aliases' = Redirected.after.aliases
      /\ unseen' = unseen
  BY DEF Write
<1>2. table' = table BY <1>1, RedirectionUndone
<1>3. aliases' \subseteq Fd BY <1>1, RedirectionUndone
<1>4. Agrees(Now) => Agrees(Now)' BY <1>1, RedirectionUndone DEF Agrees, Now
<1>5. Hears' <=> Hears BY <1>1, <1>2, RedirectionUndone DEF Hears
<1> QED BY <1>1, <1>2, <1>3, <1>4, <1>5 DEF ChannelInv

(* Every step leaves the tracker right about the descriptors, unless it is an
   unseen one. *)
LEMMA ChannelNext == ChannelInv /\ [BNext]_bvars => ChannelInv'
<1> SUFFICES ASSUME ChannelInv, [BNext]_bvars PROVE ChannelInv'
  OBVIOUS
<1>1. ASSUME UNCHANGED channel PROVE ChannelInv'
  BY <1>1 DEF channel, ChannelInv, Agrees, Now
<1>2. ASSUME __whyrun_start PROVE ChannelInv'
  <2>1. CASE start_checks BY <2>1, <1>1 DEF start_checks
  <2>2. CASE start_prints BY <2>2, WriteKeeps DEF start_prints
  <2>3. CASE start_history BY <2>3, WriteKeeps DEF start_history
  <2>4. CASE start_ends BY <2>4, WriteKeeps DEF start_ends
  <2> QED BY <1>2, <2>1, <2>2, <2>3, <2>4 DEF __whyrun_start
<1>3. ASSUME __whyrun_prompt PROVE ChannelInv'
  <2>1. ASSUME NEW from, NEW goto, Assign(from, goto) PROVE ChannelInv'
    BY <2>1, <1>1 DEF Assign
  <2>2. CASE prompt_ends
    <3>1. CASE UNCHANGED channel BY <3>1, <1>1
    <3>2. CASE Write(<<Letter("E"), Number(active_command), Number(0), Text>>, Empty,
                     "p_reset")
      BY <3>2, WriteKeeps
    <3> QED BY <2>2, <3>1, <3>2 DEF prompt_ends, channel
  <2>3. CASE prompt_arms BY <2>3, WriteKeeps DEF prompt_arms
  <2>4. CASE prompt_traps BY <2>4, <1>1 DEF prompt_traps
  <2> QED BY <1>3, <2>1, <2>2, <2>3, <2>4
        DEF __whyrun_prompt, prompt_untraps, prompt_resets, prompt_counts, prompt_sets,
            prompt_at, prompt_skips
<1>4. CASE PROMPT_COMMAND BY <1>4, <1>1 DEF PROMPT_COMMAND
<1>5. CASE EnterNothing \/ EnterLine \/ RunMore \/ RunDone \/ RunForget
  BY <1>5, <1>1 DEF EnterNothing, EnterLine, RunMore, RunDone, RunForget
<1>6. CASE Interrupt \/ Leave
  BY <1>6, <1>1 DEF Interrupt, Leave
<1>7. CASE RunMeddle BY <1>7, WriteKeeps DEF RunMeddle
<1>8. CASE RunUnseen
  <2>1. PICK fd \in Fd \ {Max(Fd)} : table' = [table EXCEPT ![fd] = "free"]
    BY <1>8 DEF RunUnseen
  <2>2. unseen' = TRUE /\ aliases' = aliases BY <1>8 DEF RunUnseen
  <2> QED BY <2>1, <2>2, Top DEF ChannelInv
<1>9. CASE RunRedirect
  <2>1. PICK fd \in Fd \ {Max(Fd)} :
          \E k \in {Close(Now, fd), Open(Now, fd)}
                     \cup {Dup(Now, from, fd) : from \in Fd \ {fd}} :
             table' = k.table /\ aliases' = k.aliases
    BY <1>9 DEF RunRedirect
  <2>2. Now \in Tables /\ Now.table[Max(Fd)] = "free" BY DEF Now, Tables, ChannelInv
  <2>3. ASSUME NEW k, k \in Tables, k.table[Max(Fd)] = "free", Agrees(Now) => Agrees(k),
               table' = k.table, aliases' = k.aliases
        PROVE  ChannelInv'
    <3>1. unseen' = unseen BY <1>9 DEF RunRedirect
    <3>2. Agrees(k) => Agrees(Now)' BY <2>3 DEF Agrees, Now
    <3> QED BY <2>3, <3>1, <3>2 DEF ChannelInv, Tables
  <2>4. CASE table' = Close(Now, fd).table /\ aliases' = Close(Now, fd).aliases
    <3>1. /\ Close(Now, fd) \in Tables
          /\ Agrees(Now) => Agrees(Close(Now, fd))
          /\ Close(Now, fd).table[Max(Fd)] = "free"
      BY <2>2, CloseTables, Top
    <3> QED BY <3>1, <2>3, <2>4
  <2>5. CASE table' = Open(Now, fd).table /\ aliases' = Open(Now, fd).aliases
    <3>1. /\ Open(Now, fd) \in Tables
          /\ Agrees(Now) => Agrees(Open(Now, fd))
          /\ Open(Now, fd).table[Max(Fd)] = "free"
      BY <2>2, OpenTables
    <3> QED BY <3>1, <2>3, <2>5
  <2>6. ASSUME NEW from \in Fd \ {fd},
               table' = Dup(Now, from, fd).table /\ aliases' = Dup(Now, from, fd).aliases
        PROVE  ChannelInv'
    <3>1. /\ Dup(Now, from, fd) \in Tables
          /\ Agrees(Now) => Agrees(Dup(Now, from, fd))
          /\ \A f \in Fd : f # fd => Dup(Now, from, fd).table[f] = Now.table[f]
      BY <2>2, DupTables
    <3>2. Dup(Now, from, fd).table[Max(Fd)] = "free" BY <2>2, <3>1, Top
    <3> QED BY <3>1, <3>2, <2>3, <2>6
  <2> QED BY <2>1, <2>4, <2>5, <2>6
<1>10. CASE UNCHANGED bvars
  BY <1>10, <1>1 DEF bvars
<1> QED BY <1>2, <1>3, <1>4, <1>5, <1>6, <1>7, <1>8, <1>9, <1>10 DEF BNext, Shell, User

(* The tracker starts with the descriptor that the shell inherits. *)
LEMMA ChannelInit == BInit => ChannelInv
<1> SUFFICES ASSUME BInit PROVE ChannelInv
  OBVIOUS
<1> DEFINE m == Max(Fd)
<1>1. m \in Fd /\ Context < m BY Top
<1> HIDE DEF m
<1>2. Stdout \in Fd /\ Context \in Fd /\ Stdout < Context BY SessionAssumption
<1>3. Stdout \in Nat /\ Context \in Nat /\ m \in Nat BY <1>1, <1>2, SessionAssumption
<1>4. m # Stdout /\ m # Context /\ Stdout # Context BY <1>1, <1>2, <1>3
<1>5. \A f \in Fd : table[f] = IF f = Stdout THEN "other"
                               ELSE IF f = Context THEN "channel" ELSE "free"
  BY <1>4 DEF BInit
<1>6. table \in [Fd -> {"channel", "other", "free"}] BY <1>5 DEF BInit
<1>7. Agrees(Now)
  BY <1>2, <1>4, <1>5 DEF Agrees, Now, BInit
<1>8. table[m] = "free" BY <1>1, <1>4, <1>5
<1> QED BY <1>2, <1>6, <1>7, <1>8 DEF ChannelInv, m, BInit

(* The descriptors and what the tracker believes, in every state. *)
LEMMA ChannelAlways == BSpec => []ChannelInv
  BY ChannelInit, ChannelNext, PTL DEF BSpec

(* Whatever calls that it observes change the descriptors of the shell,
   CommandChannelTracker takes a write for one to the channel exactly when it is
   one. *)
THEOREM TheChannelIsHeard == BSpec => []HeardIffWritten
<1>1. ChannelInv => HeardIffWritten
  BY RedirectionUndone DEF HeardIffWritten, ChannelInv, Agrees, Now
<1> QED BY <1>1, ChannelAlways, PTL

-----------------------------------------------------------------------------
(* The decoder *)

(* The constants of the protocol are fields. *)
LEMMA FieldTypes ==
    /\ Text \in FieldSet /\ Empty \in FieldSet
    /\ \A kind \in Kind : Letter(kind) \in FieldSet
    /\ \A n \in Nat : Number(n) \in FieldSet
    /\ Text.size = 1 /\ Empty.size = 0 /\ Text # Empty
    /\ \A kind \in Kind : Letter(kind).size = 1 /\ Letter(kind).kind = kind
    /\ \A n \in Nat : Number(n).size = 1 /\ Number(n).kind = "number" /\ Number(n).value = n
<1>1. Text = [kind |-> "text", value |-> 0, size |-> 1] BY DEF Text, Field
<1>2. Empty = [kind |-> "empty", value |-> 0, size |-> 0] BY DEF Empty, Field
<1>3. ASSUME NEW kind \in Kind
      PROVE  Letter(kind) \in FieldSet /\ Letter(kind).size = 1 /\ Letter(kind).kind = kind
  BY DEF Letter, Field, FieldSet, Kind
<1>4. ASSUME NEW n \in Nat
      PROVE  /\ Number(n) \in FieldSet /\ Number(n).size = 1
             /\ Number(n).kind = "number" /\ Number(n).value = n
  BY DEF Number, Field, FieldSet, Kind
<1>5. Text \in FieldSet /\ Text.size = 1 BY <1>1 DEF FieldSet, Kind
<1>6. Empty \in FieldSet /\ Empty.size = 0 BY <1>2 DEF FieldSet, Kind
<1> QED BY <1>3, <1>4, <1>5, <1>6

(* What is appended to an unfinished field makes a field of it that no record
   starts with, unless there was nothing to append to. *)
LEMMA JoinedField ==
    ASSUME NEW a \in FieldSet, NEW b \in FieldSet
    PROVE  /\ Joined(a, b) \in FieldSet
           /\ Joined(a, b).size = a.size + b.size
           /\ a = Empty => Joined(a, b) = b
           /\ b = Empty => Joined(a, b) = a
           /\ Joined(a, b).kind \in {a.kind, b.kind, "line", "mixed"}
           /\ a # Empty /\ b # Empty => Joined(a, b).kind \in {"line", "mixed"}
<1>1. CASE a = Empty
  <2>1. Joined(a, b) = b BY <1>1 DEF Joined
  <2>2. a.size = 0 BY <1>1 DEF Empty, Field
  <2>3. a.size + b.size = b.size BY <2>2 DEF FieldSet, Kind
  <2> QED BY <1>1, <2>1, <2>3
<1>2. CASE a # Empty /\ b = Empty
  <2>1. Joined(a, b) = a BY <1>2 DEF Joined
  <2>2. b.size = 0 BY <1>2 DEF Empty, Field
  <2>3. a.size + b.size = a.size BY <2>2 DEF FieldSet, Kind
  <2> QED BY <1>2, <2>1, <2>3
<1>3. CASE a # Empty /\ b # Empty
  <2> DEFINE kind == IF "line" \in {a.kind, b.kind} THEN "line" ELSE "mixed"
             value == IF a.kind = "line" THEN a.value ELSE b.value
  <2>1. Joined(a, b) = [kind |-> kind, value |-> value, size |-> a.size + b.size]
    BY <1>3 DEF Joined, Field
  <2>2. kind \in {"line", "mixed"} /\ value \in Nat /\ a.size + b.size \in Nat
    BY DEF FieldSet, Kind
  <2> HIDE DEF kind, value
  <2>3. Joined(a, b) \in FieldSet BY <2>1, <2>2 DEF FieldSet, Kind
  <2>4. Joined(a, b).size = a.size + b.size /\ Joined(a, b).kind = kind BY <2>1
  <2> QED BY <1>3, <2>2, <2>3, <2>4
<1> QED BY <1>1, <1>2, <1>3

(* The fields there are after a write that ends some. *)
All(ended) == fields \o (<<Joined(pending_field, Head(ended))>> \o Tail(ended))

(* The fields that are complete after a write: the first one of the write completes
   the pending one. *)
LEMMA AllFields ==
    ASSUME fields \in Seq(FieldSet), pending_field \in FieldSet,
           NEW ended \in Seq(FieldSet), ended # << >>
    PROVE  /\ All(ended) \in Seq(FieldSet)
           /\ Len(All(ended)) = Len(fields) + Len(ended)
           /\ \A i \in 1 .. Len(fields) : All(ended)[i] = fields[i]
           /\ All(ended)[Len(fields) + 1] = Joined(pending_field, ended[1])
           /\ \A i \in 2 .. Len(ended) : All(ended)[Len(fields) + i] = ended[i]
<1> DEFINE j == Joined(pending_field, Head(ended))
           t == Tail(ended)
           f == <<j>> \o t
<1>1. Head(ended) = ended[1] /\ Len(ended) \in Nat \ {0} /\ ended[1] \in FieldSet
  OBVIOUS
<1>2. j \in FieldSet BY <1>1, JoinedField
<1>3. t \in Seq(FieldSet) /\ Len(t) = Len(ended) - 1
      /\ \A i \in 1 .. Len(t) : t[i] = ended[i + 1]
  BY HeadTailProperties
<1> HIDE DEF j, t
<1>4. <<j>> \in Seq(FieldSet) /\ Len(<<j>>) = 1 /\ <<j>>[1] = j BY <1>2
<1>5. /\ f \in Seq(FieldSet)
      /\ Len(f) = 1 + Len(t)
      /\ \A i \in 1 .. 1 + Len(t) : f[i] = IF i <= 1 THEN <<j>>[i] ELSE t[i - 1]
  BY <1>3, <1>4, ConcatProperties
<1> HIDE DEF f
<1>6. Len(f) = Len(ended) /\ f[1] = j /\ \A i \in 2 .. Len(ended) : f[i] = ended[i]
  <2>1. Len(t) \in Nat /\ Len(ended) = 1 + Len(t) BY <1>1, <1>3
  <2>2. f[1] = j BY <2>1, <1>4, <1>5
  <2>3. ASSUME NEW i \in 2 .. Len(ended) PROVE f[i] = ended[i]
    <3>1. i - 1 \in 1 .. Len(t) /\ i \in 1 .. 1 + Len(t) /\ ~(i <= 1) BY <2>1
    <3>2. f[i] = t[i - 1] BY <3>1, <1>5
    <3>3. t[i - 1] = ended[(i - 1) + 1] BY <3>1, <1>3
    <3> QED BY <3>2, <3>3
  <2> QED BY <2>1, <2>2, <2>3, <1>5
<1>7. /\ fields \o f \in Seq(FieldSet)
      /\ Len(fields \o f) = Len(fields) + Len(f)
      /\ \A i \in 1 .. Len(fields) + Len(f) :
           (fields \o f)[i] = IF i <= Len(fields) THEN fields[i] ELSE f[i - Len(fields)]
  BY <1>5, ConcatProperties
<1>8. All(ended) = fields \o f BY DEF All, f, j, t
<1> DEFINE n == Len(fields)
           a == fields \o f
<1>9. n \in Nat /\ Len(ended) \in Nat \ {0} BY <1>1
<1>10. /\ \A i \in 1 .. n : a[i] = fields[i]
       /\ a[n + 1] = j
       /\ \A i \in 2 .. Len(ended) : a[n + i] = ended[i]
  <2> HIDE DEF a
  <2>0. \A i \in 1 .. n + Len(ended) :
           a[i] = IF i <= n THEN fields[i] ELSE f[i - n]
    BY <1>6, <1>7 DEF a
  <2> HIDE DEF n
  <2>1. \A i \in 1 .. n : a[i] = fields[i] BY <1>9, <2>0
  <2>2. a[n + 1] = j BY <1>6, <1>9, <2>0
  <2>3. ASSUME NEW i \in 2 .. Len(ended) PROVE a[n + i] = ended[i]
    <3>1. n + i \in 1 .. n + Len(ended) /\ ~(n + i <= n) /\ (n + i) - n = i BY <1>9
    <3> QED BY <3>1, <2>0, <1>6
  <2> QED BY <2>1, <2>2, <2>3
<1> HIDE DEF a
<1> QED BY <1>1, <1>6, <1>7, <1>8, <1>10 DEF a, n, j

(* What remains after four fields. *)
LEMMA RestFields ==
    ASSUME NEW a \in Seq(FieldSet), Len(a) >= 4
    PROVE  /\ SubSeq(a, 5, Len(a)) \in Seq(FieldSet)
           /\ Len(SubSeq(a, 5, Len(a))) = Len(a) - 4
           /\ \A i \in 1 .. Len(a) - 4 : SubSeq(a, 5, Len(a))[i] = a[i + 4]
<1> DEFINE n == Len(a)
<1>1. n \in Nat /\ n >= 4 OBVIOUS
<1>2. \A i \in 5 .. n : a[i] \in FieldSet BY <1>1
<1>3. /\ SubSeq(a, 5, n) \in Seq(FieldSet)
      /\ Len(SubSeq(a, 5, n)) = IF 5 <= n THEN n - 5 + 1 ELSE 0
      /\ \A i \in 1 .. n - 5 + 1 : SubSeq(a, 5, n)[i] = a[5 + i - 1]
  BY <1>1, <1>2, SubSeqProperties
<1> HIDE DEF n
<1>4. Len(SubSeq(a, 5, n)) = n - 4 BY <1>1, <1>3
<1>5. ASSUME NEW i \in 1 .. n - 4 PROVE SubSeq(a, 5, n)[i] = a[i + 4]
  <2>1. i \in 1 .. n - 5 + 1 /\ 5 + i - 1 = i + 4 BY <1>1
  <2> QED BY <2>1, <1>3
<1> QED BY <1>3, <1>4, <1>5 DEF n

(* A write that ends no field. *)
LEMMA ConsumeNone ==
    ASSUME FieldsInv, NEW open \in FieldSet, consume(<< >>, open)
    PROVE  /\ UNCHANGED <<fields, active, last>>
           /\ \/ /\ thrown' = TRUE /\ UNCHANGED pending_field
                 /\ \/ \E i \in 1 .. Len(fields) : TooLong(fields[i].size)
                    \/ TooLong(Joined(pending_field, open).size)
              \/ /\ thrown' = thrown
                 /\ pending_field' = Joined(pending_field, open)
                 /\ ~TooLong(Joined(pending_field, open).size)
<1> DEFINE rest == Joined(pending_field, open)
<1>1. rest \in FieldSet BY JoinedField DEF FieldsInv, FieldsOK
<1>2. fields \in Seq(FieldSet) /\ Len(fields) \in Nat BY DEF FieldsInv, FieldsOK
<1>3. fields \o << >> = fields BY <1>2, ConcatEmptySeq
<1>4. IF \E f \in Range(Append(fields, rest)) : TooLong(f.size)
      THEN thrown' = TRUE /\ UNCHANGED <<fields, pending_field, active, last>>
      ELSE /\ pending_field' = rest
           /\ IF Len(fields) < 4
              THEN fields' = fields /\ UNCHANGED <<active, thrown, last>>
              ELSE /\ fields' = SubSeq(fields, 5, Len(fields))
                   /\ on_command_marker(decode_record(fields))
  BY <1>3 DEF consume
<1> HIDE DEF rest
<1>5. Len(fields) < 4
  <2>1. Len(fields) \in {0, 3} BY DEF FieldsInv, FieldsOK
  <2> QED BY <2>1
<1>6. Append(fields, rest) \in Seq(FieldSet) /\ DOMAIN Append(fields, rest) = 1 .. Len(fields) + 1
  BY <1>1, <1>2
<1>7. /\ \A i \in 1 .. Len(fields) : Append(fields, rest)[i] = fields[i]
      /\ Append(fields, rest)[Len(fields) + 1] = rest
  BY <1>1, <1>2, AppendProperties
<1>8. (\E f \in Range(Append(fields, rest)) : TooLong(f.size))
        <=> (\E i \in 1 .. Len(fields) : TooLong(fields[i].size)) \/ TooLong(rest.size)
  <2>1. \A i \in 1 .. Len(fields) + 1 : i \in 1 .. Len(fields) \/ i = Len(fields) + 1
    BY <1>2
  <2>2. Len(fields) + 1 \in 1 .. Len(fields) + 1 /\ 1 .. Len(fields) \subseteq 1 .. Len(fields) + 1
    BY <1>2
  <2> HIDE <1>4
  <2> QED BY <1>6, <1>7, <2>1, <2>2 DEF Range
<1> QED BY <1>4, <1>5, <1>8 DEF rest

(* A write that ends some fields. *)
LEMMA ConsumeSome ==
    ASSUME FieldsInv, NEW ended \in Seq(FieldSet), ended # << >>, consume(ended, Empty)
    PROVE  \/ /\ thrown' = TRUE /\ UNCHANGED <<fields, pending_field, active, last>>
              /\ \E i \in 1 .. Len(All(ended)) : TooLong(All(ended)[i].size)
           \/ /\ pending_field' = Empty /\ Len(All(ended)) < 4
              /\ fields' = All(ended) /\ UNCHANGED <<active, thrown, last>>
           \/ /\ pending_field' = Empty /\ Len(All(ended)) >= 4
              /\ fields' = SubSeq(All(ended), 5, Len(All(ended)))
              /\ on_command_marker(decode_record(All(ended)))
<1> DEFINE all == All(ended)
<1>1. all \in Seq(FieldSet) /\ Len(all) \in Nat BY AllFields DEF FieldsInv, FieldsOK
<1>2. IF \E f \in Range(Append(all, Empty)) : TooLong(f.size)
      THEN thrown' = TRUE /\ UNCHANGED <<fields, pending_field, active, last>>
      ELSE /\ pending_field' = Empty
           /\ IF Len(all) < 4
              THEN fields' = all /\ UNCHANGED <<active, thrown, last>>
              ELSE /\ fields' = SubSeq(all, 5, Len(all))
                   /\ on_command_marker(decode_record(all))
  BY DEF consume, All
<1> HIDE DEF all
<1>3. DOMAIN Append(all, Empty) = 1 .. Len(all) + 1
  BY <1>1, FieldTypes
<1>4. /\ \A i \in 1 .. Len(all) : Append(all, Empty)[i] = all[i]
      /\ Append(all, Empty)[Len(all) + 1] = Empty
  BY <1>1, FieldTypes, AppendProperties
<1>5. ~TooLong(Empty.size)
  BY FieldTypes, SessionAssumption DEF TooLong
<1>6. (\E f \in Range(Append(all, Empty)) : TooLong(f.size))
        => \E i \in 1 .. Len(all) : TooLong(all[i].size)
  <2>1. \A i \in 1 .. Len(all) + 1 : i \in 1 .. Len(all) \/ i = Len(all) + 1
    BY <1>1
  <2> HIDE <1>2
  <2> QED BY <1>3, <1>4, <1>5, <2>1 DEF Range
<1>7. ~(Len(all) < 4) => Len(all) >= 4 BY <1>1
<1> QED BY <1>2, <1>6, <1>7 DEF all

(* What on_command_marker makes of four fields. *)
IsArm(f) == /\ f[1].kind = "A" /\ f[2].kind = "number" /\ f[2].value # 0 /\ f[4] = Empty
            /\ active.id = 0
IsStart(f) == /\ f[1].kind = "S" /\ f[2].kind = "number" /\ f[2].value # 0
              /\ f[4].kind = "line" /\ active.id = f[2].value /\ ~active.started
IsEnd(f) == /\ f[1].kind = "E" /\ f[2].kind = "number" /\ f[2].value # 0
            /\ f[3].kind = "number" /\ active.id = f[2].value /\ active.started

(* on_command_marker takes a marker that fits the active command and throws at any
   other. *)
LEMMA MarkerStep ==
    ASSUME NEW f, ~thrown, thrown \in BOOLEAN, on_command_marker(decode_record(f))
    PROVE  \/ /\ IsArm(f) /\ last' = f[2].value /\ thrown' = FALSE
              /\ active' = [id |-> f[2].value, started |-> FALSE, text |-> 0]
           \/ /\ IsStart(f) /\ last' = last /\ thrown' = FALSE
              /\ active' = [active EXCEPT !.started = TRUE, !.text = f[4].value]
           \/ /\ IsEnd(f) /\ last' = last /\ thrown' = FALSE
              /\ active' = [id |-> 0, started |-> FALSE, text |-> 0]
           \/ /\ ~IsArm(f) /\ ~IsStart(f) /\ ~IsEnd(f)
              /\ thrown' = TRUE /\ UNCHANGED <<active, last>>
<1> DEFINE m == decode_record(f)
<1>0. thrown = FALSE OBVIOUS
<1>1. /\ Marker("bad", 0, 0).type = "bad"
      /\ Marker("arm", f[2].value, 0).type = "arm" /\ Marker("arm", f[2].value, 0).id = f[2].value
      /\ Marker("start", f[2].value, f[4].value).type = "start"
      /\ Marker("start", f[2].value, f[4].value).id = f[2].value
      /\ Marker("start", f[2].value, f[4].value).text = f[4].value
      /\ Marker("end", f[2].value, 0).type = "end" /\ Marker("end", f[2].value, 0).id = f[2].value
  BY DEF Marker
<1>2. CASE f[2].kind # "number" \/ f[2].value = 0
  <2>1. m = Marker("bad", 0, 0) BY <1>2 DEF decode_record
  <2>2. ~IsArm(f) /\ ~IsStart(f) /\ ~IsEnd(f) BY <1>2 DEF IsArm, IsStart, IsEnd
  <2>3. m.type = "bad" BY <2>1, <1>1
  <2> HIDE DEF m
  <2>4. thrown' = TRUE /\ UNCHANGED <<active, last>>
    BY <2>3 DEF on_command_marker, m
  <2> QED BY <2>2, <2>4
<1>3. CASE f[2].kind = "number" /\ f[2].value # 0 /\ f[1].kind = "A" /\ f[4] = Empty
  <2>1. m.type = "arm" /\ m.id = f[2].value BY <1>3, <1>1 DEF decode_record
  <2>2. ~IsStart(f) /\ ~IsEnd(f) /\ (IsArm(f) <=> active.id = 0)
    BY <1>3 DEF IsArm, IsStart, IsEnd
  <2> HIDE DEF m
  <2>3. CASE active.id = 0
    BY <2>1, <2>2, <2>3 DEF on_command_marker, m
  <2>4. CASE active.id # 0
    BY <2>1, <2>2, <2>4 DEF on_command_marker, m
  <2> QED BY <2>3, <2>4
<1>4. CASE f[2].kind = "number" /\ f[2].value # 0 /\ f[1].kind = "S" /\ f[4].kind = "line"
  <2>1. m.type = "start" /\ m.id = f[2].value /\ m.text = f[4].value
    BY <1>4, <1>1 DEF decode_record
  <2>2. ~IsArm(f) /\ ~IsEnd(f) /\ (IsStart(f) <=> active.id = f[2].value /\ ~active.started)
    BY <1>4 DEF IsArm, IsStart, IsEnd
  <2> HIDE DEF m
  <2>3. CASE active.id = f[2].value /\ ~active.started
    BY <1>0, <2>1, <2>2, <2>3 DEF on_command_marker, m
  <2>4. CASE ~(active.id = f[2].value /\ ~active.started)
    BY <2>1, <2>2, <2>4 DEF on_command_marker, m
  <2> QED BY <2>3, <2>4
<1>5. CASE f[2].kind = "number" /\ f[2].value # 0 /\ f[1].kind = "E" /\ f[3].kind = "number"
  <2>1. m.type = "end" /\ m.id = f[2].value BY <1>5, <1>1 DEF decode_record
  <2>2. ~IsArm(f) /\ ~IsStart(f) /\ (IsEnd(f) <=> active.id = f[2].value /\ active.started)
    BY <1>5 DEF IsArm, IsStart, IsEnd
  <2> HIDE DEF m
  <2>3. CASE active.id = f[2].value /\ active.started
    BY <1>0, <2>1, <2>2, <2>3 DEF on_command_marker, m
  <2>4. CASE ~(active.id = f[2].value /\ active.started)
    BY <2>1, <2>2, <2>4 DEF on_command_marker, m
  <2> QED BY <2>3, <2>4
<1>6. CASE /\ ~(f[2].kind # "number" \/ f[2].value = 0)
           /\ ~(f[1].kind = "A" /\ f[4] = Empty)
           /\ ~(f[1].kind = "S" /\ f[4].kind = "line")
           /\ ~(f[1].kind = "E" /\ f[3].kind = "number")
  <2>1. m = Marker("bad", 0, 0) BY <1>6 DEF decode_record
  <2>2. ~IsArm(f) /\ ~IsStart(f) /\ ~IsEnd(f) BY <1>6 DEF IsArm, IsStart, IsEnd
  <2>3. m.type = "bad" BY <2>1, <1>1
  <2> HIDE DEF m
  <2>4. thrown' = TRUE /\ UNCHANGED <<active, last>>
    BY <2>3 DEF on_command_marker, m
  <2> QED BY <2>2, <2>4
<1> QED BY <1>2, <1>3, <1>4, <1>5, <1>6

(* The writes of the hooks as sequences. *)
LEMMA Tuples ==
    ASSUME NEW a \in FieldSet, NEW b \in FieldSet, NEW c \in FieldSet, NEW d \in FieldSet
    PROVE  /\ <<a>> \in Seq(FieldSet) /\ Len(<<a>>) = 1 /\ <<a>>[1] = a
           /\ <<a, b, c>> \in Seq(FieldSet) /\ Len(<<a, b, c>>) = 3
           /\ <<a, b, c>>[1] = a /\ <<a, b, c>>[2] = b /\ <<a, b, c>>[3] = c
           /\ <<a, b, c, d>> \in Seq(FieldSet) /\ Len(<<a, b, c, d>>) = 4
           /\ <<a, b, c, d>>[1] = a /\ <<a, b, c, d>>[2] = b
           /\ <<a, b, c, d>>[3] = c /\ <<a, b, c, d>>[4] = d
  OBVIOUS

(* A write, heard or not. *)
LEMMA WriteStep ==
    ASSUME ChannelInv, NEW ended, NEW open, NEW goto, Write(ended, open, goto)
    PROVE  /\ Hears => consume(ended, open)
           /\ ~Hears => UNCHANGED <<fields, pending_field, active, thrown, last>>
           /\ pc' = IF thrown' THEN "gone" ELSE goto
  BY RedirectionUndone DEF Write, protocol

-----------------------------------------------------------------------------
(* What becomes of the marker in each statement that writes *)

Base == ChannelInv /\ HooksInv /\ FieldsInv /\ ActiveInv

(* Where half a marker can be pending. *)
LEMMA Pending ==
    ASSUME FieldsInv
    PROVE  /\ fields \in Seq(FieldSet) /\ Len(fields) \in {0, 3}
           /\ fields = << >> <=> Len(fields) = 0
           /\ pc \in {"s_print", "run", "idle", "p_at", "p_skip", "p_debug"} => fields = << >>
           /\ pc \in {"s_history", "s_nul"} /\ Hears => HalfStart /\ fields # << >>
           /\ pc = "p_end" /\ fields # << >> => Hears /\ (HalfStart \/ HalfEnd)
           /\ pc = "p_arm" /\ fields # << >> => HalfEnd
           /\ fields # << >> => fields[1].kind # "A"
<1>1. fields \in Seq(FieldSet) /\ Len(fields) \in {0, 3} BY DEF FieldsInv, FieldsOK
<1>2. fields = << >> <=> Len(fields) = 0 BY <1>1
<1> QED BY <1>1, <1>2 DEF FieldsInv, FieldsOK, HalfStart, HalfEnd

(* The three fields that start a Start marker: they fail only on what was left
   pending. *)
LEMMA Printed ==
    ASSUME Base, start_prints
    PROVE  /\ UNCHANGED <<active, last>>
           /\ fields = << >>
           /\ \/ ~Hears /\ UNCHANGED <<fields, pending_field, thrown>>
              \/ /\ Hears /\ thrown' = TRUE /\ UNCHANGED <<fields, pending_field>>
                 /\ pending_field # Empty
              \/ /\ Hears /\ thrown' = thrown /\ pending_field' = Empty
                 /\ fields' \in Seq(FieldSet) /\ Len(fields') = 3
                 /\ fields'[1] = Joined(pending_field, Letter("S"))
                 /\ fields'[2] = Number(active_command) /\ fields'[3] = Text
<1> DEFINE ended == <<Letter("S"), Number(active_command), Text>>
<1>1. fields = << >> /\ Len(fields) = 0 /\ fields \in Seq(FieldSet) /\ pending_field \in FieldSet
  BY Pending DEF Base, start_prints, FieldsInv, FieldsOK
<1>2. /\ Letter("S") \in FieldSet /\ Number(active_command) \in FieldSet /\ Text \in FieldSet
      /\ Letter("S").size = 1 /\ Number(active_command).size = 1 /\ Text.size = 1
  BY FieldTypes DEF Base, HooksInv, HookNumbers, Kind
<1>3. /\ ended \in Seq(FieldSet) /\ Len(ended) = 3 /\ ended # << >>
      /\ ended[1] = Letter("S") /\ ended[2] = Number(active_command) /\ ended[3] = Text
  BY <1>2, Tuples
<1>4. Write(ended, Empty, "s_history") BY DEF start_prints
<1>5. ~Hears => UNCHANGED <<fields, pending_field, active, thrown, last>>
  BY <1>4, WriteStep DEF Base
<1>6. Hears => consume(ended, Empty) BY <1>4, WriteStep DEF Base
<1> HIDE DEF ended
<1>7. /\ All(ended) \in Seq(FieldSet) /\ Len(All(ended)) = 3
      /\ All(ended)[1] = Joined(pending_field, Letter("S"))
      /\ All(ended)[2] = Number(active_command) /\ All(ended)[3] = Text
  BY <1>1, <1>3, AllFields
<1>8. /\ Joined(pending_field, Letter("S")).size = pending_field.size + 1
      /\ pending_field = Empty => Joined(pending_field, Letter("S")).size = 1
  BY <1>1, <1>2, JoinedField
<1>9. MaxField \in Nat \ {0} BY SessionAssumption
<1>10. ASSUME \E i \in 1 .. Len(All(ended)) : TooLong(All(ended)[i].size)
       PROVE  pending_field # Empty
  <2>1. PICK i \in 1 .. 3 : TooLong(All(ended)[i].size) BY <1>10, <1>7
  <2>2. ~TooLong(1) BY <1>9 DEF TooLong
  <2>3. i = 1 BY <2>1, <2>2, <1>2, <1>7
  <2> QED BY <2>1, <2>2, <2>3, <1>7, <1>8
<1>11. CASE Hears
  <2>1. \/ /\ thrown' = TRUE /\ UNCHANGED <<fields, pending_field, active, last>>
           /\ \E i \in 1 .. Len(All(ended)) : TooLong(All(ended)[i].size)
        \/ /\ pending_field' = Empty /\ Len(All(ended)) < 4
           /\ fields' = All(ended) /\ UNCHANGED <<active, thrown, last>>
        \/ Len(All(ended)) >= 4
    BY <1>3, <1>6, <1>11, ConsumeSome DEF Base
  <2> QED BY <2>1, <1>1, <1>7, <1>10, <1>11
<1> QED BY <1>1, <1>5, <1>11

(* The output of history 1 becomes the pending field, unless it is too long. *)
LEMMA HistoryWritten ==
    ASSUME Base, start_history
    PROVE  LET text == IF newest.n = 0 THEN Empty ELSE Field("line", newest.n, newest.size)
           IN  /\ UNCHANGED <<fields, active, last>>
               /\ text \in FieldSet
               /\ \/ ~Hears /\ UNCHANGED <<pending_field, thrown>>
                  \/ /\ Hears /\ thrown' = TRUE /\ UNCHANGED pending_field
                     /\ \/ \E i \in 1 .. Len(fields) : TooLong(fields[i].size)
                        \/ TooLong(Joined(pending_field, text).size)
                  \/ /\ Hears /\ thrown' = thrown
                     /\ pending_field' = Joined(pending_field, text)
                     /\ pending_field' \in FieldSet /\ pending_field'.size <= MaxField
<1> DEFINE text == IF newest.n = 0 THEN Empty ELSE Field("line", newest.n, newest.size)
<1>1. text \in FieldSet
  <2>1. newest.n \in Nat /\ newest.size \in Nat BY DEF Base, HooksInv, HookNumbers
  <2>2. Field("line", newest.n, newest.size) \in FieldSet BY <2>1 DEF Field, FieldSet, Kind
  <2> QED BY <2>2, FieldTypes
<1>2. Write(<< >>, text, "s_nul") BY DEF start_history
<1> HIDE DEF text
<1>3. ~Hears => UNCHANGED <<fields, pending_field, active, thrown, last>>
  BY <1>2, WriteStep DEF Base
<1>4. Hears => consume(<< >>, text) BY <1>2, WriteStep DEF Base
<1>5. Joined(pending_field, text) \in FieldSet BY <1>1, JoinedField DEF Base, FieldsInv, FieldsOK
<1>6. ~TooLong(Joined(pending_field, text).size) => Joined(pending_field, text).size <= MaxField
  <2>1. Joined(pending_field, text).size \in Nat BY <1>5 DEF FieldSet
  <2> QED BY <2>1, SessionAssumption DEF TooLong
<1>7. CASE Hears
  <2>1. /\ UNCHANGED <<fields, active, last>>
        /\ \/ /\ thrown' = TRUE /\ UNCHANGED pending_field
              /\ \/ \E i \in 1 .. Len(fields) : TooLong(fields[i].size)
                 \/ TooLong(Joined(pending_field, text).size)
           \/ /\ thrown' = thrown
              /\ pending_field' = Joined(pending_field, text)
              /\ ~TooLong(Joined(pending_field, text).size)
    BY <1>1, <1>4, <1>7, ConsumeNone DEF Base
  <2> QED BY <2>1, <1>1, <1>5, <1>6, <1>7 DEF text
<1> QED BY <1>1, <1>3, <1>7 DEF text

(* What the user writes becomes part of the pending field. *)
LEMMA Meddled ==
    ASSUME Base, RunMeddle
    PROVE  /\ UNCHANGED <<fields, active, last>>
           /\ fields = << >>
           /\ \/ ~Hears /\ UNCHANGED <<pending_field, thrown>>
              \/ /\ Hears /\ thrown' = TRUE /\ UNCHANGED pending_field
                 /\ pending_field # Empty
              \/ /\ Hears /\ thrown' = thrown
                 /\ pending_field' \in FieldSet /\ pending_field'.size <= MaxField
<1>1. Write(<< >>, Text, "prompt") BY DEF RunMeddle
<1>2. ~Hears => UNCHANGED <<fields, pending_field, active, thrown, last>>
  BY <1>1, WriteStep DEF Base
<1>3. Hears => consume(<< >>, Text) BY <1>1, WriteStep DEF Base
<1>4. fields = << >> /\ Len(fields) = 0 BY Pending DEF Base, RunMeddle
<1>5. Text \in FieldSet /\ Text.size = 1 BY FieldTypes
<1>6. /\ Joined(pending_field, Text) \in FieldSet
      /\ pending_field = Empty => Joined(pending_field, Text).size = 1
  BY <1>5, JoinedField DEF Base, FieldsInv, FieldsOK
<1>7. ~TooLong(Joined(pending_field, Text).size) => Joined(pending_field, Text).size <= MaxField
  <2>1. Joined(pending_field, Text).size \in Nat BY <1>6 DEF FieldSet
  <2> QED BY <2>1, SessionAssumption DEF TooLong
<1>8. ~TooLong(1) BY SessionAssumption DEF TooLong
<1>9. CASE Hears
  <2>1. /\ UNCHANGED <<fields, active, last>>
        /\ \/ /\ thrown' = TRUE /\ UNCHANGED pending_field
              /\ \/ \E i \in 1 .. Len(fields) : TooLong(fields[i].size)
                 \/ TooLong(Joined(pending_field, Text).size)
           \/ /\ thrown' = thrown
              /\ pending_field' = Joined(pending_field, Text)
              /\ ~TooLong(Joined(pending_field, Text).size)
    BY <1>3, <1>5, <1>9, ConsumeNone DEF Base
  <2> QED BY <2>1, <1>4, <1>6, <1>7, <1>8, <1>9
<1> QED BY <1>2, <1>4, <1>9

ArmTaken(n) ==
    /\ active.id = 0 /\ n # 0
    /\ active' = [id |-> n, started |-> FALSE, text |-> 0] /\ last' = n
StartTaken(text) ==
    /\ active.id # 0 /\ ~active.started
    /\ active' = [active EXCEPT !.started = TRUE, !.text = text] /\ last' = last
EndTaken ==
    /\ active.id # 0 /\ active.started
    /\ active' = [id |-> 0, started |-> FALSE, text |-> 0] /\ last' = last

(* The end of a Start marker, when the marker is as the hooks write it. *)
StartDue ==
    /\ fields[1] = Letter("S") /\ fields[2] = Number(active_command) /\ fields[3] = Text
    /\ pending_field.kind = "line"
    /\ active.id = active_command /\ active_command > 0 /\ ~active.started

(* The end of a Start marker: a marker that is due is taken. *)
LEMMA StartEnded ==
    ASSUME Base, start_ends
    PROVE  \/ ~Hears /\ UNCHANGED <<fields, pending_field, active, thrown, last>>
           \/ /\ Hears /\ thrown' = TRUE /\ UNCHANGED <<active, last>>
              /\ FieldsOK' /\ ~StartDue
           \/ /\ Hears /\ thrown' = FALSE /\ fields' = << >> /\ pending_field' = Empty
              /\ StartTaken(pending_field.value) \/ (EndTaken /\ ~StartDue)
<1> DEFINE ended == <<Empty>>
           f == All(ended)
<1>1. /\ fields \in Seq(FieldSet) /\ pending_field \in FieldSet
      /\ Hears => Len(fields) = 3 /\ fields[1].kind # "A"
  BY Pending DEF Base, start_ends, FieldsInv, FieldsOK
<1>2. Empty \in FieldSet BY FieldTypes
<1>3. ended \in Seq(FieldSet) /\ Len(ended) = 1 /\ ended # << >> /\ ended[1] = Empty
  BY <1>2, Tuples
<1>4. Write(ended, Empty, next) BY DEF start_ends
<1>5. ~Hears => UNCHANGED <<fields, pending_field, active, thrown, last>>
  BY <1>4, WriteStep DEF Base
<1>6. Hears => consume(ended, Empty) BY <1>4, WriteStep DEF Base
<1> HIDE DEF ended
<1>7. SUFFICES ASSUME Hears
               PROVE  \/ /\ thrown' = TRUE /\ UNCHANGED <<active, last>>
                         /\ FieldsOK' /\ ~StartDue
                      \/ /\ thrown' = FALSE /\ fields' = << >> /\ pending_field' = Empty
                         /\ StartTaken(pending_field.value) \/ (EndTaken /\ ~StartDue)
  BY <1>5
<1>8. Joined(pending_field, Empty) = pending_field BY <1>1, <1>2, JoinedField
<1>9. /\ f \in Seq(FieldSet) /\ Len(f) = 4
      /\ f[1] = fields[1] /\ f[2] = fields[2] /\ f[3] = fields[3] /\ f[4] = pending_field
  <2>1. /\ All(ended) \in Seq(FieldSet)
        /\ Len(All(ended)) = Len(fields) + Len(ended)
        /\ \A i \in 1 .. Len(fields) : All(ended)[i] = fields[i]
        /\ All(ended)[Len(fields) + 1] = Joined(pending_field, ended[1])
    BY <1>1, <1>3, AllFields
  <2>2. Len(fields) = 3 BY <1>1, <1>7
  <2>3. /\ Len(All(ended)) = 4 /\ All(ended)[4] = pending_field
        /\ \A i \in 1 .. 3 : All(ended)[i] = fields[i]
    BY <2>1, <2>2, <1>3, <1>8
  <2>4. 1 \in 1 .. 3 /\ 2 \in 1 .. 3 /\ 3 \in 1 .. 3 OBVIOUS
  <2>5. f = All(ended) OBVIOUS
  <2> HIDE DEF f
  <2>6. f[1] = fields[1] /\ f[2] = fields[2] /\ f[3] = fields[3]
    BY <2>3, <2>4, <2>5
  <2> QED BY <2>1, <2>3, <2>5, <2>6
<1>10. \/ /\ thrown' = TRUE /\ UNCHANGED <<fields, pending_field, active, last>>
          /\ \E i \in 1 .. Len(f) : TooLong(f[i].size)
       \/ /\ pending_field' = Empty
          /\ fields' = SubSeq(f, 5, Len(f))
          /\ on_command_marker(decode_record(f))
  <2>1. ~(Len(f) < 4) BY <1>9
  <2> QED BY <2>1, <1>3, <1>6, <1>7, ConsumeSome DEF Base
<1> HIDE DEF f
<1>11. ASSUME StartDue
       PROVE  /\ \A i \in 1 .. Len(f) : ~TooLong(f[i].size)
              /\ IsStart(f) /\ ~IsEnd(f)
  <2>1. /\ Letter("S").size = 1 /\ Text.size = 1 /\ Letter("S").kind = "S"
        /\ Number(active_command).size = 1 /\ Number(active_command).kind = "number"
        /\ Number(active_command).value = active_command
    BY FieldTypes DEF Base, HooksInv, HookNumbers, Kind
  <2>2. ~TooLong(1) BY SessionAssumption DEF TooLong
  <2>3. ~TooLong(pending_field.size)
    <3>1. pending_field.size \in Nat /\ pending_field.size <= MaxField
      BY DEF Base, FieldsInv, FieldsOK, FieldSet
    <3> QED BY <3>1, SessionAssumption DEF TooLong
  <2>4. \A i \in 1 .. Len(f) : ~TooLong(f[i].size)
    BY <1>9, <1>11, <2>1, <2>2, <2>3 DEF StartDue
  <2>5. active_command # 0 BY <1>11 DEF StartDue, Base, HooksInv
  <2> QED BY <1>9, <1>11, <2>1, <2>4, <2>5 DEF StartDue, IsStart, IsEnd
<1>12. CASE /\ thrown' = TRUE /\ UNCHANGED <<fields, pending_field, active, last>>
            /\ \E i \in 1 .. Len(f) : TooLong(f[i].size)
  BY <1>11, <1>12 DEF FieldsOK, Base, FieldsInv
<1>13. CASE /\ pending_field' = Empty
            /\ fields' = SubSeq(f, 5, Len(f))
            /\ on_command_marker(decode_record(f))
  <2>1. fields' = << >> BY <1>9, <1>13
  <2>2. FieldsOK'
    <3>1. Empty \in FieldSet /\ Empty.size = 0 BY FieldTypes
    <3>2. fields' \in Seq(FieldSet) /\ Len(fields') = 0 BY <2>1
    <3> QED BY <1>13, <2>1, <3>1, <3>2, SessionAssumption DEF FieldsOK
  <2>3. thrown = FALSE
    BY DEF Base, HooksInv, HookTypes, HookOrder, start_ends
  <2>4. \/ IsArm(f)
        \/ /\ IsStart(f) /\ last' = last /\ thrown' = FALSE
           /\ active' = [active EXCEPT !.started = TRUE, !.text = f[4].value]
        \/ /\ IsEnd(f) /\ last' = last /\ thrown' = FALSE
           /\ active' = [id |-> 0, started |-> FALSE, text |-> 0]
        \/ /\ ~IsArm(f) /\ ~IsStart(f) /\ ~IsEnd(f)
           /\ thrown' = TRUE /\ UNCHANGED <<active, last>>
    BY <1>13, <2>3, MarkerStep
  <2>5. ~IsArm(f) BY <1>1, <1>7, <1>9 DEF IsArm
  <2> QED BY <1>9, <1>11, <1>13, <2>1, <2>2, <2>4, <2>5
        DEF StartTaken, EndTaken, IsStart, IsEnd
<1> QED BY <1>10, <1>12, <1>13

(* Four fields are added to none or to three. *)
LEMMA AllFour ==
    ASSUME FieldsOK, NEW ended \in Seq(FieldSet), Len(ended) = 4, ended # << >>
    PROVE  /\ All(ended) \in Seq(FieldSet) /\ Len(All(ended)) >= 4
           /\ \A i \in 1 .. 4 : All(ended)[i] \in FieldSet
           /\ SubSeq(All(ended), 5, Len(All(ended))) \in Seq(FieldSet)
           /\ fields = << >> =>
                /\ Len(All(ended)) = 4
                /\ All(ended)[1] = Joined(pending_field, ended[1])
                /\ All(ended)[2] = ended[2] /\ All(ended)[3] = ended[3]
                /\ All(ended)[4] = ended[4]
                /\ SubSeq(All(ended), 5, Len(All(ended))) = << >>
           /\ fields # << >> =>
                /\ All(ended)[1] = fields[1] /\ All(ended)[2] = fields[2]
                /\ Len(SubSeq(All(ended), 5, Len(All(ended)))) = 3
                /\ SubSeq(All(ended), 5, Len(All(ended)))[1] = ended[2]
                /\ SubSeq(All(ended), 5, Len(All(ended)))[2] = ended[3]
<1> DEFINE f == All(ended)
           rest == SubSeq(f, 5, Len(f))
<1>2. fields \in Seq(FieldSet) /\ pending_field \in FieldSet /\ Len(fields) \in {0, 3}
  BY DEF FieldsOK
<1>3. /\ f \in Seq(FieldSet)
      /\ Len(f) = Len(fields) + Len(ended)
      /\ \A i \in 1 .. Len(fields) : f[i] = fields[i]
      /\ f[Len(fields) + 1] = Joined(pending_field, ended[1])
      /\ \A i \in 2 .. Len(ended) : f[Len(fields) + i] = ended[i]
  BY <1>2, AllFields
<1> HIDE DEF f
<1>5. f \in Seq(FieldSet) /\ Len(f) = Len(fields) + 4 /\ Len(f) >= 4
  BY <1>2, <1>3
<1>6. \A i \in 1 .. 4 : f[i] \in FieldSet BY <1>5
<1>7. /\ rest \in Seq(FieldSet) /\ Len(rest) = Len(f) - 4
      /\ \A i \in 1 .. Len(f) - 4 : rest[i] = f[i + 4]
  BY <1>5, RestFields
<1> HIDE DEF rest
<1>8. 2 \in 2 .. Len(ended) /\ 3 \in 2 .. Len(ended) /\ 4 \in 2 .. Len(ended) OBVIOUS
<1>9. /\ f[Len(fields) + 2] = ended[2] /\ f[Len(fields) + 3] = ended[3]
      /\ f[Len(fields) + 4] = ended[4]
  BY <1>3, <1>8
<1>10. CASE fields = << >>
  <2>1. Len(fields) = 0 BY <1>10
  <2>2. /\ f[1] = Joined(pending_field, ended[1]) /\ f[2] = ended[2] /\ f[3] = ended[3]
        /\ f[4] = ended[4]
    BY <2>1, <1>3, <1>9
  <2>3. Len(f) = 4 /\ Len(rest) = 0 BY <2>1, <1>5, <1>7
  <2>4. rest = << >> BY <2>3, <1>7
  <2> QED BY <1>5, <1>6, <1>7, <1>10, <2>2, <2>3, <2>4 DEF f, rest
<1>11. CASE fields # << >>
  <2>1. Len(fields) = 3 BY <1>2, <1>11
  <2>2. f[5] = ended[2] /\ f[6] = ended[3] BY <2>1, <1>9
  <2>3. Len(f) = 7 /\ Len(rest) = 3 BY <2>1, <1>5, <1>7
  <2>4. 1 \in 1 .. Len(f) - 4 /\ 2 \in 1 .. Len(f) - 4 BY <2>3
  <2>5. rest[1] = f[5] /\ rest[2] = f[6] BY <2>4, <1>7
  <2>6. 1 \in 1 .. Len(fields) /\ 2 \in 1 .. Len(fields) BY <2>1
  <2>7. f[1] = fields[1] /\ f[2] = fields[2] BY <2>6, <1>3
  <2> QED BY <1>5, <1>6, <1>7, <1>11, <2>2, <2>3, <2>5, <2>7 DEF f, rest
<1> QED BY <1>10, <1>11

(* An End marker, when a command is there to be ended. *)
EndDue == Whole /\ active.id = active_command /\ active.started
(* An End marker that is due is taken; one that completes half a Start marker
   leaves three fields. *)
LEMMA EndWritten ==
    ASSUME Base, prompt_ends, active_command > 0
    PROVE  \/ ~Hears /\ UNCHANGED <<fields, pending_field, active, thrown, last>>
           \/ /\ Hears /\ thrown' = TRUE /\ UNCHANGED <<active, last>>
              /\ FieldsOK' /\ ~EndDue
           \/ /\ Hears /\ thrown' = FALSE /\ FieldsOK' /\ pending_field' = Empty
              /\ fields = << >> => fields' = << >>
              /\ fields # << >> => fields' # << >> /\ fields'[2] = Number(0)
              /\ EndTaken \/ (\E text \in Nat : StartTaken(text) /\ fields # << >>)
<1> DEFINE ended == <<Letter("E"), Number(active_command), Number(0), Text>>
           f == All(ended)
           rest == SubSeq(f, 5, Len(f))
<1>1. /\ fields \in Seq(FieldSet) /\ pending_field \in FieldSet /\ FieldsOK
      /\ fields # << >> => fields[1].kind # "A"
  BY DEF Base, FieldsInv, FieldsOK
<1>2. /\ Letter("E") \in FieldSet /\ Number(active_command) \in FieldSet
      /\ Number(0) \in FieldSet /\ Text \in FieldSet
      /\ Letter("E").size = 1 /\ Number(active_command).size = 1 /\ Number(0).size = 1
      /\ Text.size = 1 /\ Letter("E").kind = "E" /\ Number(active_command).kind = "number"
      /\ Number(0).kind = "number" /\ Number(active_command).value = active_command
      /\ Empty \in FieldSet /\ Empty.size = 0
  BY FieldTypes DEF Base, HooksInv, HookNumbers, Kind
<1>3. /\ ended \in Seq(FieldSet) /\ Len(ended) = 4 /\ ended # << >>
      /\ ended[1] = Letter("E") /\ ended[2] = Number(active_command)
      /\ ended[3] = Number(0) /\ ended[4] = Text
  BY <1>2, Tuples
<1>4. active_command \in Nat /\ active_command # 0 BY DEF Base, HooksInv, HookNumbers
<1>5. Write(ended, Empty, "p_reset") BY <1>4 DEF prompt_ends
<1>6. ~Hears => UNCHANGED <<fields, pending_field, active, thrown, last>>
  BY <1>5, WriteStep DEF Base
<1>7. Hears => consume(ended, Empty) BY <1>5, WriteStep DEF Base
<1> HIDE DEF ended
<1>8. /\ f \in Seq(FieldSet) /\ Len(f) >= 4 /\ rest \in Seq(FieldSet)
      /\ \A i \in 1 .. 4 : f[i] \in FieldSet
      /\ fields = << >> =>
           /\ f[1] = Joined(pending_field, Letter("E"))
           /\ Len(f) = 4 /\ f[2] = Number(active_command) /\ f[3] = Number(0) /\ f[4] = Text
           /\ rest = << >>
      /\ fields # << >> =>
           /\ f[1] = fields[1] /\ f[2] = fields[2]
           /\ Len(rest) = 3 /\ rest[1] = Number(active_command) /\ rest[2] = Number(0)
  BY <1>1, <1>3, AllFour
<1> HIDE DEF f, rest
<1>9. Hears =>
       \/ /\ thrown' = TRUE /\ UNCHANGED <<fields, pending_field, active, last>>
          /\ \E i \in 1 .. Len(f) : TooLong(f[i].size)
       \/ /\ pending_field' = Empty
          /\ fields' = rest
          /\ on_command_marker(decode_record(f))
  <2>1. ~(Len(f) < 4) BY <1>8
  <2> QED BY <2>1, <1>3, <1>7, ConsumeSome DEF Base, f, rest
<1>10. ASSUME EndDue
       PROVE  /\ \A i \in 1 .. Len(f) : ~TooLong(f[i].size)
              /\ IsEnd(f)
  <2>1. fields = << >> /\ pending_field = Empty /\ active.id = active_command /\ active.started
    BY <1>10 DEF EndDue, Whole
  <2>2. Joined(pending_field, Letter("E")) = Letter("E") BY <1>1, <1>2, <2>1, JoinedField
  <2>3. /\ f[1] = Letter("E") /\ Len(f) = 4 /\ f[2] = Number(active_command)
        /\ f[3] = Number(0) /\ f[4] = Text
    BY <1>8, <2>1, <2>2
  <2>4. ~TooLong(1) BY SessionAssumption DEF TooLong
  <2>5. \A i \in 1 .. Len(f) : i = 1 \/ i = 2 \/ i = 3 \/ i = 4 BY <2>3
  <2>6. \A i \in 1 .. Len(f) : ~TooLong(f[i].size) BY <1>2, <2>3, <2>4, <2>5
  <2> QED BY <1>2, <1>4, <2>1, <2>3, <2>6 DEF IsEnd
<1>11. CASE ~Hears BY <1>6, <1>11
<1>12. CASE /\ Hears /\ thrown' = TRUE /\ UNCHANGED <<fields, pending_field, active, last>>
            /\ \E i \in 1 .. Len(f) : TooLong(f[i].size)
  <2>1. FieldsOK' BY <1>1, <1>12 DEF FieldsOK
  <2> QED BY <1>10, <1>12, <2>1
<1>13. CASE /\ Hears /\ pending_field' = Empty
            /\ fields' = rest
            /\ on_command_marker(decode_record(f))
  <2>1. FieldsOK'
    <3>1. Len(fields') \in {0, 3} BY <1>8, <1>13
    <3>2. fields' # << >> => fields'[1].kind # "A" BY <1>2, <1>8, <1>13
    <3> QED BY <1>2, <1>8, <1>13, <3>1, <3>2, SessionAssumption DEF FieldsOK
  <2>2. /\ fields = << >> => fields' = << >>
        /\ fields # << >> => fields' # << >> /\ fields'[2] = Number(0)
    BY <1>8, <1>13
  <2>3. thrown = FALSE BY DEF Base, HooksInv, HookTypes, HookOrder, prompt_ends
  <2>4. \/ IsArm(f)
        \/ /\ IsStart(f) /\ last' = last /\ thrown' = FALSE
           /\ active' = [active EXCEPT !.started = TRUE, !.text = f[4].value]
        \/ /\ IsEnd(f) /\ last' = last /\ thrown' = FALSE
           /\ active' = [id |-> 0, started |-> FALSE, text |-> 0]
        \/ /\ ~IsArm(f) /\ ~IsStart(f) /\ ~IsEnd(f)
           /\ thrown' = TRUE /\ UNCHANGED <<active, last>>
    BY <1>13, <2>3, MarkerStep
  <2>5. Joined(pending_field, Letter("E")).kind \in {"E", "line", "mixed"}
    <3>1. pending_field = Empty => Joined(pending_field, Letter("E")) = Letter("E")
      BY <1>1, <1>2, JoinedField
    <3>2. pending_field # Empty => Joined(pending_field, Letter("E")).kind \in {"line", "mixed"}
      <4>1. Letter("E") # Empty BY <1>2
      <4> QED BY <4>1, <1>1, <1>2, JoinedField
    <3> QED BY <3>1, <3>2, <1>2
  <2>6. ~IsArm(f) /\ (IsStart(f) => fields # << >>)
    BY <1>1, <1>8, <2>5 DEF IsArm, IsStart
  <2>7. f[4].value \in Nat
    <3>1. f[4] \in FieldSet BY <1>8
    <3> QED BY <3>1 DEF FieldSet
  <2>8. CASE IsStart(f) /\ thrown' = FALSE /\ last' = last
             /\ active' = [active EXCEPT !.started = TRUE, !.text = f[4].value]
    <3>1. StartTaken(f[4].value) BY <2>8 DEF StartTaken, IsStart
    <3> QED BY <1>13, <2>1, <2>2, <2>6, <2>7, <2>8, <3>1
  <2>9. CASE IsEnd(f) /\ thrown' = FALSE /\ last' = last
             /\ active' = [id |-> 0, started |-> FALSE, text |-> 0]
    <3>1. EndTaken BY <2>9 DEF EndTaken, IsEnd
    <3> QED BY <1>13, <2>1, <2>2, <2>9, <3>1
  <2>10. CASE ~IsEnd(f) /\ thrown' = TRUE /\ UNCHANGED <<active, last>>
    BY <1>10, <1>13, <2>1, <2>10
  <2> QED BY <2>4, <2>6, <2>8, <2>9, <2>10
<1> QED BY <1>9, <1>11, <1>12, <1>13

(* An Arm marker, when no command is active. *)
ArmDue == Whole /\ active.id = 0
(* An Arm marker that is due is taken; one that meets three fields fails. *)
LEMMA ArmWritten ==
    ASSUME Base, prompt_arms
    PROVE  \/ ~Hears /\ UNCHANGED <<fields, pending_field, active, thrown, last>>
           \/ /\ Hears /\ thrown' = TRUE /\ UNCHANGED <<active, last>>
              /\ FieldsOK' /\ ~ArmDue
           \/ /\ Hears /\ thrown' = FALSE /\ fields = << >> /\ fields' = << >>
              /\ pending_field' = Empty /\ ArmTaken(active_command)
<1> DEFINE ended == <<Letter("A"), Number(active_command), Text, Empty>>
           f == All(ended)
           rest == SubSeq(f, 5, Len(f))
<1>1. /\ fields \in Seq(FieldSet) /\ pending_field \in FieldSet /\ FieldsOK
      /\ fields # << >> => fields[2] = Number(0)
  BY Pending DEF Base, FieldsInv, FieldsOK, prompt_arms, HalfEnd
<1>2. /\ Letter("A") \in FieldSet /\ Number(active_command) \in FieldSet
      /\ Text \in FieldSet /\ Number(0).value = 0
      /\ Letter("A").size = 1 /\ Number(active_command).size = 1
      /\ Text.size = 1 /\ Letter("A").kind = "A" /\ Number(active_command).kind = "number"
      /\ Number(active_command).value = active_command
      /\ Empty \in FieldSet /\ Empty.size = 0
  BY FieldTypes DEF Base, HooksInv, HookNumbers, Kind
<1>3. /\ ended \in Seq(FieldSet) /\ Len(ended) = 4 /\ ended # << >>
      /\ ended[1] = Letter("A") /\ ended[2] = Number(active_command)
      /\ ended[3] = Text /\ ended[4] = Empty
  BY <1>2, Tuples
<1>4. active_command \in Nat /\ active_command # 0
  BY DEF Base, HooksInv, HookNumbers, HookOrder, prompt_arms
<1>5. Write(ended, Empty, "p_at") BY DEF prompt_arms
<1>6. ~Hears => UNCHANGED <<fields, pending_field, active, thrown, last>>
  BY <1>5, WriteStep DEF Base
<1>7. Hears => consume(ended, Empty) BY <1>5, WriteStep DEF Base
<1> HIDE DEF ended
<1>8. /\ f \in Seq(FieldSet) /\ Len(f) >= 4 /\ rest \in Seq(FieldSet)
      /\ fields = << >> =>
           /\ f[1] = Joined(pending_field, Letter("A"))
           /\ Len(f) = 4 /\ f[2] = Number(active_command) /\ f[3] = Text /\ f[4] = Empty
           /\ rest = << >>
      /\ fields # << >> =>
           /\ f[1] = fields[1] /\ f[2] = fields[2]
           /\ Len(rest) = 3 /\ rest[1] = Number(active_command)
  BY <1>1, <1>3, AllFour
<1> HIDE DEF f, rest
<1>9. Hears =>
       \/ /\ thrown' = TRUE /\ UNCHANGED <<fields, pending_field, active, last>>
          /\ \E i \in 1 .. Len(f) : TooLong(f[i].size)
       \/ /\ pending_field' = Empty
          /\ fields' = rest
          /\ on_command_marker(decode_record(f))
  <2>1. ~(Len(f) < 4) BY <1>8
  <2> QED BY <2>1, <1>3, <1>7, ConsumeSome DEF Base, f, rest
<1>10. ASSUME ArmDue
       PROVE  /\ \A i \in 1 .. Len(f) : ~TooLong(f[i].size)
              /\ IsArm(f)
  <2>1. fields = << >> /\ pending_field = Empty /\ active.id = 0
    BY <1>10 DEF ArmDue, Whole
  <2>2. Joined(pending_field, Letter("A")) = Letter("A") BY <1>1, <1>2, <2>1, JoinedField
  <2>3. /\ f[1] = Letter("A") /\ Len(f) = 4 /\ f[2] = Number(active_command)
        /\ f[3] = Text /\ f[4] = Empty
    BY <1>8, <2>1, <2>2
  <2>4. ~TooLong(1) /\ ~TooLong(0) BY SessionAssumption DEF TooLong
  <2>5. \A i \in 1 .. Len(f) : i = 1 \/ i = 2 \/ i = 3 \/ i = 4 BY <2>3
  <2>6. \A i \in 1 .. Len(f) : ~TooLong(f[i].size) BY <1>2, <2>3, <2>4, <2>5
  <2> QED BY <1>2, <1>4, <2>1, <2>3, <2>6 DEF IsArm
<1>11. CASE ~Hears BY <1>6, <1>11
<1>12. CASE /\ Hears /\ thrown' = TRUE /\ UNCHANGED <<fields, pending_field, active, last>>
            /\ \E i \in 1 .. Len(f) : TooLong(f[i].size)
  <2>1. FieldsOK' BY <1>1, <1>12 DEF FieldsOK
  <2> QED BY <1>10, <1>12, <2>1
<1>13. CASE /\ Hears /\ pending_field' = Empty
            /\ fields' = rest
            /\ on_command_marker(decode_record(f))
  <2>1. FieldsOK'
    <3>1. Len(fields') \in {0, 3} BY <1>8, <1>13
    <3>2. fields' # << >> => fields'[1].kind # "A" BY <1>2, <1>8, <1>13
    <3> QED BY <1>2, <1>8, <1>13, <3>1, <3>2, SessionAssumption DEF FieldsOK
  <2>2. fields = << >> => fields' = << >> BY <1>8, <1>13
  <2>3. thrown = FALSE
    BY DEF Base, HooksInv, HookTypes, HookOrder, prompt_arms
  <2>4. \/ /\ IsArm(f) /\ last' = f[2].value /\ thrown' = FALSE
           /\ active' = [id |-> f[2].value, started |-> FALSE, text |-> 0]
        \/ IsStart(f)
        \/ IsEnd(f)
        \/ /\ ~IsArm(f) /\ ~IsStart(f) /\ ~IsEnd(f)
           /\ thrown' = TRUE /\ UNCHANGED <<active, last>>
    BY <1>13, <2>3, MarkerStep
  <2>5. CASE fields # << >>
    <3>1. f[2].value = 0 BY <1>1, <1>2, <1>8, <2>5
    <3>2. ~IsArm(f) /\ ~IsStart(f) /\ ~IsEnd(f) BY <3>1 DEF IsArm, IsStart, IsEnd
    <3> QED BY <1>10, <1>13, <2>1, <2>4, <3>2
  <2>6. CASE fields = << >>
    <3>1. Joined(pending_field, Letter("A")).kind \in {"A", "line", "mixed"}
      <4>1. pending_field = Empty => Joined(pending_field, Letter("A")) = Letter("A")
        BY <1>1, <1>2, JoinedField
      <4>2. pending_field # Empty =>
              Joined(pending_field, Letter("A")).kind \in {"line", "mixed"}
        <5>1. Letter("A") # Empty BY <1>2
        <5> QED BY <5>1, <1>1, <1>2, JoinedField
      <4> QED BY <4>1, <4>2, <1>2
    <3>2. ~IsStart(f) /\ ~IsEnd(f) BY <1>8, <2>6, <3>1 DEF IsStart, IsEnd
    <3>3. CASE IsArm(f) /\ last' = f[2].value /\ thrown' = FALSE
               /\ active' = [id |-> f[2].value, started |-> FALSE, text |-> 0]
      <4>1. ArmTaken(active_command)
        BY <1>2, <1>4, <1>8, <2>6, <3>3 DEF ArmTaken, IsArm
      <4> QED BY <1>13, <2>2, <2>6, <3>3, <4>1
    <3>4. CASE ~IsArm(f) /\ thrown' = TRUE /\ UNCHANGED <<active, last>>
      BY <1>10, <1>13, <2>1, <3>4
    <3> QED BY <2>4, <3>2, <3>3, <3>4
  <2> QED BY <2>5, <2>6
<1> QED BY <1>9, <1>11, <1>12, <1>13

-----------------------------------------------------------------------------
(* The variables of the hooks in every state *)

(* What a write means to the shell: it goes on, or it is gone. *)
LEMMA WriteGoesOn ==
    ASSUME Base, NEW goto,
           \/ start_prints /\ goto = "s_history"
           \/ start_history /\ goto = "s_nul"
           \/ start_ends /\ goto = next
           \/ prompt_ends /\ active_command > 0 /\ goto = "p_reset"
           \/ prompt_arms /\ goto = "p_at"
           \/ RunMeddle /\ goto = "prompt"
    PROVE  /\ thrown = FALSE /\ thrown' \in BOOLEAN /\ unseen' = unseen
           /\ pc' = IF thrown' THEN "gone" ELSE goto
           /\ last' = last \/ (prompt_arms /\ last' = active_command)
           /\ ActiveInv'
           /\ FieldsOK'
           /\ table' = table /\ (Hears' <=> Hears)
<1>1. thrown = FALSE
  BY DEF Base, HooksInv, HookTypes, HookOrder, start_prints, start_history, start_ends,
         prompt_ends, prompt_arms, RunMeddle
<1>2. \E ended, open : Write(ended, open, goto)
  <2>1. CASE start_prints /\ goto = "s_history" BY <2>1 DEF start_prints
  <2>2. CASE start_history /\ goto = "s_nul" BY <2>2 DEF start_history
  <2>3. CASE start_ends /\ goto = next BY <2>3 DEF start_ends
  <2>4. CASE prompt_ends /\ active_command > 0 /\ goto = "p_reset"
    <3>1. active_command # 0 BY <2>4 DEF Base, HooksInv, HookNumbers
    <3> QED BY <2>4, <3>1 DEF prompt_ends
  <2>5. CASE prompt_arms /\ goto = "p_at" BY <2>5 DEF prompt_arms
  <2>6. CASE RunMeddle /\ goto = "prompt" BY <2>6 DEF RunMeddle
  <2> QED BY <2>1, <2>2, <2>3, <2>4, <2>5, <2>6
<1>3. PICK ended, open : Write(ended, open, goto) BY <1>2
<1>4. /\ pc' = IF thrown' THEN "gone" ELSE goto
      /\ unseen' = unseen /\ table' = table /\ (Hears' <=> Hears)
  BY <1>3, WriteStep, WriteKeeps DEF Base
<1>5. FieldsOK /\ ActiveInv BY DEF Base, FieldsInv
<1>6. ASSUME UNCHANGED <<active, last>> PROVE ActiveInv' /\ last' = last
  BY <1>5, <1>6 DEF ActiveInv
<1>7. ASSUME UNCHANGED <<fields, pending_field>> PROVE FieldsOK'
  BY <1>5, <1>7 DEF FieldsOK
<1>8. ASSUME NEW v \in Nat, StartTaken(v) PROVE ActiveInv' /\ last' = last
  BY <1>5, <1>8 DEF ActiveInv, StartTaken
<1>9. ASSUME EndTaken PROVE ActiveInv' /\ last' = last
  <2>1. 0 \in 0 .. MaxCommand BY SessionAssumption
  <2> QED BY <1>5, <1>9, <2>1 DEF ActiveInv, EndTaken
<1>10. ASSUME fields' = << >>, pending_field' = Empty PROVE FieldsOK'
  <2>1. << >> \in Seq(FieldSet) /\ Len(<< >>) = 0 OBVIOUS
  <2> QED BY <1>10, <2>1, FieldTypes, SessionAssumption DEF FieldsOK
<1>11. ASSUME fields' = fields, pending_field' \in FieldSet, pending_field'.size <= MaxField
       PROVE  FieldsOK'
  BY <1>5, <1>11 DEF FieldsOK
<1>12. CASE start_prints
  <2>1. ActiveInv' /\ last' = last BY <1>12, <1>6, Printed
  <2>2. thrown' \in BOOLEAN BY <1>1, <1>12, Printed
  <2>3. FieldsOK'
    <3>1. CASE UNCHANGED <<fields, pending_field>> BY <3>1, <1>7
    <3>2. CASE /\ pending_field' = Empty
               /\ fields' \in Seq(FieldSet) /\ Len(fields') = 3
               /\ fields'[1] = Joined(pending_field, Letter("S"))
      <4>1. Letter("S") \in FieldSet /\ Letter("S").kind = "S" /\ Letter("S") # Empty
            /\ Empty \in FieldSet /\ Empty.size = 0
        BY FieldTypes DEF Kind
      <4>2. fields'[1].kind # "A"
        <5>1. pending_field = Empty => Joined(pending_field, Letter("S")) = Letter("S")
          BY <1>5, <4>1, JoinedField DEF FieldsOK
        <5>2. pending_field # Empty =>
                Joined(pending_field, Letter("S")).kind \in {"line", "mixed"}
          BY <1>5, <4>1, JoinedField DEF FieldsOK
        <5> QED BY <3>2, <4>1, <5>1, <5>2
      <4> QED BY <3>2, <4>1, <4>2, SessionAssumption DEF FieldsOK
    <3> QED BY <1>12, <3>1, <3>2, Printed
  <2> QED BY <1>1, <1>4, <2>1, <2>2, <2>3
<1>13. CASE start_history
  <2>1. UNCHANGED <<fields, active, last>> BY <1>13, HistoryWritten
  <2>2. /\ thrown' \in BOOLEAN
        /\ \/ UNCHANGED pending_field
           \/ (pending_field' \in FieldSet /\ pending_field'.size <= MaxField)
    BY <1>1, <1>13, HistoryWritten
  <2> QED BY <1>1, <1>4, <1>6, <1>7, <1>11, <2>1, <2>2
<1>14. CASE RunMeddle
  <2>1. UNCHANGED <<fields, active, last>> BY <1>14, Meddled
  <2>2. /\ thrown' \in BOOLEAN
        /\ \/ UNCHANGED pending_field
           \/ (pending_field' \in FieldSet /\ pending_field'.size <= MaxField)
    BY <1>1, <1>14, Meddled
  <2> QED BY <1>1, <1>4, <1>6, <1>7, <1>11, <2>1, <2>2
<1>15. CASE start_ends
  <2>1. pending_field.value \in Nat BY <1>5 DEF FieldsOK, FieldSet
  <2>2. CASE UNCHANGED <<fields, pending_field, active, thrown, last>>
    BY <1>1, <1>4, <1>6, <1>7, <2>2
  <2>3. CASE thrown' = TRUE /\ UNCHANGED <<active, last>> /\ FieldsOK'
    BY <1>1, <1>4, <1>6, <2>3
  <2>4. CASE thrown' = FALSE /\ fields' = << >> /\ pending_field' = Empty
             /\ (StartTaken(pending_field.value) \/ EndTaken)
    BY <1>1, <1>4, <1>8, <1>9, <1>10, <2>1, <2>4
  <2> QED BY <1>15, <2>2, <2>3, <2>4, StartEnded
<1>16. CASE prompt_ends /\ active_command > 0
  <2>2. CASE UNCHANGED <<fields, pending_field, active, thrown, last>>
    BY <1>1, <1>4, <1>6, <1>7, <2>2
  <2>3. CASE thrown' = TRUE /\ UNCHANGED <<active, last>> /\ FieldsOK'
    BY <1>1, <1>4, <1>6, <2>3
  <2>4. CASE thrown' = FALSE /\ FieldsOK' /\ (EndTaken \/ \E v \in Nat : StartTaken(v))
    BY <1>1, <1>4, <1>8, <1>9, <2>4
  <2> QED BY <1>16, <2>2, <2>3, <2>4, EndWritten
<1>17. CASE prompt_arms
  <2>2. CASE UNCHANGED <<fields, pending_field, active, thrown, last>>
    BY <1>1, <1>4, <1>6, <1>7, <2>2
  <2>3. CASE thrown' = TRUE /\ UNCHANGED <<active, last>> /\ FieldsOK'
    BY <1>1, <1>4, <1>6, <2>3
  <2>4. CASE thrown' = FALSE /\ fields' = << >> /\ pending_field' = Empty
             /\ ArmTaken(active_command)
    <3>1. active_command \in 0 .. MaxCommand BY DEF Base, HooksInv, HookNumbers
    <3>2. ActiveInv' /\ last' = active_command BY <2>4, <3>1 DEF ActiveInv, ArmTaken
    <3> QED BY <1>1, <1>4, <1>10, <1>17, <2>4, <3>2
  <2> QED BY <1>17, <2>2, <2>3, <2>4, ArmWritten
<1> QED BY <1>12, <1>13, <1>14, <1>15, <1>16, <1>17

(* The session starts before its first prompt. *)
LEMMA HooksInit == BInit => HooksInv
<1> SUFFICES ASSUME BInit PROVE HooksInv
  OBVIOUS
<1>1. HookTypes BY DEF BInit, HookTypes, HookStep, StartStep, PromptStep
<1>2. HookNumbers
  <2>1. MaxCommand \in Nat BY SessionAssumption
  <2>2. newest = [n |-> 0, size |-> 0] BY DEF BInit, NoLine
  <2>3. newest \in [n : Nat, size : Nat] /\ newest.n = 0 BY <2>2
  <2> QED BY <2>1, <2>3 DEF BInit, HookNumbers
<1>3. HookOrder BY DEF BInit, HookOrder, StartStep, PromptStep
<1> QED BY <1>1, <1>2, <1>3 DEF HooksInv

(* Every step keeps the variables of the hooks in order. *)
LEMMA HooksNext == Base /\ [BNext]_bvars => HooksInv'
<1> SUFFICES ASSUME Base, [BNext]_bvars PROVE HooksInv'
  OBVIOUS
<1>1. HookTypes /\ HookNumbers /\ HookOrder BY DEF Base, HooksInv
<1>2. MaxCommand \in Nat BY SessionAssumption
<1> DEFINE Steps == HookStep \cup {"prompt", "idle", "run", "gone"}
<1>3. ASSUME UNCHANGED <<sequence, active_command, last, lines>> PROVE HookNumbers'
  BY <1>1, <1>3 DEF HookNumbers, lines
<1>4. ASSUME NEW goto \in Steps, pc # "gone",
             UNCHANGED <<next, hooks, lines, unseen>>,
             disturbed' \in BOOLEAN, disturbed => disturbed',
             thrown' \in BOOLEAN, pc' = IF thrown' THEN "gone" ELSE goto
      PROVE  /\ HookTypes'
             /\ last' = last => HookNumbers'
             /\ (/\ goto \notin {"p_set", "p_arm", "p_at", "p_skip", "p_debug"}
                 /\ (goto \in StartStep => pc \in StartStep)
                 /\ (goto \in {"s_print", "s_history", "s_nul"} =>
                         pc \in {"s_print", "s_history", "s_nul"})
                 /\ (goto \in PromptStep \ {"p_trap"} => ~trap)) => HookOrder'
  <2>1. HookTypes' BY <1>1, <1>4 DEF HookTypes, hooks
  <2>2. last' = last => HookNumbers' BY <1>3, <1>4 DEF hooks
  <2>3. ASSUME goto \notin {"p_set", "p_arm", "p_at", "p_skip", "p_debug"},
               goto \in StartStep => pc \in StartStep,
               goto \in {"s_print", "s_history", "s_nul"} =>
                  pc \in {"s_print", "s_history", "s_nul"},
               goto \in PromptStep \ {"p_trap"} => ~trap
        PROVE  HookOrder'
    BY <1>1, <1>4, <2>3 DEF HookOrder, HookTypes, hooks, StartStep, PromptStep
  <2> QED BY <2>1, <2>2, <2>3
<1>5. CASE start_checks
  <2>1. HookTypes'
    <3>1. pc' \in {next, "s_print"} /\ next' = next
      BY <1>5 DEF start_checks
    <3>2. skip_debug' \in {0, 1} BY <1>1, <1>5 DEF start_checks, HookTypes
    <3>3. (at_prompt' = at_prompt \/ at_prompt' = FALSE)
          /\ UNCHANGED <<trap, disturbed, unseen, thrown>>
      BY <1>5 DEF start_checks, channel, protocol
    <3>4. pc' \in Steps /\ next' \in {"p_trap", "idle", "run"}
      BY <1>1, <3>1 DEF HookTypes, HookStep, StartStep, PromptStep
    <3> QED BY <1>1, <3>2, <3>3, <3>4 DEF HookTypes
  <2>2. HookNumbers' BY <1>3, <1>5 DEF start_checks, protocol
  <2>3. HookOrder'
    BY <1>1, <1>5 DEF start_checks, HookTypes, HookOrder, channel, protocol, StartStep, PromptStep
  <2> QED BY <2>1, <2>2, <2>3 DEF HooksInv
<1>6. CASE start_prints
  <2>1. /\ thrown' \in BOOLEAN /\ unseen' = unseen
        /\ pc' = IF thrown' THEN "gone" ELSE "s_history"
        /\ last' = last
    BY <1>6, WriteGoesOn DEF start_prints, prompt_arms
  <2>2. pc = "s_print" /\ UNCHANGED <<next, hooks, lines, disturbed>> BY <1>6 DEF start_prints
  <2>3. disturbed \in BOOLEAN BY <1>1 DEF HookTypes
  <2> QED BY <1>4, <2>1, <2>2, <2>3 DEF HooksInv, HookStep, StartStep, PromptStep
<1>7. CASE start_history
  <2>1. /\ thrown' \in BOOLEAN /\ unseen' = unseen
        /\ pc' = IF thrown' THEN "gone" ELSE "s_nul"
        /\ last' = last
    BY <1>7, WriteGoesOn DEF start_history, prompt_arms
  <2>2. pc = "s_history" /\ UNCHANGED <<next, hooks, lines>> BY <1>7 DEF start_history
  <2>3. disturbed' \in BOOLEAN /\ (disturbed => disturbed') BY <1>7 DEF start_history
  <2> QED BY <1>4, <2>1, <2>2, <2>3 DEF HooksInv, HookStep, StartStep, PromptStep
<1>8. CASE start_ends
  <2>1. /\ thrown' \in BOOLEAN /\ unseen' = unseen
        /\ pc' = IF thrown' THEN "gone" ELSE next
        /\ last' = last
    BY <1>8, WriteGoesOn DEF start_ends, prompt_arms
  <2>2. pc = "s_nul" /\ UNCHANGED <<next, hooks, lines, disturbed>> BY <1>8 DEF start_ends
  <2>3. disturbed \in BOOLEAN /\ next \in {"p_trap", "idle", "run"} BY <1>1 DEF HookTypes
  <2> QED BY <1>4, <2>1, <2>2, <2>3 DEF HooksInv, HookStep, StartStep, PromptStep
<1>9. CASE prompt_ends /\ active_command > 0
  <2>1. /\ thrown' \in BOOLEAN /\ unseen' = unseen
        /\ pc' = IF thrown' THEN "gone" ELSE "p_reset"
        /\ last' = last
    BY <1>9, WriteGoesOn DEF prompt_ends, prompt_arms
  <2>2. pc = "p_end" /\ UNCHANGED <<next, hooks, lines, disturbed>> BY <1>9 DEF prompt_ends
  <2>3. disturbed \in BOOLEAN /\ ~trap BY <1>1, <2>2 DEF HookTypes, HookOrder, PromptStep
  <2> QED BY <1>4, <2>1, <2>2, <2>3 DEF HooksInv, HookStep, StartStep, PromptStep
<1>10. CASE prompt_ends /\ ~(active_command > 0)
  <2>1. active_command = 0 BY <1>1, <1>10 DEF HookNumbers
  <2>2. pc = "p_end" /\ UNCHANGED <<next, hooks, lines, disturbed>> /\ pc' = "p_count"
        /\ UNCHANGED <<channel, protocol>>
    BY <1>10, <2>1 DEF prompt_ends
  <2>3. disturbed \in BOOLEAN /\ ~trap /\ thrown = FALSE
    BY <1>1, <2>2 DEF HookTypes, HookOrder, PromptStep
  <2>4. unseen' = unseen /\ thrown' = FALSE /\ last' = last BY <2>2, <2>3 DEF channel, protocol
  <2>5. pc' = IF thrown' THEN "gone" ELSE "p_count" BY <2>2, <2>4
  <2> QED BY <1>4, <2>2, <2>3, <2>4, <2>5 DEF HooksInv, HookStep, StartStep, PromptStep
<1>11. CASE prompt_arms
  <2>1. /\ thrown' \in BOOLEAN /\ unseen' = unseen /\ thrown = FALSE
        /\ pc' = IF thrown' THEN "gone" ELSE "p_at"
        /\ last' = last \/ last' = active_command
    BY <1>11, WriteGoesOn
  <2>2. pc = "p_arm" /\ UNCHANGED <<next, hooks, lines, disturbed>> BY <1>11 DEF prompt_arms
  <2>3. disturbed \in BOOLEAN /\ ~trap /\ active_command = sequence /\ last < sequence
    BY <1>1, <2>2 DEF HookTypes, HookOrder, PromptStep
  <2>4. HookTypes' BY <1>4, <2>1, <2>2, <2>3 DEF HookStep, PromptStep
  <2>5. HookNumbers'
    <3>1. last' \in 0 .. sequence BY <1>1, <1>2, <2>1, <2>3 DEF HookNumbers
    <3> QED BY <1>1, <2>2, <3>1 DEF HookNumbers, hooks, lines
  <2>6. HookOrder'
    <3>1. active_command > 0 BY <1>1, <2>3 DEF HookNumbers
    <3>2. unseen => disturbed BY <1>1 DEF HookOrder
    <3> QED BY <2>1, <2>2, <2>3, <3>1, <3>2 DEF HookOrder, hooks, StartStep, PromptStep
  <2> QED BY <2>4, <2>5, <2>6 DEF HooksInv
<1>12. CASE RunMeddle
  <2>1. /\ thrown' \in BOOLEAN /\ unseen' = unseen
        /\ pc' = IF thrown' THEN "gone" ELSE "prompt"
        /\ last' = last
    BY <1>12, WriteGoesOn DEF RunMeddle, prompt_arms
  <2>2. pc = "run" /\ UNCHANGED <<next, hooks, lines>> BY <1>12 DEF RunMeddle
  <2>3. disturbed' = TRUE BY <1>12 DEF RunMeddle
  <2> QED BY <1>4, <2>1, <2>2, <2>3 DEF HooksInv, HookStep, StartStep, PromptStep
<1>13. CASE prompt_untraps
  <2>1. /\ pc = "p_trap" /\ pc' = "p_end"
        /\ UNCHANGED <<next, lines, unseen, thrown, last, disturbed>>
        /\ thrown = FALSE
    BY <1>1, <1>13 DEF prompt_untraps, Assign, channel, protocol, HookTypes, HookOrder
  <2>2. trap' = FALSE /\ UNCHANGED <<at_prompt, skip_debug, sequence, active_command>>
    BY <1>13 DEF prompt_untraps
  <2>3. HookTypes' BY <1>1, <2>1, <2>2 DEF HookTypes, HookStep, PromptStep
  <2>4. HookNumbers' BY <1>3, <2>1, <2>2
  <2>5. HookOrder' BY <1>1, <2>1, <2>2 DEF HookOrder, StartStep, PromptStep
  <2> QED BY <2>3, <2>4, <2>5 DEF HooksInv
<1>14. CASE prompt_resets
  <2>1. /\ pc = "p_reset" /\ pc' = "p_count"
        /\ UNCHANGED <<next, lines, unseen, thrown, last, disturbed>>
        /\ thrown = FALSE
    BY <1>1, <1>14 DEF prompt_resets, Assign, channel, protocol, HookTypes, HookOrder
  <2>2. active_command' = 0 /\ UNCHANGED <<at_prompt, skip_debug, sequence, trap>>
    BY <1>14 DEF prompt_resets
  <2>3. HookTypes' BY <1>1, <2>1, <2>2 DEF HookTypes, HookStep, PromptStep
  <2>4. HookNumbers' BY <1>1, <1>2, <2>1, <2>2 DEF HookNumbers, lines
  <2>5. HookOrder' BY <1>1, <2>1, <2>2 DEF HookOrder, StartStep, PromptStep
  <2> QED BY <2>3, <2>4, <2>5 DEF HooksInv
<1>15. CASE prompt_counts
  <2>1. /\ pc = "p_count" /\ pc' = "p_set"
        /\ UNCHANGED <<next, lines, unseen, thrown, last, disturbed>>
        /\ thrown = FALSE
    BY <1>1, <1>15 DEF prompt_counts, Assign, channel, protocol, HookTypes, HookOrder
  <2>2. sequence < MaxCommand /\ sequence' = sequence + 1
        /\ UNCHANGED <<at_prompt, skip_debug, active_command, trap>>
    BY <1>15 DEF prompt_counts
  <2>3. HookTypes' BY <1>1, <2>1, <2>2 DEF HookTypes, HookStep, PromptStep
  <2>4. HookNumbers' BY <1>1, <1>2, <2>1, <2>2 DEF HookNumbers, lines
  <2>5. HookOrder'
    <3>1. last < sequence + 1 BY <1>1, <1>2 DEF HookNumbers
    <3> QED BY <1>1, <2>1, <2>2, <3>1 DEF HookOrder, StartStep, PromptStep
  <2> QED BY <2>3, <2>4, <2>5 DEF HooksInv
<1>16. CASE prompt_sets
  <2>1. /\ pc = "p_set" /\ pc' = "p_arm"
        /\ UNCHANGED <<next, lines, unseen, thrown, last, disturbed>>
        /\ thrown = FALSE
    BY <1>1, <1>16 DEF prompt_sets, Assign, channel, protocol, HookTypes, HookOrder
  <2>2. active_command' = sequence /\ UNCHANGED <<at_prompt, skip_debug, sequence, trap>>
    BY <1>16 DEF prompt_sets
  <2>3. HookTypes' BY <1>1, <2>1, <2>2 DEF HookTypes, HookStep, PromptStep
  <2>4. HookNumbers' BY <1>1, <1>2, <2>1, <2>2 DEF HookNumbers, lines
  <2>5. HookOrder' BY <1>1, <2>1, <2>2 DEF HookOrder, StartStep, PromptStep
  <2> QED BY <2>3, <2>4, <2>5 DEF HooksInv
<1>17. CASE prompt_at
  <2>1. /\ pc = "p_at" /\ pc' = "p_skip"
        /\ UNCHANGED <<next, lines, unseen, thrown, last, disturbed>>
        /\ thrown = FALSE
    BY <1>1, <1>17 DEF prompt_at, Assign, channel, protocol, HookTypes, HookOrder
  <2>2. at_prompt' = TRUE /\ UNCHANGED <<skip_debug, sequence, active_command, trap>>
    BY <1>17 DEF prompt_at
  <2>3. HookTypes' BY <1>1, <2>1, <2>2 DEF HookTypes, HookStep, PromptStep
  <2>4. HookNumbers' BY <1>3, <2>1, <2>2
  <2>5. HookOrder' BY <1>1, <2>1, <2>2 DEF HookOrder, StartStep, PromptStep
  <2> QED BY <2>3, <2>4, <2>5 DEF HooksInv
<1>18. CASE prompt_skips
  <2>1. /\ pc = "p_skip" /\ pc' = "p_debug"
        /\ UNCHANGED <<next, lines, unseen, thrown, last, disturbed>>
        /\ thrown = FALSE
    BY <1>1, <1>18 DEF prompt_skips, Assign, channel, protocol, HookTypes, HookOrder
  <2>2. skip_debug' = 1 /\ UNCHANGED <<at_prompt, sequence, active_command, trap>>
    BY <1>18 DEF prompt_skips
  <2>3. HookTypes' BY <1>1, <2>1, <2>2 DEF HookTypes, HookStep, PromptStep
  <2>4. HookNumbers' BY <1>3, <2>1, <2>2
  <2>5. HookOrder' BY <1>1, <2>1, <2>2 DEF HookOrder, StartStep, PromptStep
  <2> QED BY <2>3, <2>4, <2>5 DEF HooksInv
<1>19. CASE prompt_traps
  <2>1. /\ pc = "p_debug" /\ pc' = "start" /\ next' = "idle" /\ trap' = TRUE
        /\ UNCHANGED <<at_prompt, skip_debug, sequence, active_command, lines, unseen,
                       thrown, last, disturbed>>
    BY <1>19 DEF prompt_traps, channel, protocol
  <2>2. HookTypes' BY <1>1, <2>1 DEF HookTypes, HookStep, StartStep
  <2>3. HookNumbers' BY <1>3, <2>1
  <2>4. HookOrder' BY <1>1, <2>1 DEF HookOrder, HookTypes, StartStep, PromptStep
  <2> QED BY <2>2, <2>3, <2>4 DEF HooksInv
<1>20. CASE __whyrun_start \/ __whyrun_prompt
  BY <1>5, <1>6, <1>7, <1>8, <1>9, <1>10, <1>11, <1>13, <1>14, <1>15, <1>16, <1>17, <1>18,
     <1>19, <1>20 DEF __whyrun_start, __whyrun_prompt
<1>21. ASSUME pc \in {"prompt", "idle", "run"}, pc' \in {"prompt", "run", "p_trap", "start"},
              pc' = "start" => trap, next' \in {"p_trap", "idle", "run"},
              UNCHANGED <<hooks, unseen, thrown, last>>,
              disturbed' \in BOOLEAN, disturbed => disturbed'
       PROVE  HookTypes' /\ HookOrder'
  BY <1>1, <1>21 DEF HookTypes, HookOrder, hooks, HookStep, StartStep, PromptStep
<1>22. next \in {"p_trap", "idle", "run"} /\ disturbed \in BOOLEAN /\ trap \in BOOLEAN
  BY <1>1 DEF HookTypes
<1>23. CASE PROMPT_COMMAND \/ RunMore
  <2>1. /\ pc \in {"prompt", "run"} /\ pc' \in {"p_trap", "run", "start"} /\ (pc' = "start" => trap)
        /\ next' \in {"p_trap", "idle", "run"}
        /\ UNCHANGED <<hooks, lines, channel, protocol, disturbed>>
    BY <1>22, <1>23 DEF PROMPT_COMMAND, RunMore, Debug
  <2>2. UNCHANGED <<unseen, thrown, last>> BY <2>1 DEF channel, protocol
  <2>3. HookNumbers' BY <1>3, <2>1, <2>2 DEF hooks
  <2> QED BY <1>21, <1>22, <2>1, <2>2, <2>3 DEF HooksInv
<1>24. CASE EnterNothing \/ RunDone
  <2>1. /\ pc \in {"idle", "run"} /\ pc' = "prompt" /\ next' = next
        /\ UNCHANGED <<hooks, typed, newest, channel, protocol, disturbed>>
    BY <1>24 DEF EnterNothing, RunDone, lines
  <2>2. UNCHANGED <<unseen, thrown, last>> BY <2>1 DEF channel, protocol
  <2>3. HookNumbers' BY <1>1, <2>1, <2>2 DEF HookNumbers, hooks
  <2> QED BY <1>21, <1>22, <2>1, <2>2, <2>3 DEF HooksInv
<1>25. CASE EnterLine
  <2>1. PICK size \in LineSize :
           /\ newest' = Remembered(newest, [n |-> typed + 1, size |-> size])
           /\ disturbed' = (disturbed \/ size > MaxField)
    BY <1>25 DEF EnterLine
  <2>2. /\ pc = "idle" /\ pc' \in {"run", "start"} /\ (pc' = "start" => trap)
        /\ next' \in {"p_trap", "idle", "run"}
    BY <1>22, <1>25 DEF EnterLine, Debug
  <2>3. UNCHANGED <<hooks, channel, protocol>> /\ typed' = typed + 1 BY <1>25 DEF EnterLine
  <2>4. UNCHANGED <<unseen, thrown, last>> BY <2>3 DEF channel, protocol
  <2>5. HookNumbers'
    <3>1. newest' = [n |-> typed + 1, size |-> size] /\ size \in Nat
      BY <2>1, SessionAssumption DEF Remembered
    <3>2. typed \in Nat BY <1>1 DEF HookNumbers
    <3>3. newest' \in [n : Nat, size : Nat] /\ newest'.n <= typed' BY <2>3, <3>1, <3>2
    <3> QED BY <1>1, <2>3, <2>4, <3>2, <3>3 DEF HookNumbers, hooks
  <2>6. disturbed' \in BOOLEAN /\ (disturbed => disturbed') BY <2>1
  <2> QED BY <1>21, <2>2, <2>3, <2>4, <2>5, <2>6 DEF HooksInv
<1>26. CASE RunForget
  <2>1. /\ pc = "run" /\ pc' = "prompt" /\ newest' = NoLine
        /\ trap' \in BOOLEAN /\ (trap' => trap)
        /\ UNCHANGED <<next, at_prompt, skip_debug, sequence, active_command, typed, unseen,
                       thrown, last, disturbed>>
    BY <1>22, <1>26 DEF RunForget, channel, protocol
  <2>2. HookTypes' BY <1>1, <2>1 DEF HookTypes
  <2>3. HookNumbers'
    <3>1. newest' = [n |-> 0, size |-> 0] BY <2>1 DEF NoLine
    <3>2. typed \in Nat BY <1>1 DEF HookNumbers
    <3>3. newest' \in [n : Nat, size : Nat] /\ newest'.n <= typed' BY <2>1, <3>1, <3>2
    <3> QED BY <1>1, <2>1, <3>3 DEF HookNumbers
  <2>4. HookOrder' BY <1>1, <2>1 DEF HookOrder, StartStep, PromptStep
  <2> QED BY <2>2, <2>3, <2>4 DEF HooksInv
<1>27. CASE RunRedirect
  <2>1. /\ pc = "run" /\ pc' = "prompt" /\ disturbed' = (disturbed \/ table'[Context] # "channel")
        /\ UNCHANGED <<next, hooks, lines, unseen, thrown, last>>
    BY <1>27 DEF RunRedirect, protocol
  <2>2. disturbed' \in BOOLEAN /\ (disturbed => disturbed') BY <2>1
  <2>3. HookNumbers' BY <1>3, <2>1 DEF hooks
  <2> QED BY <1>21, <1>22, <2>1, <2>2, <2>3 DEF HooksInv
<1>28. CASE RunUnseen
  <2>1. /\ pc = "run" /\ pc' = "prompt" /\ disturbed' = TRUE /\ unseen' = TRUE
        /\ UNCHANGED <<next, hooks, lines, thrown, last>>
    BY <1>28 DEF RunUnseen, protocol
  <2>2. HookTypes' BY <1>1, <2>1 DEF HookTypes, hooks
  <2>3. HookNumbers' BY <1>3, <2>1 DEF hooks
  <2>4. HookOrder' BY <1>1, <2>1 DEF HookOrder, hooks, StartStep, PromptStep
  <2> QED BY <2>2, <2>3, <2>4 DEF HooksInv
<1>29. CASE Interrupt
  <2>1. /\ pc # "gone" /\ pc' = "prompt" /\ disturbed' = TRUE
        /\ UNCHANGED <<next, hooks, lines, unseen, thrown, last>>
    BY <1>29 DEF Interrupt, channel, protocol, HookStep, StartStep, PromptStep
  <2>2. HookTypes' BY <1>1, <2>1 DEF HookTypes, hooks
  <2>3. HookNumbers' BY <1>3, <2>1 DEF hooks
  <2>4. HookOrder' BY <1>1, <2>1 DEF HookOrder, hooks, StartStep, PromptStep
  <2> QED BY <2>2, <2>3, <2>4 DEF HooksInv
<1>30. CASE Leave
  <2>1. /\ pc' = "gone" /\ disturbed' = (disturbed \/ pc \in HookStep)
        /\ thrown' \in BOOLEAN
        /\ UNCHANGED <<next, hooks, lines, unseen, last>>
    BY <1>30 DEF Leave, channel
  <2>2. disturbed' \in BOOLEAN /\ (disturbed => disturbed') BY <2>1
  <2>3. HookTypes' BY <1>1, <2>1, <2>2 DEF HookTypes, hooks
  <2>4. HookNumbers' BY <1>3, <2>1 DEF hooks
  <2>5. HookOrder' BY <1>1, <2>1, <2>2 DEF HookOrder, hooks, StartStep, PromptStep
  <2> QED BY <2>3, <2>4, <2>5 DEF HooksInv
<1>31. CASE UNCHANGED bvars
  <2>1. UNCHANGED <<pc, next, hooks, lines, unseen, thrown, last, disturbed>>
    BY <1>31 DEF bvars, channel, protocol
  <2>2. HookTypes' BY <1>1, <2>1 DEF HookTypes, hooks
  <2>3. HookNumbers' BY <1>3, <2>1 DEF hooks
  <2>4. HookOrder' BY <1>1, <2>1 DEF HookOrder, hooks
  <2> QED BY <2>2, <2>3, <2>4 DEF HooksInv
<1> QED
  BY <1>12, <1>20, <1>23, <1>24, <1>25, <1>26, <1>27, <1>28, <1>29, <1>30, <1>31
  DEF BNext, Shell, User

-----------------------------------------------------------------------------
(* The marker that is being put together, in every state *)

(* The session starts with no field. *)
LEMMA FieldsInit == BInit => FieldsInv
<1> SUFFICES ASSUME BInit PROVE FieldsInv
  OBVIOUS
<1>1. FieldsOK
  <2>1. fields = << >> /\ pending_field = Empty BY DEF BInit
  <2>2. << >> \in Seq(FieldSet) /\ Len(<< >>) = 0 OBVIOUS
  <2> QED BY <2>1, <2>2, FieldTypes, SessionAssumption DEF FieldsOK
<1> QED BY <1>1 DEF FieldsInv, BInit

(* Every step leaves no field, or half a marker that the next writes complete or
   fail on. *)
LEMMA FieldsNext == Base /\ [BNext]_bvars => FieldsInv'
<1> SUFFICES ASSUME Base, [BNext]_bvars PROVE FieldsInv'
  OBVIOUS
<1>1. FieldsInv /\ FieldsOK /\ HookTypes /\ HookNumbers /\ HookOrder
  BY DEF Base, FieldsInv, HooksInv
<1>2. ASSUME FieldsOK', fields' = << >>, pc' \notin {"s_history", "s_nul"} PROVE FieldsInv'
  BY <1>2 DEF FieldsInv
<1>3. ASSUME FieldsOK', fields' # << >>, Hears', HalfStart' \/ HalfEnd' PROVE FieldsInv'
  BY <1>3 DEF FieldsInv
<1>4. ASSUME UNCHANGED <<fields, pending_field>> PROVE FieldsOK'
  BY <1>1, <1>4 DEF FieldsOK
<1>5. CASE start_prints
  <2>1. /\ FieldsOK' /\ (Hears' <=> Hears) /\ thrown = FALSE
        /\ pc' = IF thrown' THEN "gone" ELSE "s_history"
    BY <1>5, WriteGoesOn
  <2>2. CASE ~Hears /\ fields = << >> /\ fields' = fields
    BY <2>1, <2>2 DEF FieldsInv
  <2>3. CASE thrown' = TRUE BY <2>1, <2>3 DEF FieldsInv
  <2>4. CASE Hears /\ thrown' = FALSE /\ Len(fields') = 3
    <3>1. pc' = "s_history" BY <2>1, <2>4
    <3>2. fields' # << >> BY <2>4
    <3>3. ~at_prompt' /\ active_command' > 0
      BY <1>1, <1>5 DEF start_prints, hooks, HookOrder, StartStep
    <3>4. HalfStart' BY <3>1, <3>3 DEF HalfStart
    <3> QED BY <1>3, <2>1, <2>4, <3>2, <3>4
  <2> QED BY <1>5, <2>1, <2>2, <2>3, <2>4, Printed
<1>6. CASE start_history
  <2>1. /\ FieldsOK' /\ (Hears' <=> Hears)
        /\ pc' = IF thrown' THEN "gone" ELSE "s_nul"
    BY <1>6, WriteGoesOn
  <2>2. fields' = fields BY <1>6, HistoryWritten
  <2>3. pc = "s_history" /\ UNCHANGED <<at_prompt, active_command>> BY <1>6 DEF start_history, hooks
  <2>4. CASE fields = << >> BY <1>1, <2>1, <2>2, <2>3, <2>4 DEF FieldsInv
  <2>5. CASE fields # << >>
    <3>1. Hears /\ HalfStart BY <1>1, <2>3, <2>5 DEF FieldsInv, HalfEnd
    <3>2. pc' = "gone" \/ HalfStart' BY <2>1, <2>3, <3>1 DEF HalfStart
    <3> QED BY <2>1, <2>2, <2>5, <3>1, <3>2 DEF FieldsInv
  <2> QED BY <2>4, <2>5
<1>7. CASE start_ends
  <2>1. /\ FieldsOK' /\ pc' = IF thrown' THEN "gone" ELSE next
    BY <1>7, WriteGoesOn
  <2>2. pc' \notin {"s_history", "s_nul"} BY <1>1, <2>1 DEF HookTypes
  <2>3. CASE ~Hears /\ fields' = fields
    <3>1. fields = << >> BY <1>1, <1>7, <2>3 DEF FieldsInv, start_ends
    <3> QED BY <1>2, <2>1, <2>2, <2>3, <3>1
  <2>4. CASE thrown' = TRUE BY <2>1, <2>4 DEF FieldsInv
  <2>5. CASE fields' = << >> BY <1>2, <2>1, <2>2, <2>5
  <2> QED BY <1>7, <2>3, <2>4, <2>5, StartEnded
<1>8. CASE prompt_ends /\ active_command > 0
  <2>1. /\ FieldsOK' /\ (Hears' <=> Hears) /\ pc' = IF thrown' THEN "gone" ELSE "p_reset"
    BY <1>8, WriteGoesOn
  <2>2. pc' \notin {"s_history", "s_nul"} BY <2>1
  <2>3. CASE ~Hears /\ fields' = fields
    <3>1. fields = << >> BY <1>1, <1>8, <2>3 DEF FieldsInv, prompt_ends
    <3> QED BY <1>2, <2>1, <2>2, <2>3, <3>1
  <2>4. CASE thrown' = TRUE BY <2>1, <2>4 DEF FieldsInv
  <2>5. CASE fields' = << >> BY <1>2, <2>1, <2>2, <2>5
  <2>6. CASE Hears /\ fields' # << >> /\ fields'[2] = Number(0) /\ thrown' = FALSE
    <3>1. ~trap' BY <1>1, <1>8 DEF prompt_ends, hooks, HookOrder, PromptStep
    <3>2. HalfEnd' BY <2>1, <2>6, <3>1 DEF HalfEnd, Number, Field
    <3> QED BY <1>3, <2>1, <2>6, <3>2
  <2> QED BY <1>8, <2>3, <2>4, <2>5, <2>6, EndWritten
<1>9. CASE prompt_arms
  <2>1. /\ FieldsOK' /\ pc' = IF thrown' THEN "gone" ELSE "p_at"
    BY <1>9, WriteGoesOn
  <2>2. pc' \notin {"s_history", "s_nul"} BY <2>1
  <2>3. CASE ~Hears /\ fields' = fields
    <3>1. fields = << >> BY <1>1, <1>9, <2>3 DEF FieldsInv, prompt_arms
    <3> QED BY <1>2, <2>1, <2>2, <2>3, <3>1
  <2>4. CASE thrown' = TRUE BY <2>1, <2>4 DEF FieldsInv
  <2>5. CASE fields' = << >> BY <1>2, <2>1, <2>2, <2>5
  <2> QED BY <1>9, <2>3, <2>4, <2>5, ArmWritten
<1>10. CASE RunMeddle
  <2>1. /\ FieldsOK' /\ pc' = IF thrown' THEN "gone" ELSE "prompt"
    BY <1>10, WriteGoesOn
  <2>2. fields' = << >> BY <1>10, Meddled
  <2> QED BY <1>2, <2>1, <2>2
<1>11. CASE \/ EnterNothing \/ EnterLine \/ RunMore \/ RunDone \/ RunForget \/ RunRedirect
            \/ RunUnseen
  <2>1. /\ pc \in {"idle", "run"} /\ UNCHANGED protocol
        /\ pc' \in {"prompt", "run", "start"}
    BY <1>11 DEF EnterNothing, EnterLine, RunMore, RunDone, RunForget, RunRedirect, RunUnseen,
                 Debug
  <2>2. UNCHANGED <<fields, pending_field>> BY <2>1 DEF protocol
  <2>3. fields = << >> BY <1>1, <2>1, Pending
  <2> QED BY <1>2, <1>4, <2>1, <2>2, <2>3
<1>12. CASE Leave
  <2>1. pc' = "gone" /\ UNCHANGED <<fields, pending_field>> BY <1>12 DEF Leave
  <2> QED BY <1>4, <2>1 DEF FieldsInv
<1>13. ASSUME PROMPT_COMMAND \/ start_checks \/ prompt_untraps \/ prompt_resets \/ prompt_counts
              \/ prompt_sets \/ prompt_at \/ prompt_skips \/ prompt_traps \/ Interrupt
              \/ (prompt_ends /\ ~(active_command > 0))
       PROVE  FieldsInv'
  <2>1. UNCHANGED <<fields, pending_field, table, aliases>>
    <3>1. CASE prompt_ends /\ ~(active_command > 0)
      <4>1. active_command = 0 BY <1>1, <3>1 DEF HookNumbers
      <4> QED BY <3>1, <4>1 DEF prompt_ends, channel, protocol
    <3> QED BY <1>13, <3>1 DEF PROMPT_COMMAND, start_checks, prompt_untraps, prompt_resets,
          prompt_counts, prompt_sets, prompt_at, prompt_skips, prompt_traps, Interrupt, Assign,
          channel, protocol
  <2>2. FieldsOK' /\ (Hears' <=> Hears) BY <1>4, <2>1 DEF Hears
  <2>3. pc' \notin {"s_history", "s_nul"} /\ pc # "gone"
    <3>1. CASE prompt_ends /\ ~(active_command > 0)
      <4>1. active_command = 0 BY <1>1, <3>1 DEF HookNumbers
      <4> QED BY <3>1, <4>1 DEF prompt_ends
    <3> QED BY <1>1, <1>13, <3>1 DEF PROMPT_COMMAND, start_checks, prompt_untraps, prompt_resets,
          prompt_counts, prompt_sets, prompt_at, prompt_skips, prompt_traps, Interrupt, Assign,
          Debug, HookTypes, HookStep, StartStep, PromptStep
  <2>4. CASE fields = << >> BY <1>2, <2>1, <2>2, <2>3, <2>4
  <2>5. CASE fields # << >>
    <3>1. Hears /\ (HalfStart \/ HalfEnd) BY <1>1, <2>3, <2>5 DEF FieldsInv
    <3>2. HalfStart' \/ HalfEnd'
      <4>1. CASE HalfStart
        <5>1. ~at_prompt /\ active_command > 0
              /\ pc \in {"s_history", "s_nul", "prompt", "start", "p_trap", "p_end"}
              /\ (pc = "start" => next = "p_trap")
          BY <4>1 DEF HalfStart
        <5>2. CASE PROMPT_COMMAND
          BY <5>1, <5>2 DEF PROMPT_COMMAND, Debug, hooks, HalfStart
        <5>3. CASE start_checks
          BY <5>1, <5>3 DEF start_checks, HalfStart
        <5>4. CASE prompt_untraps
          BY <5>1, <5>4 DEF prompt_untraps, Assign, HalfStart
        <5>5. CASE Interrupt
          BY <5>1, <5>5 DEF Interrupt, hooks, HalfStart
        <5> QED BY <1>13, <5>1, <5>2, <5>3, <5>4, <5>5
              DEF prompt_resets, prompt_counts, prompt_sets, prompt_at, prompt_skips,
                  prompt_traps, Assign
      <4>2. CASE HalfEnd
        <5>1. /\ fields'[2] = Number(0)' /\ ~trap
              /\ pc \in {"prompt", "p_trap", "p_end", "p_reset", "p_count", "p_set", "p_arm"}
          BY <2>1, <4>2 DEF HalfEnd, Number, Field
        <5>2. ~trap' /\ pc' \in {"prompt", "p_trap", "p_end", "p_reset", "p_count", "p_set", "p_arm"}
          <6>1. CASE prompt_ends /\ ~(active_command > 0)
            <7>1. active_command = 0 BY <1>1, <6>1 DEF HookNumbers
            <7> QED BY <5>1, <6>1, <7>1 DEF prompt_ends, hooks
          <6>2. CASE PROMPT_COMMAND \/ Interrupt
            BY <5>1, <6>2 DEF PROMPT_COMMAND, Interrupt, Debug, hooks
          <6> QED BY <1>13, <5>1, <6>1, <6>2
                DEF start_checks, prompt_untraps, prompt_resets, prompt_counts, prompt_sets,
                    prompt_at, prompt_skips, prompt_traps, Assign
        <5> QED BY <5>1, <5>2 DEF HalfEnd
      <4> QED BY <3>1, <4>1, <4>2
    <3> QED BY <1>3, <2>1, <2>2, <2>5, <3>1, <3>2
  <2> QED BY <2>4, <2>5
<1>14. CASE UNCHANGED bvars
  <2>1. UNCHANGED <<fields, pending_field, table, aliases, pc, at_prompt, active_command, next, trap>>
    BY <1>14 DEF bvars, channel, protocol, hooks
  <2>2. FieldsOK' BY <1>4, <2>1
  <2> QED BY <1>1, <2>1, <2>2 DEF FieldsInv, Hears, HalfStart, HalfEnd, Number, Field
<1>15. CASE __whyrun_start BY <1>5, <1>6, <1>7, <1>13, <1>15 DEF __whyrun_start
<1>16. CASE __whyrun_prompt BY <1>8, <1>9, <1>13, <1>16 DEF __whyrun_prompt
<1>17. CASE User BY <1>10, <1>11, <1>12, <1>13, <1>17 DEF User
<1> QED BY <1>13, <1>14, <1>15, <1>16, <1>17 DEF BNext, Shell

(* Every step leaves a well-formed command. *)
LEMMA ActiveNext == Base /\ [BNext]_bvars => ActiveInv'
<1> SUFFICES ASSUME Base, [BNext]_bvars PROVE ActiveInv'
  OBVIOUS
<1>1. ASSUME active' = active PROVE ActiveInv' BY <1>1 DEF Base, ActiveInv
<1>2. CASE start_prints \/ start_history \/ start_ends \/ prompt_arms \/ RunMeddle
          \/ (prompt_ends /\ active_command > 0)
  BY <1>2, WriteGoesOn
<1>3. CASE prompt_ends /\ ~(active_command > 0)
  <2>1. active_command = 0 BY <1>3 DEF Base, HooksInv, HookNumbers
  <2> QED BY <1>1, <1>3, <2>1 DEF prompt_ends, protocol
<1>4. CASE PROMPT_COMMAND \/ start_checks \/ prompt_untraps \/ prompt_resets \/ prompt_counts
              \/ prompt_sets \/ prompt_at \/ prompt_skips \/ prompt_traps
  BY <1>1, <1>4 DEF PROMPT_COMMAND, start_checks, prompt_untraps, prompt_resets, prompt_counts,
     prompt_sets, prompt_at, prompt_skips, prompt_traps, Assign, protocol
<1>5. CASE EnterNothing \/ EnterLine \/ RunMore \/ RunDone \/ RunForget \/ RunRedirect
              \/ RunUnseen \/ Interrupt \/ Leave
  BY <1>1, <1>5 DEF EnterNothing, EnterLine, RunMore, RunDone, RunForget, RunRedirect, RunUnseen,
     Interrupt, Leave, protocol
<1>6. CASE UNCHANGED bvars BY <1>1, <1>6 DEF bvars, protocol
<1> QED BY <1>2, <1>3, <1>4, <1>5, <1>6 DEF BNext, Shell, User, __whyrun_start, __whyrun_prompt

(* Every step keeps them. *)
LEMMA BaseNext == Base /\ [BNext]_bvars => Base'
  BY ChannelNext, HooksNext, FieldsNext, ActiveNext DEF Base

(* The parts of the invariant that hold in disturbed sessions too. *)
LEMMA BaseInit == BInit => Base
<1>1. BInit => ActiveInv BY SessionAssumption DEF BInit, ActiveInv
<1> QED BY <1>1, ChannelInit, HooksInit, FieldsInit DEF Base

(* They hold in every state. *)
LEMMA BaseAlways == BSpec => []Base
  BY BaseInit, BaseNext, PTL DEF BSpec

(* Type correctness of the hooks and of the decoder. *)
THEOREM SessionTypes == BSpec => []BTypeOK
<1>1. Base => BTypeOK
  <2> SUFFICES ASSUME Base PROVE BTypeOK
    OBVIOUS
  <2>1. HookTypes /\ HookNumbers /\ FieldsOK /\ ActiveInv BY DEF Base, HooksInv, FieldsInv
  <2>2. MaxCommand \in Nat BY SessionAssumption
  <2>3. {sequence, active_command, last, active.id} \subseteq 0 .. MaxCommand
    BY <2>1, <2>2 DEF HookNumbers, ActiveInv
  <2>4. newest.n \in 0 .. typed BY <2>1 DEF HookNumbers
  <2>5. Len(fields) < 4 /\ pending_field.size <= MaxField BY <2>1 DEF FieldsOK
  <2> QED BY <2>1, <2>3, <2>4, <2>5 DEF BTypeOK, HookTypes
<1> QED BY <1>1, BaseAlways, PTL

-----------------------------------------------------------------------------
(* The session while it is not disturbed *)

(* An undisturbed session hears what it writes. *)
LEMMA CalmHears == ChannelInv /\ CalmChannel => Hears
<1> SUFFICES ASSUME ChannelInv, CalmChannel PROVE Hears
  OBVIOUS
<1>1. Context \in Fd BY SessionAssumption
<1>2. aliases = {f \in Fd : table[f] = "channel"} BY DEF ChannelInv, CalmChannel, Agrees, Now
<1> QED BY <1>1, <1>2 DEF Hears, CalmChannel

(* The markers of an undisturbed session are the ones that are due. *)
LEMMA DueStart == Base /\ Calm /\ pc = "s_nul" => Hears /\ StartDue
<1> SUFFICES ASSUME Base, Calm, pc = "s_nul" PROVE Hears /\ StartDue
  OBVIOUS
<1>1. Hears BY CalmHears DEF Base, Calm
<1>2. /\ fields[1] = Letter("S") /\ fields[2] = Number(active_command) /\ fields[3] = Text
      /\ pending_field = Field("line", newest.n, newest.size) /\ Armed
  BY DEF Calm, CalmStart
<1>3. pending_field.kind = "line" BY <1>2 DEF Field
<1>4. active_command > 0 BY DEF Base, HooksInv, HookOrder, StartStep
<1> QED BY <1>1, <1>2, <1>3, <1>4 DEF StartDue, Armed, InTurn

(* At the end of a command its End marker is due. *)
LEMMA DueEnd == Base /\ Calm /\ pc = "p_end" /\ active_command > 0 => Hears /\ EndDue
<1> SUFFICES ASSUME Base, Calm, pc = "p_end", active_command > 0 PROVE Hears /\ EndDue
  OBVIOUS
<1>1. Hears BY CalmHears DEF Base, Calm
<1>2. Whole /\ (Running \/ NoneYet) BY DEF Calm, CalmPrompt, PromptStep
<1>3. Running BY <1>2 DEF NoneYet
<1> QED BY <1>1, <1>2, <1>3 DEF EndDue, Running, InTurn

(* Before a prompt an Arm marker is due. *)
LEMMA DueArm == Base /\ Calm /\ pc = "p_arm" => Hears /\ ArmDue
<1> SUFFICES ASSUME Base, Calm, pc = "p_arm" PROVE Hears /\ ArmDue
  OBVIOUS
<1>1. Hears BY CalmHears DEF Base, Calm
<1>2. Whole /\ Between BY DEF Calm, CalmPrompt, PromptStep
<1> QED BY <1>1, <1>2 DEF ArmDue, Between

(* The session starts undisturbed. *)
LEMMA CalmInit == BInit => CalmInv
<1> SUFFICES ASSUME BInit PROVE Calm
  BY DEF CalmInv
<1>1. table[Context] = "channel"
  <2>1. Stdout \in Nat /\ Context \in Nat /\ Stdout < Context /\ Context \in Fd
    BY SessionAssumption
  <2>2. Stdout # Context BY <2>1
  <2> QED BY <2>1, <2>2 DEF BInit
<1>2. CalmChannel BY <1>1 DEF BInit, CalmChannel
<1>3. CalmLine BY SessionAssumption DEF BInit, CalmLine, NoLine
<1>4. CalmStart BY DEF BInit, CalmStart
<1>5. CalmPrompt BY DEF BInit, CalmPrompt, PromptStep
<1>6. CalmUser BY DEF BInit, CalmUser, Whole, NoneYet, Between
<1> QED BY <1>2, <1>3, <1>4, <1>5, <1>6 DEF Calm

(* The steps of the hooks, as long as nothing disturbs them. *)
LEMMA CalmHooks ==
    ASSUME Base, Calm, __whyrun_start \/ __whyrun_prompt \/ PROMPT_COMMAND,
           ~disturbed', pc' # "gone"
    PROVE  Calm'
<1>1. HookTypes /\ HookNumbers /\ HookOrder /\ ActiveInv /\ FieldsOK
  BY DEF Base, HooksInv, FieldsInv
<1>2. ASSUME UNCHANGED <<table, unseen>> PROVE CalmChannel'
  BY <1>2 DEF Calm, CalmChannel
<1>3. ASSUME UNCHANGED <<lines, active>> PROVE CalmLine'
  BY <1>3 DEF Calm, CalmLine, lines
<1>4. ASSUME UNCHANGED protocol, UNCHANGED <<sequence, active_command>>
      PROVE  /\ Whole' <=> Whole
             /\ Armed' <=> Armed
             /\ Running' <=> Running
             /\ NoneYet' <=> NoneYet
             /\ Between' <=> Between
             /\ UNCHANGED <<active, last, fields, pending_field>>
  BY <1>4 DEF protocol, Whole, Armed, Running, NoneYet, Between, InTurn, Empty, Field
<1>5. CASE PROMPT_COMMAND
  <2>1. pc = "prompt" /\ UNCHANGED <<hooks, lines, channel, protocol, disturbed>>
        /\ pc' = (IF trap THEN "start" ELSE "p_trap") /\ next' = (IF trap THEN "p_trap" ELSE next)
    BY <1>5 DEF PROMPT_COMMAND, Debug
  <2>2. /\ Whole
        /\ trap => skip_debug = 0 /\ IF at_prompt THEN Armed ELSE Running
        /\ ~trap => Running \/ NoneYet
    BY <2>1 DEF Calm, CalmUser
  <2>3. UNCHANGED <<at_prompt, skip_debug, sequence, active_command, trap, table, unseen>>
    BY <2>1 DEF hooks, channel
  <2>4. CalmChannel' /\ CalmLine' BY <1>2, <1>3, <1>4, <2>1, <2>3
  <2>5. CalmStart' BY <1>4, <2>1, <2>2, <2>3 DEF CalmStart
  <2>6. CalmPrompt' BY <1>4, <2>1, <2>2, <2>3 DEF CalmPrompt, PromptStep
  <2>7. CalmUser' BY <2>1 DEF CalmUser
  <2> QED BY <2>4, <2>5, <2>6, <2>7 DEF Calm
<1>6. CASE start_checks
  <2>1. pc = "start" /\ trap /\ next \in {"p_trap", "idle", "run"}
        /\ UNCHANGED <<next, sequence, active_command, trap, lines, channel, protocol, disturbed>>
    BY <1>1, <1>6 DEF start_checks, HookOrder, HookTypes, StartStep
  <2>2. /\ Whole
        /\ next = "idle" => Armed /\ at_prompt /\ skip_debug = 1
        /\ next # "idle" => skip_debug = 0 /\ IF at_prompt THEN Armed ELSE Running
    BY <2>1 DEF Calm, CalmStart
  <2>3. UNCHANGED <<table, unseen>> BY <2>1 DEF channel
  <2>4. CalmChannel' /\ CalmLine' BY <1>2, <1>3, <1>4, <2>1, <2>3
  <2>5. CASE next = "idle"
    <3>1. skip_debug' = 0 /\ pc' = "idle" /\ at_prompt' = at_prompt
      BY <1>6, <2>2, <2>5 DEF start_checks
    <3>2. CalmStart' /\ CalmPrompt' /\ CalmUser'
      BY <1>4, <2>1, <2>2, <2>5, <3>1 DEF CalmStart, CalmPrompt, CalmUser, PromptStep
    <3> QED BY <2>4, <3>2 DEF Calm
  <2>6. CASE next # "idle" /\ at_prompt
    <3>1. skip_debug' = 0 /\ pc' = "s_print" /\ ~at_prompt'
      BY <1>6, <2>2, <2>6 DEF start_checks
    <3>2. CalmStart' /\ CalmPrompt' /\ CalmUser'
      BY <1>4, <2>1, <2>2, <2>6, <3>1 DEF CalmStart, CalmPrompt, CalmUser, PromptStep
    <3> QED BY <2>4, <3>2 DEF Calm
  <2>7. CASE next # "idle" /\ ~at_prompt
    <3>1. skip_debug' = 0 /\ pc' = next /\ ~at_prompt'
      BY <1>6, <2>2, <2>7 DEF start_checks
    <3>2. CalmStart' /\ CalmPrompt' /\ CalmUser'
      BY <1>4, <2>1, <2>2, <2>7, <3>1 DEF CalmStart, CalmPrompt, CalmUser, PromptStep
    <3> QED BY <2>4, <3>2 DEF Calm
  <2> QED BY <2>5, <2>6, <2>7
<1>7. CASE start_prints
  <2>1. /\ pc = "s_print" /\ UNCHANGED <<next, hooks, lines, disturbed>>
    BY <1>7 DEF start_prints
  <2>2. Armed /\ Whole /\ ~at_prompt /\ skip_debug = 0 /\ next # "idle"
    BY <2>1 DEF Calm, CalmStart
  <2>3. /\ table' = table /\ unseen' = unseen /\ thrown = FALSE
        /\ pc' = IF thrown' THEN "gone" ELSE "s_history"
    BY <1>7, WriteGoesOn
  <2>4. Hears BY CalmHears DEF Base, Calm
  <2>5. /\ UNCHANGED <<active, last>> /\ pending_field' = Empty /\ thrown' = thrown
        /\ Len(fields') = 3
        /\ fields'[1] = Joined(pending_field, Letter("S"))
        /\ fields'[2] = Number(active_command) /\ fields'[3] = Text
    BY <1>7, <2>2, <2>4, Printed DEF Whole
  <2>6. Joined(pending_field, Letter("S")) = Letter("S")
    BY <2>2, JoinedField, FieldTypes DEF Whole, Kind
  <2>7. pc' = "s_history" BY <2>3, <2>5
  <2>8. CalmChannel' /\ CalmLine' BY <1>2, <1>3, <2>1, <2>3, <2>5
  <2>9. UNCHANGED <<at_prompt, skip_debug, sequence, active_command, trap>> BY <2>1 DEF hooks
  <2>10. Armed' BY <2>2, <2>5, <2>9 DEF Armed, InTurn
  <2>11. CalmStart'
    BY <2>1, <2>2, <2>5, <2>6, <2>7, <2>9, <2>10 DEF CalmStart, Letter, Number, Text, Empty, Field
  <2>12. CalmPrompt' /\ CalmUser' BY <2>7 DEF CalmPrompt, CalmUser, PromptStep
  <2> QED BY <2>8, <2>11, <2>12 DEF Calm
<1>8. CASE start_history
  <2>1. /\ pc = "s_history" /\ UNCHANGED <<next, hooks, lines>> /\ newest.n # 0
    BY <1>8 DEF start_history
  <2>2. /\ Armed /\ ~at_prompt /\ skip_debug = 0 /\ next # "idle"
        /\ Len(fields) = 3 /\ pending_field = Empty
        /\ fields[1] = Letter("S") /\ fields[2] = Number(active_command)
        /\ fields[3] = Text
    BY <2>1 DEF Calm, CalmStart
  <2>3. /\ table' = table /\ unseen' = unseen /\ thrown = FALSE
        /\ pc' = IF thrown' THEN "gone" ELSE "s_nul"
    BY <1>8, WriteGoesOn
  <2>4. Hears BY CalmHears DEF Base, Calm
  <2> DEFINE text == Field("line", newest.n, newest.size)
  <2>5. pc' = "s_nul" /\ thrown' = FALSE
    BY <2>3, <1>8, WriteGoesOn
  <2>6. /\ UNCHANGED <<fields, active, last>> /\ text \in FieldSet
        /\ pending_field' = Joined(pending_field, text)
    BY <1>8, <2>1, <2>4, <2>5, HistoryWritten
  <2> HIDE DEF text
  <2>7. Joined(pending_field, text) = text BY <2>2, <2>6, JoinedField, FieldTypes
  <2>8. CalmChannel' /\ CalmLine' BY <1>2, <1>3, <2>1, <2>3, <2>6
  <2>9. UNCHANGED <<at_prompt, skip_debug, sequence, active_command, trap, newest>>
    BY <2>1 DEF hooks, lines
  <2>10. Armed' BY <2>2, <2>6, <2>9 DEF Armed, InTurn
  <2>11. CalmStart'
    BY <2>1, <2>2, <2>5, <2>6, <2>7, <2>9, <2>10
    DEF CalmStart, Letter, Number, Text, Empty, Field, text
  <2>12. CalmPrompt' /\ CalmUser' BY <2>5 DEF CalmPrompt, CalmUser, PromptStep
  <2> QED BY <2>8, <2>11, <2>12 DEF Calm
<1>9. CASE start_ends
  <2>1. /\ pc = "s_nul" /\ UNCHANGED <<next, hooks, lines, disturbed>>
    BY <1>9 DEF start_ends
  <2>2. /\ Armed /\ ~at_prompt /\ skip_debug = 0 /\ next # "idle"
        /\ newest.n # 0 /\ pending_field = Field("line", newest.n, newest.size)
    BY <2>1 DEF Calm, CalmStart
  <2>3. /\ table' = table /\ unseen' = unseen /\ thrown = FALSE
        /\ pc' = IF thrown' THEN "gone" ELSE next
    BY <1>9, WriteGoesOn
  <2>4. Hears /\ StartDue BY <2>1, DueStart
  <2>5. thrown' = FALSE /\ fields' = << >> /\ pending_field' = Empty
        /\ StartTaken(pending_field.value)
    BY <1>9, <2>4, StartEnded
  <2>6. pending_field.value = typed
    <3>1. pending_field.value = newest.n BY <2>2 DEF Field
    <3> QED BY <2>2, <3>1 DEF Calm, CalmLine
  <2>7. /\ active'.id = active.id /\ active'.started = TRUE /\ active'.text = typed
        /\ last' = last
    BY <1>1, <2>5, <2>6 DEF StartTaken, ActiveInv
  <2>8. UNCHANGED <<at_prompt, skip_debug, sequence, active_command, trap, newest, typed, does>>
    BY <2>1 DEF hooks, lines
  <2>9. CalmChannel' BY <1>2, <2>3
  <2>10. CalmLine' BY <2>7, <2>8 DEF Calm, CalmLine
  <2>11. Running' BY <2>2, <2>7, <2>8 DEF Armed, Running, InTurn
  <2>12. Whole' BY <2>5 DEF Whole, Empty, Field
  <2>13. pc' \in {"p_trap", "run"} /\ trap'
    BY <1>1, <2>1, <2>2, <2>3, <2>5, <2>8 DEF HookTypes, HookOrder, StartStep
  <2>14. CalmStart' /\ CalmPrompt' /\ CalmUser'
    BY <2>2, <2>8, <2>11, <2>12, <2>13 DEF CalmStart, CalmPrompt, CalmUser, PromptStep
  <2> QED BY <2>9, <2>10, <2>14 DEF Calm
<1>10. CASE prompt_ends /\ active_command > 0
  <2>1. /\ pc = "p_end" /\ UNCHANGED <<next, hooks, lines, disturbed>>
    BY <1>10 DEF prompt_ends
  <2>2. Whole /\ Running
    BY <1>10, <2>1 DEF Calm, CalmPrompt, PromptStep, NoneYet
  <2>3. /\ table' = table /\ unseen' = unseen
        /\ pc' = IF thrown' THEN "gone" ELSE "p_reset"
    BY <1>10, WriteGoesOn
  <2>4. Hears /\ EndDue BY <1>10, <2>1, DueEnd
  <2>5. thrown' = FALSE /\ fields' = << >> /\ pending_field' = Empty /\ EndTaken
    BY <1>10, <2>2, <2>4, EndWritten DEF Whole
  <2>6. active' = [id |-> 0, started |-> FALSE, text |-> 0] /\ last' = last
    BY <2>5 DEF EndTaken
  <2>7. UNCHANGED <<sequence, active_command, newest, typed>> /\ pc' = "p_reset"
    BY <2>1, <2>3, <2>5 DEF hooks, lines
  <2>8. CalmChannel' BY <1>2, <2>3
  <2>9. CalmLine' BY <2>6, <2>7 DEF Calm, CalmLine
  <2>10. Between' /\ last' = sequence' BY <2>2, <2>6, <2>7 DEF Between, Running, InTurn
  <2>11. Whole' BY <2>5 DEF Whole, Empty, Field
  <2>12. CalmStart' /\ CalmPrompt' /\ CalmUser'
    BY <2>7, <2>10, <2>11 DEF CalmStart, CalmPrompt, CalmUser
  <2> QED BY <2>8, <2>9, <2>12 DEF Calm
<1>11. CASE prompt_arms
  <2>1. /\ pc = "p_arm" /\ UNCHANGED <<next, hooks, lines, disturbed>>
    BY <1>11 DEF prompt_arms
  <2>3. /\ table' = table /\ unseen' = unseen
        /\ pc' = IF thrown' THEN "gone" ELSE "p_at"
    BY <1>11, WriteGoesOn
  <2>4. Hears /\ ArmDue BY <2>1, DueArm
  <2>5. thrown' = FALSE /\ fields' = << >> /\ pending_field' = Empty
        /\ ArmTaken(active_command)
    BY <1>11, <2>4, ArmWritten
  <2>6. active' = [id |-> active_command, started |-> FALSE, text |-> 0]
        /\ last' = active_command
    BY <2>5 DEF ArmTaken
  <2>7. UNCHANGED <<sequence, active_command, newest, typed>> /\ pc' = "p_at"
    BY <2>1, <2>3, <2>5 DEF hooks, lines
  <2>8. CalmChannel' BY <1>2, <2>3
  <2>9. CalmLine' BY <2>6, <2>7 DEF Calm, CalmLine
  <2>10. active_command = sequence /\ sequence > 0
    BY <1>1, <2>1 DEF HookOrder, HookNumbers
  <2>11. Armed' BY <2>6, <2>7, <2>10 DEF Armed, InTurn
  <2>12. Whole' BY <2>5 DEF Whole, Empty, Field
  <2>13. CalmStart' /\ CalmPrompt' /\ CalmUser'
    BY <2>7, <2>11, <2>12 DEF CalmStart, CalmPrompt, CalmUser
  <2> QED BY <2>8, <2>9, <2>13 DEF Calm
<1>12. CASE prompt_ends /\ ~(active_command > 0)
  <2>1. active_command = 0 BY <1>1, <1>12 DEF HookNumbers
  <2>2. pc = "p_end" /\ UNCHANGED <<next, hooks, lines, channel, protocol>> /\ pc' = "p_count"
    BY <1>12, <2>1 DEF prompt_ends
  <2>3. Whole /\ NoneYet
    BY <2>1, <2>2 DEF Calm, CalmPrompt, PromptStep, Running, InTurn
  <2>4. UNCHANGED <<at_prompt, skip_debug, sequence, active_command, trap, table, unseen>>
    BY <2>2 DEF hooks, channel
  <2>5. CalmChannel' /\ CalmLine' BY <1>2, <1>3, <1>4, <2>2, <2>4
  <2>6. Whole' /\ Between' /\ last' = sequence' BY <1>4, <2>2, <2>3, <2>4 DEF NoneYet
  <2>7. CalmStart' /\ CalmPrompt' /\ CalmUser'
    BY <2>1, <2>2, <2>4, <2>6 DEF CalmStart, CalmPrompt, CalmUser
  <2> QED BY <2>5, <2>7 DEF Calm
<1>13. ASSUME NEW from, NEW goto, Assign(from, goto)
       PROVE  /\ pc = from /\ pc' = goto /\ UNCHANGED <<next, lines, fields, pending_field,
                                                        active, last>>
              /\ CalmChannel' /\ CalmLine'
  <2>1. /\ pc = from /\ pc' = goto /\ UNCHANGED <<next, lines, fields, pending_field, active,
                                                  last, table, unseen>>
    BY <1>13 DEF Assign, channel, protocol
  <2> QED BY <1>2, <1>3, <2>1
<1>14. CASE prompt_untraps
  <2>1. Assign("p_trap", "p_end") /\ UNCHANGED <<sequence, active_command>>
    BY <1>14 DEF prompt_untraps
  <2>2. UNCHANGED protocol /\ pc = "p_trap" /\ pc' = "p_end" BY <2>1 DEF Assign
  <2>3. Whole /\ (Running \/ NoneYet) BY <2>2 DEF Calm, CalmPrompt, PromptStep
  <2>4. CalmStart' /\ CalmPrompt' /\ CalmUser'
    BY <1>4, <2>1, <2>2, <2>3 DEF CalmStart, CalmPrompt, CalmUser
  <2> QED BY <1>13, <2>1, <2>4 DEF Calm
<1>15. CASE prompt_resets
  <2>1. Assign("p_reset", "p_count") /\ UNCHANGED sequence /\ active_command' = 0
    BY <1>15 DEF prompt_resets
  <2>2. UNCHANGED <<fields, pending_field, active, last>> /\ pc = "p_reset" /\ pc' = "p_count"
    BY <2>1 DEF Assign, protocol
  <2>3. Whole /\ Between /\ last = sequence BY <2>2 DEF Calm, CalmPrompt, PromptStep
  <2>4. Whole' /\ Between' /\ last' = sequence'
    BY <2>1, <2>2, <2>3 DEF Whole, Between, Empty, Field
  <2>5. CalmStart' /\ CalmPrompt' /\ CalmUser'
    BY <2>1, <2>2, <2>4 DEF CalmStart, CalmPrompt, CalmUser
  <2> QED BY <1>13, <2>1, <2>5 DEF Calm
<1>16. CASE prompt_counts
  <2>1. Assign("p_count", "p_set") /\ UNCHANGED active_command /\ sequence' = sequence + 1
    BY <1>16 DEF prompt_counts
  <2>2. UNCHANGED <<fields, pending_field, active, last>> /\ pc = "p_count" /\ pc' = "p_set"
    BY <2>1 DEF Assign, protocol
  <2>3. Whole /\ Between /\ last = sequence /\ active_command = 0
    BY <2>2 DEF Calm, CalmPrompt, PromptStep
  <2>4. Whole' /\ Between' /\ sequence' = last' + 1
    BY <2>1, <2>2, <2>3 DEF Whole, Between, Empty, Field
  <2>5. CalmStart' /\ CalmPrompt' /\ CalmUser'
    BY <2>1, <2>2, <2>3, <2>4 DEF CalmStart, CalmPrompt, CalmUser
  <2> QED BY <1>13, <2>1, <2>5 DEF Calm
<1>17. CASE prompt_sets
  <2>1. Assign("p_set", "p_arm") /\ UNCHANGED sequence BY <1>17 DEF prompt_sets
  <2>2. UNCHANGED <<fields, pending_field, active, last>> /\ pc = "p_set" /\ pc' = "p_arm"
    BY <2>1 DEF Assign, protocol
  <2>3. Whole /\ Between /\ sequence = last + 1
    BY <2>2 DEF Calm, CalmPrompt, PromptStep
  <2>4. Whole' /\ Between' /\ sequence' = last' + 1
    BY <2>1, <2>2, <2>3 DEF Whole, Between, Empty, Field
  <2>5. CalmStart' /\ CalmPrompt' /\ CalmUser'
    BY <2>2, <2>4 DEF CalmStart, CalmPrompt, CalmUser
  <2> QED BY <1>13, <2>1, <2>5 DEF Calm
<1>18. CASE prompt_at
  <2>1. Assign("p_at", "p_skip") /\ UNCHANGED <<sequence, active_command>> /\ at_prompt' = TRUE
    BY <1>18 DEF prompt_at
  <2>2. UNCHANGED protocol /\ pc = "p_at" /\ pc' = "p_skip" BY <2>1 DEF Assign
  <2>3. Whole /\ Armed BY <2>2 DEF Calm, CalmPrompt, PromptStep
  <2>4. CalmStart' /\ CalmPrompt' /\ CalmUser'
    BY <1>4, <2>1, <2>2, <2>3 DEF CalmStart, CalmPrompt, CalmUser
  <2> QED BY <1>13, <2>1, <2>4 DEF Calm
<1>19. CASE prompt_skips
  <2>1. Assign("p_skip", "p_debug") /\ UNCHANGED <<sequence, active_command, at_prompt>>
        /\ skip_debug' = 1
    BY <1>19 DEF prompt_skips
  <2>2. UNCHANGED protocol /\ pc = "p_skip" /\ pc' = "p_debug" BY <2>1 DEF Assign
  <2>3. Whole /\ Armed /\ at_prompt BY <2>2 DEF Calm, CalmPrompt, PromptStep
  <2>4. CalmStart' /\ CalmPrompt' /\ CalmUser'
    BY <1>4, <2>1, <2>2, <2>3 DEF CalmStart, CalmPrompt, CalmUser
  <2> QED BY <1>13, <2>1, <2>4 DEF Calm
<1>20. CASE prompt_traps
  <2>1. /\ pc = "p_debug" /\ pc' = "start" /\ next' = "idle"
        /\ UNCHANGED <<at_prompt, skip_debug, sequence, active_command, lines, channel, protocol>>
    BY <1>20 DEF prompt_traps
  <2>2. Whole /\ Armed /\ at_prompt /\ skip_debug = 1
    BY <2>1 DEF Calm, CalmPrompt, PromptStep
  <2>3. UNCHANGED <<table, unseen>> BY <2>1 DEF channel
  <2>4. CalmChannel' /\ CalmLine' BY <1>2, <1>3, <1>4, <2>1, <2>3
  <2>5. CalmStart' /\ CalmPrompt' /\ CalmUser'
    BY <1>4, <2>1, <2>2 DEF CalmStart, CalmPrompt, CalmUser, PromptStep
  <2> QED BY <2>4, <2>5 DEF Calm
<1> QED
  BY <1>5, <1>6, <1>7, <1>8, <1>9, <1>10, <1>11, <1>12, <1>14, <1>15, <1>16, <1>17, <1>18,
     <1>19, <1>20 DEF __whyrun_start, __whyrun_prompt

(* The steps of the user that do not disturb the session. *)
LEMMA CalmUserStep ==
    ASSUME Base, Calm, User, ~disturbed', pc' # "gone"
    PROVE  Calm'
<1>1. HookTypes /\ HookNumbers /\ HookOrder /\ ActiveInv /\ FieldsOK
  BY DEF Base, HooksInv, FieldsInv
<1>2. ASSUME UNCHANGED <<table, unseen>> PROVE CalmChannel'
  BY <1>2 DEF Calm, CalmChannel
<1>3. ASSUME UNCHANGED protocol, UNCHANGED <<sequence, active_command>>
      PROVE  /\ Whole' <=> Whole
             /\ Armed' <=> Armed
             /\ Running' <=> Running
             /\ UNCHANGED <<active, last, fields, pending_field>>
  BY <1>3 DEF protocol, Whole, Armed, Running, InTurn, Empty, Field
<1>4. CASE EnterNothing
  <2>1. /\ pc = "idle" /\ pc' = "prompt" /\ does' = "nothing"
        /\ UNCHANGED <<at_prompt, skip_debug, sequence, active_command, trap, typed, newest,
                       table, unseen, protocol>>
    BY <1>4 DEF EnterNothing, hooks, channel
  <2>2. Whole /\ Armed /\ at_prompt /\ trap /\ skip_debug = 0 BY <2>1 DEF Calm, CalmUser
  <2>3. CalmChannel' BY <1>2, <2>1
  <2>4. CalmLine' BY <2>1 DEF Calm, CalmLine
  <2>5. CalmStart' /\ CalmPrompt' /\ CalmUser'
    BY <1>3, <2>1, <2>2 DEF CalmStart, CalmPrompt, CalmUser, PromptStep
  <2> QED BY <2>3, <2>4, <2>5 DEF Calm
<1>5. CASE EnterLine
  <2>1. /\ pc = "idle" /\ typed' = typed + 1 /\ does' # "nothing"
        /\ UNCHANGED <<at_prompt, skip_debug, sequence, active_command, trap,
                       table, unseen, protocol>>
    BY <1>5 DEF EnterLine, hooks, channel
  <2>2. Whole /\ Armed /\ at_prompt /\ trap /\ skip_debug = 0 BY <2>1 DEF Calm, CalmUser
  <2>3. CalmChannel' BY <1>2, <2>1
  <2>4. PICK size \in LineSize : /\ newest' = [n |-> typed + 1, size |-> size]
                                 /\ disturbed' = (disturbed \/ size > MaxField)
    BY <1>5 DEF EnterLine, Remembered
  <2>5. newest'.n = typed' /\ newest'.size <= MaxField
    <3>1. size \in Nat /\ MaxField \in Nat /\ ~(size > MaxField) BY <2>4, SessionAssumption
    <3> QED BY <2>1, <2>4, <3>1
  <2>6. ~active'.started BY <1>3, <2>1, <2>2 DEF Armed
  <2>7. CalmLine' BY <2>5, <2>6 DEF CalmLine
  <2>8. \/ pc' = "run" /\ does' = "group"
        \/ pc' = "start" /\ next' = "run"
    BY <1>5, <2>2 DEF EnterLine, Debug
  <2>9. CalmStart' /\ CalmPrompt' /\ CalmUser'
    BY <1>3, <2>1, <2>2, <2>8 DEF CalmStart, CalmPrompt, CalmUser, PromptStep
  <2> QED BY <2>3, <2>7, <2>9 DEF Calm
<1>6. CASE RunMore \/ RunDone
  <2>1. /\ pc = "run"
        /\ UNCHANGED <<at_prompt, skip_debug, sequence, active_command, trap, lines,
                       table, unseen, protocol>>
    BY <1>6 DEF RunMore, RunDone, hooks, channel
  <2>2. /\ Whole /\ trap /\ skip_debug = 0
        /\ IF at_prompt THEN Armed /\ does = "group" ELSE Running
    BY <2>1 DEF Calm, CalmUser
  <2>3. \/ pc' = "prompt"
        \/ pc' = "start" /\ next' = "run" /\ does = "simple"
    BY <1>6, <2>2 DEF RunMore, RunDone, Debug
  <2>4. CalmChannel' BY <1>2, <2>1
  <2>5. CalmLine' BY <1>3, <2>1 DEF Calm, CalmLine, lines
  <2>6. CalmStart' /\ CalmPrompt' /\ CalmUser'
    BY <1>3, <2>1, <2>2, <2>3 DEF CalmStart, CalmPrompt, CalmUser, PromptStep
  <2> QED BY <2>4, <2>5, <2>6 DEF Calm
<1>7. CASE RunForget
  <2>1. /\ pc = "run" /\ pc' = "prompt" /\ newest' = NoLine /\ does \in {"forget", "exec"}
        /\ UNCHANGED <<at_prompt, skip_debug, sequence, active_command, typed, does,
                       table, unseen, protocol>>
    BY <1>7 DEF RunForget, channel
  <2>2. /\ Whole /\ trap /\ skip_debug = 0 /\ ~at_prompt /\ Running
    BY <2>1 DEF Calm, CalmUser
  <2>3. CalmChannel' BY <1>2, <2>1
  <2>4. newest'.n = 0 /\ newest'.size = 0 BY <2>1 DEF NoLine
  <2>5. CalmLine' BY <1>3, <2>1, <2>4, SessionAssumption DEF Calm, CalmLine
  <2>6. CalmStart' /\ CalmPrompt' /\ CalmUser'
    BY <1>3, <2>1, <2>2 DEF CalmStart, CalmPrompt, CalmUser, PromptStep
  <2> QED BY <2>3, <2>5, <2>6 DEF Calm
<1>8. CASE RunRedirect
  <2>1. /\ pc = "run" /\ pc' = "prompt" /\ does = "redirect" /\ table'[Context] = "channel"
        /\ UNCHANGED <<at_prompt, skip_debug, sequence, active_command, trap, lines, unseen,
                       protocol>>
    BY <1>8 DEF RunRedirect, hooks
  <2>2. Whole /\ trap /\ skip_debug = 0 /\ ~at_prompt /\ Running
    BY <2>1 DEF Calm, CalmUser
  <2>3. CalmChannel' BY <2>1 DEF Calm, CalmChannel
  <2>4. CalmLine' BY <1>3, <2>1 DEF Calm, CalmLine, lines
  <2>5. CalmStart' /\ CalmPrompt' /\ CalmUser'
    BY <1>3, <2>1, <2>2 DEF CalmStart, CalmPrompt, CalmUser, PromptStep
  <2> QED BY <2>3, <2>4, <2>5 DEF Calm
<1>9. ~RunUnseen /\ ~RunMeddle /\ ~Interrupt /\ ~Leave
  BY DEF RunUnseen, RunMeddle, Interrupt, Leave
<1> QED BY <1>4, <1>5, <1>6, <1>7, <1>8, <1>9 DEF User

(* Once disturbed, always; and nothing happens after the end. *)
LEMMA Monotone == Base /\ BNext => pc # "gone" /\ thrown = FALSE /\ (disturbed => disturbed')
<1> SUFFICES ASSUME Base, BNext
             PROVE  pc # "gone" /\ thrown = FALSE /\ (disturbed => disturbed')
  OBVIOUS
<1>1. pc # "gone"
  BY DEF BNext, Shell, User, PROMPT_COMMAND, __whyrun_start, start_checks, start_prints,
     start_history, start_ends, __whyrun_prompt, prompt_untraps, prompt_ends, prompt_resets,
     prompt_counts, prompt_sets, prompt_arms, prompt_at, prompt_skips, prompt_traps, Assign,
     EnterNothing, EnterLine, RunMore, RunDone, RunForget, RunRedirect, RunUnseen, RunMeddle,
     Interrupt, Leave, HookStep, StartStep, PromptStep
<1>2. disturbed => disturbed'
  BY DEF BNext, Shell, User, PROMPT_COMMAND, __whyrun_start, start_checks, start_prints,
     start_history, start_ends, __whyrun_prompt, prompt_untraps, prompt_ends, prompt_resets,
     prompt_counts, prompt_sets, prompt_arms, prompt_at, prompt_skips, prompt_traps, Assign,
     EnterNothing, EnterLine, RunMore, RunDone, RunForget, RunRedirect, RunUnseen, RunMeddle,
     Interrupt, Leave
<1> QED BY <1>1, <1>2 DEF Base, HooksInv, HookTypes, HookOrder

(* An undisturbed session stays one, or is disturbed, or ends. *)
LEMMA CalmNext == Base /\ CalmInv /\ [BNext]_bvars => CalmInv'
<1> SUFFICES ASSUME Base, CalmInv, [BNext]_bvars, ~disturbed', pc' # "gone" PROVE Calm'
  BY DEF CalmInv
<1>1. CASE BNext
  <2>1. Calm BY <1>1, Monotone DEF CalmInv
  <2> QED BY <1>1, <2>1, CalmHooks, CalmUserStep DEF BNext, Shell
<1>2. CASE UNCHANGED bvars
  <2>1. UNCHANGED <<pc, next, at_prompt, skip_debug, sequence, active_command, trap, typed, newest,
                    does, table, unseen, fields, pending_field, active, last, disturbed>>
    BY <1>2 DEF bvars, hooks, lines, channel, protocol
  <2>2. Calm BY <2>1 DEF CalmInv
  <2>3. /\ Whole' <=> Whole
        /\ Armed' <=> Armed
        /\ Running' <=> Running
        /\ NoneYet' <=> NoneYet
        /\ Between' <=> Between
    BY <2>1 DEF Whole, Armed, Running, NoneYet, Between, InTurn, Empty, Field
  <2>4. CalmChannel' BY <2>1, <2>2 DEF Calm, CalmChannel
  <2>5. CalmLine' BY <2>1, <2>2 DEF Calm, CalmLine
  <2>6. CalmStart' BY <2>1, <2>2, <2>3 DEF Calm, CalmStart, Letter, Number, Text, Empty, Field
  <2>7. CalmPrompt' BY <2>1, <2>2, <2>3 DEF Calm, CalmPrompt
  <2>8. CalmUser' BY <2>1, <2>2, <2>3 DEF Calm, CalmUser
  <2> QED BY <2>4, <2>5, <2>6, <2>7, <2>8 DEF Calm
<1> QED BY <1>1, <1>2

(* The whole invariant, in every state. *)
LEMMA CalmAlways == BSpec => [](Base /\ CalmInv)
<1>1. BInit => Base /\ CalmInv BY BaseInit, CalmInit
<1>2. Base /\ CalmInv /\ [BNext]_bvars => (Base /\ CalmInv)' BY BaseNext, CalmNext
<1> QED BY <1>1, <1>2, PTL DEF BSpec

-----------------------------------------------------------------------------
(* BashSession implements CommandMarkers *)

(* What a step means to the recorder: a marker is taken, the recorder throws, or
   its command stays as it is. *)
Still == UNCHANGED <<active, last, thrown>> /\ pc # "gone" /\ pc' # "gone"
Arms == /\ ArmTaken(active_command) /\ thrown' = FALSE /\ pc = "p_arm" /\ pc' # "gone"
           /\ UNCHANGED disturbed
Starts(text) == /\ StartTaken(text) /\ thrown' = FALSE /\ pc # "gone" /\ pc' # "gone"
                    /\ UNCHANGED disturbed
Ends == /\ EndTaken /\ thrown' = FALSE /\ pc # "gone" /\ pc' # "gone"
           /\ UNCHANGED disturbed
Throws == /\ thrown' = TRUE /\ pc' = "gone" /\ UNCHANGED <<active, last>>
          /\ UNCHANGED lines /\ disturbed /\ disturbed'

(* Every step is one of these; the recorder throws in disturbed sessions only. *)
LEMMA RecorderStep ==
    ASSUME Base, CalmInv, BNext
    PROVE  \/ Still
           \/ Arms
           \/ \E text \in Nat : Starts(text)
           \/ Ends
           \/ Throws
           \/ Leave
<1>1. pc # "gone" /\ thrown = FALSE /\ (disturbed => disturbed') BY Monotone
<1>2. ASSUME ~disturbed PROVE Calm BY <1>1, <1>2 DEF CalmInv
<1>3. CASE start_prints
  <2>1. pc' = IF thrown' THEN "gone" ELSE "s_history" BY <1>3, WriteGoesOn
  <2>2. UNCHANGED <<active, last, lines, disturbed>> BY <1>3, Printed DEF start_prints
  <2>3. thrown' = FALSE \/ (thrown' = TRUE /\ pending_field # Empty)
    BY <1>1, <1>3, Printed
  <2>4. pc = "s_print" BY <1>3 DEF start_prints
  <2>5. pending_field # Empty => disturbed BY <1>2, <2>4 DEF Calm, CalmStart, Whole
  <2> QED BY <1>1, <2>1, <2>2, <2>3, <2>5 DEF Still, Throws
<1>4. CASE start_history
  <2> DEFINE text == IF newest.n = 0 THEN Empty ELSE Field("line", newest.n, newest.size)
  <2>1. pc' = IF thrown' THEN "gone" ELSE "s_nul" BY <1>4, WriteGoesOn
  <2>2. UNCHANGED <<active, last, lines>> /\ pc = "s_history"
    BY <1>4, HistoryWritten DEF start_history
  <2>3. /\ text \in FieldSet
        /\ \/ thrown' = FALSE
           \/ /\ thrown' = TRUE
              /\ \/ \E i \in 1 .. Len(fields) : TooLong(fields[i].size)
                 \/ TooLong(Joined(pending_field, text).size)
    BY <1>1, <1>4, HistoryWritten
  <2>4. text.size = IF newest.n = 0 THEN 0 ELSE newest.size BY DEF Empty, Field
  <2> HIDE DEF text
  <2>5. ASSUME ~disturbed PROVE thrown' = FALSE
    <3>1. /\ Len(fields) = 3 /\ pending_field = Empty
          /\ fields[1] = Letter("S") /\ fields[2] = Number(active_command)
          /\ fields[3] = Text /\ newest.size <= MaxField
      BY <1>2, <2>2, <2>5 DEF Calm, CalmStart, CalmLine
    <3>2. fields[1].size = 1 /\ fields[2].size = 1 /\ fields[3].size = 1
      BY <3>1 DEF Letter, Number, Text, Field
    <3>3. Joined(pending_field, text) = text BY <2>3, <3>1, JoinedField, FieldTypes
    <3>4. MaxField \in Nat \ {0} BY SessionAssumption
    <3>5. newest.size \in Nat BY DEF Base, HooksInv, HookNumbers
    <3>6. ~TooLong(Joined(pending_field, text).size)
      BY <2>4, <3>1, <3>3, <3>4, <3>5 DEF TooLong
    <3>7. \A i \in 1 .. Len(fields) : i = 1 \/ i = 2 \/ i = 3 BY <3>1
    <3>8. ~TooLong(1) BY <3>4 DEF TooLong
    <3>9. ~ \E i \in 1 .. Len(fields) : TooLong(fields[i].size) BY <3>2, <3>7, <3>8
    <3> QED BY <2>3, <3>6, <3>9
  <2> QED BY <1>1, <2>1, <2>2, <2>3, <2>5 DEF Still, Throws
<1>5. CASE start_ends
  <2>1. pc' = IF thrown' THEN "gone" ELSE next BY <1>5, WriteGoesOn
  <2>2. UNCHANGED <<lines, disturbed>> /\ pc = "s_nul" BY <1>5 DEF start_ends
  <2>3. next # "gone" BY DEF Base, HooksInv, HookTypes
  <2>4. CASE UNCHANGED <<active, thrown, last>> BY <1>1, <2>1, <2>3, <2>4 DEF Still
  <2>5. CASE thrown' = TRUE /\ UNCHANGED <<active, last>> /\ ~StartDue
    <3>1. disturbed BY <1>2, <2>2, <2>5, DueStart
    <3> QED BY <2>1, <2>2, <2>5, <3>1 DEF Throws
  <2>6. CASE thrown' = FALSE /\ StartTaken(pending_field.value)
    <3>1. pending_field.value \in Nat BY DEF Base, FieldsInv, FieldsOK, FieldSet
    <3> QED BY <1>1, <2>1, <2>2, <2>3, <2>6, <3>1 DEF Starts
  <2>7. CASE thrown' = FALSE /\ EndTaken BY <1>1, <2>1, <2>2, <2>3, <2>7 DEF Ends
  <2> QED BY <1>5, <2>4, <2>5, <2>6, <2>7, StartEnded
<1>6. CASE prompt_ends /\ active_command > 0
  <2>1. pc' = IF thrown' THEN "gone" ELSE "p_reset" BY <1>6, WriteGoesOn
  <2>2. UNCHANGED <<lines, disturbed>> /\ pc = "p_end" BY <1>6 DEF prompt_ends
  <2>3. CASE UNCHANGED <<active, thrown, last>> BY <1>1, <2>1, <2>3 DEF Still
  <2>4. CASE thrown' = TRUE /\ UNCHANGED <<active, last>> /\ ~EndDue
    <3>1. disturbed BY <1>2, <1>6, <2>2, <2>4, DueEnd
    <3> QED BY <2>1, <2>2, <2>4, <3>1 DEF Throws
  <2>5. CASE thrown' = FALSE /\ EndTaken BY <1>1, <2>1, <2>2, <2>5 DEF Ends
  <2>6. CASE thrown' = FALSE /\ \E text \in Nat : StartTaken(text)
    BY <1>1, <2>1, <2>2, <2>6 DEF Starts
  <2> QED BY <1>6, <2>3, <2>4, <2>5, <2>6, EndWritten
<1>7. CASE prompt_arms
  <2>1. pc' = IF thrown' THEN "gone" ELSE "p_at" BY <1>7, WriteGoesOn
  <2>2. UNCHANGED <<lines, disturbed>> /\ pc = "p_arm" BY <1>7 DEF prompt_arms
  <2>3. CASE UNCHANGED <<active, thrown, last>> BY <1>1, <2>1, <2>3 DEF Still
  <2>4. CASE thrown' = TRUE /\ UNCHANGED <<active, last>> /\ ~ArmDue
    <3>1. disturbed BY <1>2, <2>2, <2>4, DueArm
    <3> QED BY <2>1, <2>2, <2>4, <3>1 DEF Throws
  <2>5. CASE thrown' = FALSE /\ ArmTaken(active_command)
    BY <1>1, <2>1, <2>2, <2>5 DEF Arms
  <2> QED BY <1>7, <2>3, <2>4, <2>5, ArmWritten
<1>8. CASE RunMeddle
  <2>1. pc' = IF thrown' THEN "gone" ELSE "prompt" BY <1>8, WriteGoesOn
  <2>2. UNCHANGED <<active, last, lines>> /\ pc = "run" BY <1>8, Meddled DEF RunMeddle
  <2>3. thrown' = FALSE \/ (thrown' = TRUE /\ pending_field # Empty)
    BY <1>1, <1>8, Meddled
  <2>4. pending_field # Empty => disturbed BY <1>2, <2>2 DEF Calm, CalmUser, Whole
  <2> QED BY <1>1, <2>1, <2>2, <2>3, <2>4 DEF Still, Throws
<1>9. CASE prompt_ends /\ ~(active_command > 0)
  <2>1. active_command = 0 BY <1>9 DEF Base, HooksInv, HookNumbers
  <2> QED BY <1>1, <1>9, <2>1 DEF prompt_ends, protocol, Still
<1>10. CASE PROMPT_COMMAND \/ start_checks \/ prompt_untraps \/ prompt_resets \/ prompt_counts
              \/ prompt_sets \/ prompt_at \/ prompt_skips \/ prompt_traps
  <2>1. next # "gone" BY DEF Base, HooksInv, HookTypes
  <2> QED BY <1>1, <1>10, <2>1
        DEF Still, PROMPT_COMMAND, start_checks, prompt_untraps, prompt_resets, prompt_counts,
            prompt_sets, prompt_at, prompt_skips, prompt_traps, Assign, Debug, protocol
<1>11. CASE EnterNothing \/ EnterLine \/ RunMore \/ RunDone \/ RunForget \/ RunRedirect
              \/ RunUnseen \/ Interrupt
  BY <1>1, <1>11 DEF Still, EnterNothing, EnterLine, RunMore, RunDone, RunForget, RunRedirect,
     RunUnseen, Interrupt, Debug, protocol
<1> QED BY <1>3, <1>4, <1>5, <1>6, <1>7, <1>8, <1>9, <1>10, <1>11
      DEF BNext, Shell, User, __whyrun_start, __whyrun_prompt

(* Every step of the session is a step of CommandMarkers, or changes nothing of it. *)
LEMMA MarkersNext == Base /\ CalmInv /\ [BNext]_bvars => [Markers!MNext]_(Markers!mvars)
<1> SUFFICES ASSUME Base, CalmInv, [BNext]_bvars PROVE [Markers!MNext]_(Markers!mvars)
  OBVIOUS
<1>1. CASE UNCHANGED bvars
  <2>1. UNCHANGED <<pc, active, last, disturbed, thrown>> BY <1>1 DEF bvars, protocol
  <2> QED BY <2>1 DEF Markers!mvars, Stage
<1>2. CASE BNext
  <2>1. pc # "gone" /\ thrown = FALSE /\ (disturbed => disturbed') BY <1>2, Monotone
  <2>2. disturbed \in BOOLEAN /\ disturbed' \in BOOLEAN /\ thrown' \in BOOLEAN
    <3>1. Base' BY BaseNext
    <3> QED BY <3>1 DEF Base, HooksInv, HookTypes
  <2>3. Stage = IF active.id = 0 THEN "idle" ELSE IF active.started THEN "running" ELSE "armed"
    BY <2>1 DEF Stage
  <2>4. pc' # "gone" => Stage' = IF active'.id = 0 THEN "idle"
                                ELSE IF active'.started THEN "running" ELSE "armed"
    BY DEF Stage
  <2>5. pc' = "gone" => Stage' = "over" BY DEF Stage
  <2>6. CASE Still
    <3>1. Stage' = Stage BY <2>3, <2>4, <2>6 DEF Still
    <3>2. CASE disturbed' = disturbed BY <2>6, <3>1, <3>2 DEF Still, Markers!mvars
    <3>3. CASE disturbed' = TRUE
      <4>1. Markers!Disturb BY <2>6, <3>1, <3>3 DEF Still, Markers!Disturb
      <4> QED BY <2>1, <4>1 DEF Markers!MNext
    <3> QED BY <2>1, <2>2, <3>2, <3>3
  <2>7. CASE Arms
    <3>1. active_command \in 1 .. MaxCommand /\ active_command > last
          /\ (active_command = last + 1 \/ disturbed)
      <4>1. active_command = sequence /\ last < sequence
        BY <2>7 DEF Arms, Base, HooksInv, HookOrder
      <4>2. ~disturbed => sequence = last + 1
        BY <2>7 DEF Arms, CalmInv, Calm, CalmPrompt
      <4>3. sequence \in 0 .. MaxCommand /\ last \in 0 .. sequence /\ MaxCommand \in Nat
        BY SessionAssumption DEF Base, HooksInv, HookNumbers
      <4> QED BY <4>1, <4>2, <4>3
    <3>2. Stage = "idle" /\ Stage' = "armed"
      BY <2>3, <2>4, <2>7 DEF Arms, ArmTaken
    <3>3. Markers!Arm
      BY <2>1, <2>7, <3>1, <3>2 DEF Arms, ArmTaken, Markers!Arm
    <3> QED BY <2>1, <3>3 DEF Markers!MNext
  <2>8. CASE \E text \in Nat : Starts(text)
    <3>1. PICK text \in Nat : Starts(text) BY <2>8
    <3>2. active'.id = active.id /\ active'.started = TRUE
      BY <3>1 DEF Starts, StartTaken, Base, ActiveInv
    <3>3. Stage = "armed" /\ Stage' = "running"
      BY <2>3, <2>4, <3>1, <3>2 DEF Starts, StartTaken
    <3>4. Markers!Start BY <2>1, <3>1, <3>3 DEF Starts, StartTaken, Markers!Start
    <3> QED BY <2>1, <3>4 DEF Markers!MNext
  <2>9. CASE Ends
    <3>1. Stage = "running" /\ Stage' = "idle"
      BY <2>3, <2>4, <2>9 DEF Ends, EndTaken
    <3>2. Markers!End BY <2>1, <2>9, <3>1 DEF Ends, EndTaken, Markers!End
    <3> QED BY <2>1, <3>2 DEF Markers!MNext
  <2>10. CASE Throws
    <3>1. disturbed' = disturbed BY <2>2, <2>10 DEF Throws
    <3>2. Markers!Break BY <2>5, <2>10, <3>1 DEF Throws, Markers!Break
    <3> QED BY <2>1, <3>2 DEF Markers!MNext
  <2>11. CASE Leave
    <3>1. pc' = "gone" /\ last' = last /\ disturbed' = (disturbed \/ pc \in HookStep)
          /\ thrown' = (fields # << >> \/ pending_field # Empty)
      BY <2>11 DEF Leave
    <3>2. CASE disturbed'
      <4>1. disturbed' = TRUE BY <2>2, <3>2
      <4>2. Markers!Over BY <2>2, <2>3, <2>5, <3>1, <4>1 DEF Markers!Over
      <4> QED BY <2>1, <4>2 DEF Markers!MNext
    <3>3. CASE ~disturbed'
      <4>1. ~disturbed /\ pc \in {"idle", "run", "prompt"}
        BY <2>1, <3>1, <3>3 DEF Base, HooksInv, HookTypes
      <4>2. Whole BY <2>1, <4>1 DEF CalmInv, Calm, CalmUser
      <4>3. thrown' = FALSE BY <3>1, <4>2 DEF Whole
      <4>4. UNCHANGED <<disturbed, thrown>> BY <2>1, <2>2, <3>3, <4>1, <4>3
      <4>5. Markers!Over BY <2>3, <2>5, <3>1, <4>4 DEF Markers!Over
      <4> QED BY <2>1, <4>5 DEF Markers!MNext
    <3> QED BY <3>2, <3>3
  <2> QED BY <1>2, <2>6, <2>7, <2>8, <2>9, <2>10, <2>11, RecorderStep
<1> QED BY <1>1, <1>2

(* The hooks keep the promise of CommandMarkers for every kind of line: the steps of
   the session are steps of CommandMarkers. *)
THEOREM SessionImplementsMarkers == BSpec => ImplementsMarkers
<1>1. BInit => Markers!MInit
  BY DEF BInit, Markers!MInit, Stage
<1> QED BY <1>1, CalmAlways, MarkersNext, PTL DEF BSpec, ImplementsMarkers, Markers!MSpec

(* The text of a command is the line that was entered for it, also after the shell
   is gone. *)
THEOREM CommandsAreNamed == BSpec => []StartNamesTheLine
<1>1. BInit => StartNamesTheLine BY DEF BInit, StartNamesTheLine
<1>2. Base /\ CalmInv /\ StartNamesTheLine /\ [BNext]_bvars => StartNamesTheLine'
  <2> SUFFICES ASSUME Base, CalmInv, StartNamesTheLine, [BNext]_bvars,
                      active'.started, ~disturbed', does' # "nothing"
               PROVE  active'.text = typed'
    BY DEF StartNamesTheLine
  <2>1. CASE pc' # "gone"
    <3>1. CalmInv' BY CalmNext
    <3> QED BY <2>1, <3>1 DEF CalmInv, Calm, CalmLine
  <2>2. CASE UNCHANGED bvars
    BY <2>2 DEF StartNamesTheLine, bvars, lines, protocol
  <2>3. CASE BNext /\ pc' = "gone"
    <3>1. Leave \/ Throws
      BY <2>3, RecorderStep DEF Still, Arms, Starts, Ends
    <3>2. UNCHANGED <<active, typed, does>> /\ ~disturbed
      BY <2>3, <3>1, Monotone DEF Leave, Throws, lines
    <3> QED BY <3>2 DEF StartNamesTheLine
  <2> QED BY <2>1, <2>2, <2>3
<1> QED BY <1>1, <1>2, CalmAlways, PTL DEF BSpec
=============================================================================
