---------------------------- MODULE BashSession ----------------------------
(***************************************************************************)
(* An interactive session (src/bash_session.cpp): the hooks that the shell *)
(* runs, statement by statement; the descriptor they write markers to, as  *)
(* the kernel has it and as CommandChannelTracker (src/ptrace_collector    *)
(* .cpp) follows it; and CommandProtocol, which puts markers together and  *)
(* hands them to on_command_marker.                                        *)
(*                                                                         *)
(* Bash is external.  Its part is what the hooks make of it: it runs       *)
(* PROMPT_COMMAND before a prompt and the DEBUG trap before a simple       *)
(* command, and redirects a builtin with dup2.  The shell is stopped while *)
(* the recorder handles its write, so a statement that writes is one step. *)
(***************************************************************************)
EXTENDS Integers, Sequences, SequencesExt, FiniteSetsExt

CONSTANTS
    MaxCommand,   \* bound: commands
    MaxField,     \* kMaximumFieldBytes, in units
    LineSize,     \* lengths of the output of `history 1'
    Fd,           \* descriptors of the shell; the user leaves the last one alone
    Stdout,       \* 1
    Context       \* WHYRUN_CONTEXT_FD; F_DUPFD looks for a free one from here

ASSUME SessionAssumption ==
    /\ MaxCommand \in Nat \ {0} /\ MaxField \in Nat \ {0}
    /\ LineSize \subseteq Nat \ {0}
    /\ Fd \subseteq Nat /\ {Stdout, Context} \subseteq Fd /\ Stdout < Context
    /\ \E top \in Fd : Context < top /\ \A f \in Fd : f <= top

VARIABLES
    \* the shell
    pc,           \* the statement it is at; idle at the prompt; gone
    next,         \* where __whyrun_start returns to
    at_prompt, skip_debug, sequence, active_command,   \* __whyrun_...
    trap,         \* a DEBUG trap is set
    typed,        \* the number of the last line that was entered
    newest,       \* the last line of the history: [n, size], n = 0 if there is none
    does,         \* what the line that was entered does
    table,        \* the shell's descriptors: channel, other or free
    \* the recorder
    aliases, fields, pending_field,
    active,       \* active_command_ of ExecutionState: [id, started, text]
    thrown,
    \* history
    last,         \* the id of the last command that was armed
    disturbed,    \* see CommandMarkers
    unseen        \* a descriptor changed without a call the recorder observes

hooks == <<at_prompt, skip_debug, sequence, active_command, trap>>
lines == <<typed, newest, does>>
channel == <<table, aliases, unseen>>
protocol == <<fields, pending_field, active, thrown, last>>
bvars == <<pc, next, hooks, lines, channel, protocol, disturbed>>

NoLine == [n |-> 0, size |-> 0]
Does == {"nothing", "simple", "group", "forget", "exec", "redirect", "unseen",
         "meddle", "exit"}
StartStep == {"start", "s_print", "s_history", "s_nul"}
PromptStep == {"p_trap", "p_end", "p_reset", "p_count", "p_set", "p_arm", "p_at",
               "p_skip", "p_debug"}
HookStep == StartStep \cup PromptStep

\* A field of a marker: a letter, a number, a text or a line of the history
Field(kind, value, size) == [kind |-> kind, value |-> value, size |-> size]
Letter(kind) == Field(kind, 0, 1)
Number(n) == Field("number", n, 1)
Text == Field("text", 0, 1)
Empty == Field("empty", 0, 0)

BInit ==
    /\ pc = "prompt" /\ next = "p_trap"
    /\ at_prompt = FALSE /\ skip_debug = 0 /\ sequence = 0 /\ active_command = 0
    /\ trap = FALSE
    /\ typed = 0 /\ newest = NoLine /\ does = "nothing"
    /\ table = [f \in Fd |-> CASE f = Stdout -> "other" [] f = Context -> "channel"
                               [] OTHER -> "free"]
    /\ aliases = {Context}
    /\ fields = << >> /\ pending_field = Empty
    /\ active = [id |-> 0, started |-> FALSE, text |-> 0]
    /\ thrown = FALSE
    /\ last = 0 /\ disturbed = FALSE /\ unseen = FALSE

-----------------------------------------------------------------------------
(* The descriptors.  k = [table, aliases]; observe follows each call.      *)

\* Mutant: an alias is never taken back.
assign_alias_only(set, fd, is_alias) == IF is_alias THEN set \cup {fd} ELSE set

assign_alias(set, fd, is_alias) == IF is_alias THEN set \cup {fd} ELSE set \ {fd}

\* dup, dup2, dup3 and fcntl(F_DUPFD); a call that fails changes nothing
Dup(k, from, to) ==
    IF k.table[from] = "free" \/ from = to THEN k
    ELSE [table |-> [k.table EXCEPT ![to] = k.table[from]],
          aliases |-> assign_alias(k.aliases, to, from \in k.aliases)]

Close(k, fd) ==
    IF k.table[fd] = "free" THEN k
    ELSE [table |-> [k.table EXCEPT ![fd] = "free"], aliases |-> k.aliases \ {fd}]

Free(k) == Min({f \in Fd : f >= Context /\ k.table[f] = "free"})

\* exec fd>file: the file gets a free descriptor and is moved to fd.
Open(k, fd) ==
    LET tmp == Free(k)
        opened == [k EXCEPT !.table[tmp] = "other"]
    IN  IF fd = tmp THEN opened ELSE Close(Dup(opened, tmp, fd), tmp)

Now == [table |-> table, aliases |-> aliases]

\* A builtin with >&"$WHYRUN_CONTEXT_FD": standard output is saved, and restored
\* when it was open.
Redirected ==
    LET k == Now
        open == table[Stdout] # "free"
        saved == Free(k)
        during == Dup(IF open THEN Dup(k, Stdout, saved) ELSE k, Context, Stdout)
    IN  [during |-> during,
         after |-> IF open THEN Close(Dup(during, saved, Stdout), saved)
                   ELSE Close(during, Stdout)]

\* The write reaches the channel; the recorder takes it for one that does.
Reaches == table[Context] # "free" /\ Redirected.during.table[Stdout] = "channel"
receives == table[Context] # "free" /\ Stdout \in Redirected.during.aliases

-----------------------------------------------------------------------------
(* CommandProtocol *)

\* What follows an unfinished field is appended to it.  A field that contains a
\* line of the history contains its prefix.
Joined(a, b) ==
    CASE a = Empty -> b
      [] b = Empty -> a
      [] OTHER -> Field(IF "line" \in {a.kind, b.kind} THEN "line" ELSE "mixed",
                        IF a.kind = "line" THEN a.value ELSE b.value, a.size + b.size)

Marker(type, id, text) == [type |-> type, id |-> id, text |-> text]
decode_record(f) ==
    IF f[2].kind # "number" \/ f[2].value = 0 THEN Marker("bad", 0, 0)
    ELSE CASE f[1].kind = "A" /\ f[4] = Empty -> Marker("arm", f[2].value, 0)
           [] f[1].kind = "S" /\ f[4].kind = "line" ->
                Marker("start", f[2].value, f[4].value)
           [] f[1].kind = "E" /\ f[3].kind = "number" -> Marker("end", f[2].value, 0)
           [] OTHER -> Marker("bad", 0, 0)

\* on_command_marker of ExecutionState, for the shell
on_command_marker(m) ==
    CASE m.type = "arm" /\ active.id = 0 ->
           /\ active' = [id |-> m.id, started |-> FALSE, text |-> 0]
           /\ last' = m.id
           /\ thrown' = FALSE
      [] m.type = "start" /\ active.id = m.id /\ ~active.started ->
           /\ active' = [active EXCEPT !.started = TRUE, !.text = m.text]
           /\ UNCHANGED <<last, thrown>>
      [] m.type = "end" /\ active.id = m.id /\ active.started ->
           /\ active' = [id |-> 0, started |-> FALSE, text |-> 0]
           /\ UNCHANGED <<last, thrown>>
      [] OTHER -> thrown' = TRUE /\ UNCHANGED <<active, last>>

\* Mutant: a field of the greatest length is refused.
TooLong_equal(size) == size >= MaxField

TooLong(size) == size > MaxField

\* consume: a write ends some fields and leaves one open.  It has at most four
\* fields and fewer than four are pending, so it completes one marker at most.
consume(ended, open) ==
    LET first == IF ended = << >> THEN << >>
                 ELSE <<Joined(pending_field, Head(ended))>> \o Tail(ended)
        rest == IF ended = << >> THEN Joined(pending_field, open) ELSE open
        all == fields \o first
    IN  IF \E f \in Range(Append(all, rest)) : TooLong(f.size)
        THEN thrown' = TRUE /\ UNCHANGED <<fields, pending_field, active, last>>
        ELSE /\ pending_field' = rest
             /\ IF Len(all) < 4
                THEN fields' = all /\ UNCHANGED <<active, thrown, last>>
                ELSE /\ fields' = SubSeq(all, 5, Len(all))
                     /\ on_command_marker(decode_record(all))

\* A statement writes and goes on at the given place, unless the recorder throws:
\* then the guard kills the shell.
Write(ended, open, goto) ==
    /\ IF receives THEN consume(ended, open) ELSE UNCHANGED protocol
    /\ table' = Redirected.after.table /\ aliases' = Redirected.after.aliases
    /\ UNCHANGED unseen
    /\ pc' = IF thrown' THEN "gone" ELSE goto

-----------------------------------------------------------------------------
(* __whyrun_start, the DEBUG trap *)

\* Before a simple command the shell runs the trap, if there is one.
Debug(goto) ==
    /\ pc' = IF trap THEN "start" ELSE goto
    /\ next' = IF trap THEN goto ELSE next

start_checks ==
    /\ pc = "start"
    /\ \/ /\ skip_debug > 0
          /\ skip_debug' = skip_debug - 1
          /\ pc' = next
          /\ UNCHANGED at_prompt
       \/ /\ skip_debug = 0 /\ at_prompt
          /\ at_prompt' = FALSE
          /\ pc' = "s_print"
          /\ UNCHANGED skip_debug
       \/ /\ skip_debug = 0 /\ ~at_prompt
          /\ pc' = next
          /\ UNCHANGED <<at_prompt, skip_debug>>
    /\ UNCHANGED <<next, sequence, active_command, trap, lines, channel, protocol, disturbed>>

start_prints ==
    /\ pc = "s_print"
    /\ Write(<<Letter("S"), Number(active_command), Text>>, Empty, "s_history")
    /\ UNCHANGED <<next, hooks, lines, disturbed>>

start_history ==
    /\ pc = "s_history"
    /\ Write(<< >>, IF newest.n = 0 THEN Empty
                   ELSE Field("line", newest.n, newest.size), "s_nul")
    /\ disturbed' = (disturbed \/ newest.n = 0)
    /\ UNCHANGED <<next, hooks, lines>>

start_ends ==
    /\ pc = "s_nul"
    /\ Write(<<Empty>>, Empty, next)
    /\ UNCHANGED <<next, hooks, lines, disturbed>>

__whyrun_start == start_checks \/ start_prints \/ start_history \/ start_ends

-----------------------------------------------------------------------------
(* __whyrun_prompt, which PROMPT_COMMAND runs *)

PROMPT_COMMAND ==
    /\ pc = "prompt"
    /\ Debug("p_trap")
    /\ UNCHANGED <<hooks, lines, channel, protocol, disturbed>>

\* Statements that only set variables of the shell
Assign(from, goto) ==
    /\ pc = from /\ pc' = goto
    /\ UNCHANGED <<next, lines, channel, protocol, disturbed>>

prompt_untraps ==
    /\ Assign("p_trap", "p_end")
    /\ trap' = FALSE
    /\ UNCHANGED <<at_prompt, skip_debug, sequence, active_command>>

prompt_ends ==
    /\ pc = "p_end"
    /\ \/ /\ active_command > 0
          /\ Write(<<Letter("E"), Number(active_command), Number(0), Text>>, Empty,
                   "p_reset")
       \/ /\ active_command = 0
          /\ pc' = "p_count"
          /\ UNCHANGED <<channel, protocol>>
    /\ UNCHANGED <<next, hooks, lines, disturbed>>

prompt_resets ==
    /\ Assign("p_reset", "p_count")
    /\ active_command' = 0
    /\ UNCHANGED <<at_prompt, skip_debug, sequence, trap>>

\* Mutant: the counter is taken from the command that was active, which is reset.
prompt_counts_active ==
    /\ Assign("p_count", "p_set")
    /\ sequence < MaxCommand
    /\ sequence' = active_command + 1
    /\ UNCHANGED <<at_prompt, skip_debug, active_command, trap>>

prompt_counts ==
    /\ Assign("p_count", "p_set")
    /\ sequence < MaxCommand
    /\ sequence' = sequence + 1
    /\ UNCHANGED <<at_prompt, skip_debug, active_command, trap>>

prompt_sets ==
    /\ Assign("p_set", "p_arm")
    /\ active_command' = sequence
    /\ UNCHANGED <<at_prompt, skip_debug, sequence, trap>>

prompt_arms ==
    /\ pc = "p_arm"
    /\ Write(<<Letter("A"), Number(active_command), Text, Empty>>, Empty, "p_at")
    /\ UNCHANGED <<next, hooks, lines, disturbed>>

prompt_at ==
    /\ Assign("p_at", "p_skip")
    /\ at_prompt' = TRUE
    /\ UNCHANGED <<skip_debug, sequence, active_command, trap>>

\* Mutant: skips add up.
prompt_skips_add ==
    /\ Assign("p_skip", "p_debug")
    /\ skip_debug' = skip_debug + 1
    /\ UNCHANGED <<at_prompt, sequence, active_command, trap>>

prompt_skips ==
    /\ Assign("p_skip", "p_debug")
    /\ skip_debug' = 1
    /\ UNCHANGED <<at_prompt, sequence, active_command, trap>>

\* The new trap is run before the return statement that follows.
prompt_traps ==
    /\ pc = "p_debug"
    /\ trap' = TRUE
    /\ pc' = "start" /\ next' = "idle"
    /\ UNCHANGED <<at_prompt, skip_debug, sequence, active_command, lines, channel,
                   protocol, disturbed>>

__whyrun_prompt ==
    prompt_untraps \/ prompt_ends \/ prompt_resets \/ prompt_counts \/ prompt_sets
      \/ prompt_arms \/ prompt_at \/ prompt_skips \/ prompt_traps

-----------------------------------------------------------------------------
(* The user *)

\* An empty line, or Ctrl-C at the prompt, leads to the next prompt: the trap
\* before PROMPT_COMMAND makes a command of it.
EnterNothing ==
    /\ pc = "idle" /\ pc' = "prompt"
    /\ does' = "nothing"
    /\ UNCHANGED <<next, hooks, typed, newest, channel, protocol, disturbed>>

\* Mutant: HISTCONTROL is not cleared, and the line is one that it leaves out.
Remembered_ignored(old, new) == IF old = NoLine THEN new ELSE old

\* HISTFILE, HISTCONTROL and HISTIGNORE are empty: every line is kept.
Remembered(old, new) == new

\* The line goes to the history before it is run.  A subshell or the definition of
\* a function is not a simple command.
EnterLine ==
    /\ pc = "idle"
    /\ does' \in Does \ {"nothing"}
    /\ \E size \in LineSize :
         /\ newest' = Remembered(newest, [n |-> typed + 1, size |-> size])
         /\ disturbed' = (disturbed \/ size > MaxField)
    /\ typed' = typed + 1
    /\ IF does' = "group" THEN pc' = "run" /\ UNCHANGED next ELSE Debug("run")
    /\ UNCHANGED <<hooks, channel, protocol>>

\* The next simple command of the line
RunMore ==
    /\ pc = "run" /\ does = "simple"
    /\ Debug("run")
    /\ UNCHANGED <<hooks, lines, channel, protocol, disturbed>>

RunDone ==
    /\ pc = "run" /\ does \in {"simple", "group"}
    /\ pc' = "prompt"
    /\ UNCHANGED <<next, hooks, lines, channel, protocol, disturbed>>

\* history -c; exec bash, which inherits the exported variables and no trap
RunForget ==
    /\ pc = "run" /\ does \in {"forget", "exec"}
    /\ pc' = "prompt"
    /\ newest' = NoLine
    /\ trap' = (trap /\ does = "forget")
    /\ UNCHANGED <<next, at_prompt, skip_debug, sequence, active_command, typed, does,
                   channel, protocol, disturbed>>

\* exec with a redirection: the shell's own descriptors change.
RunRedirect ==
    /\ pc = "run" /\ does = "redirect"
    /\ pc' = "prompt"
    /\ \E fd \in Fd \ {Max(Fd)} :
         LET ks == {Close(Now, fd), Open(Now, fd)}
                     \cup {Dup(Now, from, fd) : from \in Fd \ {fd}}
         IN  \E k \in ks : table' = k.table /\ aliases' = k.aliases
    /\ disturbed' = (disturbed \/ table'[Context] # "channel")
    /\ UNCHANGED <<next, hooks, lines, unseen, protocol>>

\* Descriptors change by other means: close_range, or a close at exec.
RunUnseen ==
    /\ pc = "run" /\ does = "unseen"
    /\ pc' = "prompt"
    /\ \E fd \in Fd \ {Max(Fd)} : table' = [table EXCEPT ![fd] = "free"]
    /\ unseen' = TRUE
    /\ disturbed' = TRUE
    /\ UNCHANGED <<next, hooks, lines, aliases, protocol>>

\* The user writes to the channel.
RunMeddle ==
    /\ pc = "run" /\ does = "meddle"
    /\ Write(<< >>, Text, "prompt")
    /\ disturbed' = TRUE
    /\ UNCHANGED <<next, hooks, lines>>

\* Ctrl-C inside a hook: back to the prompt.
Interrupt ==
    /\ pc \in HookStep
    /\ pc' = "prompt"
    /\ disturbed' = TRUE
    /\ UNCHANGED <<next, hooks, lines, channel, protocol>>

\* exit, Ctrl-D or a signal.  The loop ends and finish() looks at what is pending.
Leave ==
    /\ pc # "gone"
    /\ pc' = "gone"
    /\ thrown' = (fields # << >> \/ pending_field # Empty)
    /\ disturbed' = (disturbed \/ pc \in HookStep)
    /\ UNCHANGED <<next, hooks, lines, channel, fields, pending_field, active, last>>

Shell == PROMPT_COMMAND \/ __whyrun_start \/ __whyrun_prompt
User == EnterNothing \/ EnterLine \/ RunMore \/ RunDone \/ RunForget \/ RunRedirect
          \/ RunUnseen \/ RunMeddle \/ Interrupt \/ Leave

BNext == Shell \/ User

\* The shell runs its hooks; nothing is assumed of the user and the commands.
BSpec == BInit /\ [][BNext]_bvars /\ WF_bvars(Shell)

-----------------------------------------------------------------------------
(* Properties *)

\* The variables of the hooks and of the decoder are well formed.
BTypeOK ==
    /\ pc \in HookStep \cup {"prompt", "idle", "run", "gone"}
    /\ next \in {"p_trap", "idle", "run"}
    /\ at_prompt \in BOOLEAN /\ trap \in BOOLEAN
    /\ skip_debug \in {0, 1}
    /\ {sequence, active_command, last, active.id} \subseteq 0 .. MaxCommand
    /\ newest.n \in 0 .. typed
    /\ Len(fields) < 4
    /\ pending_field.size <= MaxField

\* The stage of CommandMarkers that the shell and the recorder are at
Stage ==
    CASE pc = "gone" -> "over"
      [] pc # "gone" /\ active.id = 0 -> "idle"
      [] pc # "gone" /\ active.id # 0 -> IF active.started THEN "running" ELSE "armed"

Markers == INSTANCE CommandMarkers WITH stage <- Stage, id <- last, broken <- thrown

\* The hooks keep the promise of CommandMarkers for every kind of line: also for
\* the ones that start no trap, for several commands on a line, for an empty line,
\* and in the shell that replaces the first one.
ImplementsMarkers == Markers!MSpec

\* The recorder takes a write for one to the channel exactly when it is one,
\* whatever the user did to the shell's descriptors by calls that it observes.
HeardIffWritten ==
    ~unseen => /\ receives <=> Reaches
               /\ aliases = {f \in Fd : table[f] = "channel"}

\* The text of a command is the line that was entered for it; an empty line has
\* none and gets the text of the line before.
StartNamesTheLine ==
    active.started /\ ~disturbed /\ does # "nothing" => active.text = typed

\* A command that has run is closed before the next prompt, unless the session is
\* disturbed or over.
LinesAreClosed ==
    \A c \in 1 .. MaxCommand :
      (pc = "prompt" /\ active.id = c /\ ~disturbed)
        ~> (active.id # c \/ disturbed \/ (pc = "gone" /\ ~thrown))
=============================================================================
