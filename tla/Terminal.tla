------------------------------ MODULE Terminal ------------------------------
(***************************************************************************)
(* gui/apps/terminal.c and apps/shell/shell.c, with the window open.  A    *)
(* command line is one of a few lines: the keys before Enter, backspace    *)
(* and completion included, give any of them.  terminal_init clears lines  *)
(* and history, not the command that is being typed.                       *)
(***************************************************************************)
EXTENDS Naturals, Sequences, SequencesExt

CONSTANTS TERM_ROWS, MAX_HISTORY,
          MAX_COMMANDS          \* bound on the commands since terminal_init

ASSUME TerminalAssumption ==
    TERM_ROWS \in Nat \ {0} /\ MAX_HISTORY \in Nat \ {0} /\ MAX_COMMANDS \in Nat

VARIABLES term_lines, line_count,
          current_command,
          history, history_count,
          output,               \* lines the terminal has still to write
          written, executed     \* the last lines and commands since terminal_init

termVars == <<term_lines, line_count, current_command, history, history_count,
              output, written, executed>>

Commands == {"", " ", "help", "ls", "echo a", "other"}

\* What the shell passes to shell_out; the root node has no finddir.
Output(command) ==
    CASE command = "help" -> <<"commands">>
      [] command = "ls" -> <<"not found">>
      [] command = "echo a" -> <<"a", "nl">>
      [] command = "other" -> <<"unknown">>
      [] OTHER -> <<>>

Banner == <<"terminal", "type help">>

TermInit ==
    /\ term_lines = [i \in 0 .. TERM_ROWS - 1 |-> ""]
    /\ line_count = 0
    /\ current_command = ""
    /\ history = [i \in 0 .. MAX_HISTORY - 1 |-> ""]
    /\ history_count = 0
    /\ output = Banner
    /\ written = <<>>
    /\ executed = <<>>

terminal_init ==
    /\ output = <<>>
    /\ term_lines' = [i \in 0 .. TERM_ROWS - 1 |-> ""]
    /\ line_count' = 0
    /\ history' = [i \in 0 .. MAX_HISTORY - 1 |-> ""]
    /\ history_count' = 0
    /\ output' = Banner
    /\ written' = <<>>
    /\ executed' = <<>>
    /\ UNCHANGED current_command

\* The last n of a sequence.
Recent(s, n) == IF Len(s) > n THEN SubSeq(s, Len(s) - n + 1, Len(s)) ELSE s

\* Mutant: the lines are not shifted.
ScrolledNot(i) == term_lines[i]

Scrolled(i) == term_lines[i + 1]

terminal_writeln ==
    /\ output # <<>>
    /\ IF line_count < TERM_ROWS
       THEN /\ term_lines' = [term_lines EXCEPT ![line_count] = Head(output)]
            /\ line_count' = line_count + 1
       ELSE /\ term_lines' = [i \in 0 .. TERM_ROWS - 1 |->
                                 IF i = TERM_ROWS - 1 THEN Head(output) ELSE Scrolled(i)]
            /\ UNCHANGED line_count
    /\ output' = Tail(output)
    /\ written' = Recent(Append(written, Head(output)), TERM_ROWS)
    /\ UNCHANGED <<current_command, history, history_count, executed>>

Typed(line) ==
    /\ output = <<>>
    /\ current_command' = line
    /\ UNCHANGED <<term_lines, line_count, history, history_count, output, written, executed>>

\* Enter: the prompt line, then shell_execute, which ignores an empty command.
terminal_handle_input ==
    /\ output = <<>>
    /\ history_count < MAX_COMMANDS
    /\ output' = <<current_command>> \o Output(current_command)
    /\ IF current_command = "" THEN UNCHANGED <<history, history_count, executed>>
       ELSE /\ history' = [history EXCEPT ![history_count % MAX_HISTORY] = current_command]
            /\ history_count' = history_count + 1
            /\ executed' = Recent(Append(executed, current_command), MAX_HISTORY)
    /\ current_command' = ""
    /\ UNCHANGED <<term_lines, line_count, written>>

shell_get_history(index) == history[(history_count - 1 - index) % MAX_HISTORY]

shell_get_history_count == IF history_count > MAX_HISTORY THEN MAX_HISTORY ELSE history_count

TermNext ==
    \/ terminal_init \/ terminal_writeln \/ terminal_handle_input
    \/ \E line \in Commands : Typed(line)

TermSpec == TermInit /\ [][TermNext]_termVars

-----------------------------------------------------------------------------
(***************************************************************************)
(* The lines of the terminal are the last TERM_ROWS that were written, in  *)
(* order, and shell_get_history(i) is the i-th command back, for as many   *)
(* as shell_get_history_count says.                                        *)
(***************************************************************************)
ShowsRecent ==
    /\ line_count = Len(written)
    /\ \A i \in 1 .. line_count : term_lines[i - 1] = written[i]
    /\ shell_get_history_count = Len(executed)
    /\ \A i \in 0 .. shell_get_history_count - 1 :
          shell_get_history(i) = executed[Len(executed) - i]

=============================================================================
