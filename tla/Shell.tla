--------------------------------- MODULE Shell ---------------------------------
(***************************************************************************)
(* Asmt_2/shell.c: a prompt, a line, a child process for its command; the  *)
(* shell waits for the child unless the line ends with &.  The child sets  *)
(* up its own redirection between fork and execvp, while the shell goes    *)
(* on.                                                                     *)
(*                                                                         *)
(* A token is one of the operators, "exit" or any other word.  A line is   *)
(* its tokens and the number of its characters: the input buffer counts    *)
(* characters.  Bytes and pointers that the code reads without having      *)
(* written them are an additional word or none, and writing after the end  *)
(* of the input buffer leaves the shell in an undefined state.             *)
(***************************************************************************)
EXTENDS Integers, Sequences, FiniteSets, FiniteSetsExt

CONSTANTS
  BufBase,     \* buf_base_size, 80 in the code
  TokenBase,   \* token_buf_base_size, 20 in the code
  MaxTokens,   \* bound on the tokens of a line
  Lengths,     \* the numbers of characters of the lines, newline included
  MaxForks     \* bound on the children created

ASSUME ShellAssumption ==
  /\ {BufBase, TokenBase, MaxTokens, MaxForks} \subseteq Nat /\ BufBase >= 2
  /\ \A n \in Lengths : n \in Nat /\ n >= 2 * MaxTokens

\* ">" stands for ">>" too, which differs in the mode of fopen.
Redirects == {">", "<"}
Tokens == Redirects \cup {"&", "exit", "word"}
Lines == UNION {[1..n -> Tokens] : n \in 0..MaxTokens}
Pids == 1..MaxForks

VARIABLES
  step,       \* of the shell: "prompt", "run", "wait", "exited" or "undefined"
  token_buf,  \* the tokens of the line
  buf_size,   \* how large the shell takes input_buf to be
  capacity,   \* how large it is
  zeroed,     \* whether input_buf was filled with zeros before the line
  child_pid,  \* the child the shell waits for
  child       \* what became of each child

buffer == <<buf_size, capacity, zeroed>>
vars == <<step, token_buf, buffer, child_pid, child>>

\* A child: its state, whether the shell does not wait for it, and what it makes
\* of its copy of the line: whether that can be executed at all, and where
\* input and output will go.
Children ==
  [state : {"none", "setup", "running", "zombie", "reaped"},
   background : BOOLEAN, executable : BOOLEAN,
   stdin : {"terminal", "file"}, stdout : {"terminal", "file", "null"}]

NoChild == [state |-> "none", background |-> FALSE, executable |-> FALSE,
            stdin |-> "terminal", stdout |-> "terminal"]

\* A child that ended has closed its files, and is in the process table until the
\* shell reaps it.
Zombie(p) == [NoChild EXCEPT !.state = "zombie",
                             !.background = child[p].background]
Reaped == [NoChild EXCEPT !.state = "reaped"]

Init ==
  /\ step = "prompt"
  /\ token_buf = <<>>
  /\ buf_size = BufBase /\ capacity = BufBase
  /\ zeroed = FALSE
  /\ child_pid = 0
  /\ child = [p \in Pids |-> NoChild]

-----------------------------------------------------------------------------
(* What the child makes of the line                                        *)

\* find_redirect: the index, from 0, of the first redirection; 0 if there is
\* none or if it comes first
find_redirect(line) ==
  LET hits == {i \in 1..Len(line) : line[i] \in Redirects}
  IN  IF hits = {} THEN 0 ELSE Min(hits) - 1

\* is_background: & among the parameters, which end at the redirection
IsBackground(line) ==
  LET r == find_redirect(line) IN
  \E i \in 1..(IF r > 0 THEN r ELSE Len(line)) : line[i] = "&"

\* A redirection that comes last has the file name "", which cannot be opened.
\* Otherwise execvp may succeed, if need be with a name that was not written.
Executable(line) ==
  LET r == find_redirect(line) IN r > 0 => r + 1 < Len(line)

\* Faulty variant: the output of a command in the background is not dropped.
StdoutOf_Kept(line) ==
  LET r == find_redirect(line) IN
  IF r > 0 /\ line[r + 1] # "<" THEN "file" ELSE "terminal"

\* Where stdout goes: to /dev/null or to a file
StdoutOf(line) ==
  LET r == find_redirect(line) IN
  IF r = 0 THEN IF IsBackground(line) THEN "null" ELSE "terminal"
  ELSE IF line[r + 1] = "<" THEN "terminal" ELSE "file"

StdinOf(line) ==
  LET r == find_redirect(line)
  IN  IF r # 0 /\ line[r + 1] = "<" THEN "file" ELSE "terminal"

-----------------------------------------------------------------------------
(* The shell                                                               *)

\* buf_size after n characters, enlarged as often as they reach it
SizeAfter(n) ==
  LET half == BufBase \div 2 IN
  IF n <= buf_size THEN buf_size
  ELSE buf_size + half * ((n - buf_size + half - 1) \div half)

\* A character is written after the end of input_buf: the line is longer than
\* that, and the shell takes it to be larger.
Overflows(n) == n > capacity /\ capacity < buf_size

\* strtok, with the words it can find behind the newline, or those that the count
\* of line 79 finds in a token_buf that was enlarged
Tokenized(line, n) ==
  {line} \cup (IF zeroed /\ n < capacity /\ Len(line) < TokenBase THEN {}
               ELSE {Append(line, "word")})

\* The loop of getchar up to a newline, and strtok.  Bound: no line is read after
\* MaxForks children.
ReadLine(line, n) ==
  /\ step = "prompt"
  /\ \E p \in Pids : child[p].state = "none"
  /\ IF Overflows(n)
     THEN step' = "undefined" /\ UNCHANGED <<token_buf, buffer>>
     ELSE /\ step' = "run"
          /\ token_buf' \in Tokenized(line, n)
          /\ buf_size' = SizeAfter(n)
          /\ capacity' = IF n > buf_size THEN SizeAfter(n) ELSE capacity
          /\ UNCHANGED zeroed
  /\ UNCHANGED <<child_pid, child>>

\* End of file before a newline: the loop goes on until realloc fails or
\* buf_size overflows.
EndOfInput ==
  /\ step = "prompt"
  /\ step' \in {"exited", "undefined"}
  /\ UNCHANGED <<token_buf, buffer, child_pid, child>>

\* realloc of input_buf or token_buf fails (for the one of line 209, as the shell is
\* about to prompt).
ReallocFails ==
  /\ step \in {"prompt", "run"}
  /\ step' = "exited"
  /\ UNCHANGED <<token_buf, buffer, child_pid, child>>

\* free(token_buf); input_buf is brought down to its first size and cleared.
\* buf_size stays as it is.
Cleared ==
  /\ token_buf' = <<>>
  /\ capacity' = BufBase
  /\ zeroed' = TRUE
  /\ UNCHANGED buf_size

EmptyLine ==
  /\ step = "run" /\ token_buf = <<>>
  /\ Cleared
  /\ step' = "prompt"
  /\ UNCHANGED <<child_pid, child>>

\* strcmp(token_buf[0], "exit") == 0
Exit ==
  /\ step = "run" /\ token_buf # <<>> /\ token_buf[1] = "exit"
  /\ Cleared
  /\ step' = "exited"
  /\ UNCHANGED <<child_pid, child>>

\* strcmp(token_buf[token_buf_len - 1], "&") == 0
EndsInBackground == token_buf[Len(token_buf)] = "&"

\* fork; the shell waits for the child or goes back to the prompt.  The tokens are
\* not read again.
Fork(p) ==
  /\ step = "run" /\ token_buf # <<>> /\ token_buf[1] # "exit"
  /\ child[p].state = "none" /\ \A q \in 1..(p - 1) : child[q].state # "none"
  /\ child' = [child EXCEPT ![p] =
       [state |-> "setup", background |-> EndsInBackground,
        executable |-> Executable(token_buf),
        stdin |-> StdinOf(token_buf), stdout |-> StdoutOf(token_buf)]]
  /\ IF EndsInBackground
     THEN step' = "prompt" /\ Cleared /\ UNCHANGED child_pid
     ELSE step' = "wait" /\ child_pid' = p /\ token_buf' = <<>> /\ UNCHANGED buffer

ForkFails ==
  /\ step = "run" /\ token_buf # <<>> /\ token_buf[1] # "exit"
  /\ step' = "exited"
  /\ UNCHANGED <<token_buf, buffer, child_pid, child>>

\* Faulty variant: waitpid(-1, ...), for any child.
WaitPid_Any ==
  /\ step = "wait"
  /\ \E p \in Pids : /\ child[p].state = "zombie"
                     /\ child' = [child EXCEPT ![p] = Reaped]
  /\ Cleared
  /\ step' = "prompt"
  /\ UNCHANGED child_pid

\* waitpid(child_pid, &status, 0)
WaitPid ==
  /\ step = "wait"
  /\ child[child_pid].state = "zombie"
  /\ child' = [child EXCEPT ![child_pid] = Reaped]
  /\ Cleared
  /\ step' = "prompt"
  /\ UNCHANGED child_pid

-----------------------------------------------------------------------------
(* The child: the redirections, execvp, the command                        *)

\* The files are opened and execvp succeeds.
Exec(p) ==
  /\ child[p].state = "setup" /\ child[p].executable
  /\ child' = [child EXCEPT ![p].state = "running"]
  /\ UNCHANGED <<step, token_buf, buffer, child_pid>>

\* Faulty variant: without the exit after execvp the child is a second shell.
SetupFails_GoesOn(p) ==
  /\ child[p].state = "setup"
  /\ child' = [child EXCEPT ![p].state = "shell"]
  /\ UNCHANGED <<step, token_buf, buffer, child_pid>>

\* fopen or execvp fails, for which an argument that was not written is enough;
\* exit(-1).
SetupFails(p) ==
  /\ child[p].state = "setup"
  /\ child' = [child EXCEPT ![p] = Zombie(p)]
  /\ UNCHANGED <<step, token_buf, buffer, child_pid>>

\* The command ends.
CommandEnds(p) ==
  /\ child[p].state = "running"
  /\ child' = [child EXCEPT ![p] = Zombie(p)]
  /\ UNCHANGED <<step, token_buf, buffer, child_pid>>

-----------------------------------------------------------------------------
Child(p) == Exec(p) \/ SetupFails(p) \/ CommandEnds(p)

\* What the shell does without input
Runs ==
  EmptyLine \/ Exit \/ ForkFails \/ WaitPid \/ \E p \in Pids : Fork(p)

Next ==
  \/ \E line \in Lines, n \in Lengths : ReadLine(line, n)
  \/ EndOfInput \/ ReallocFails
  \/ Runs
  \/ \E p \in Pids : Child(p)

Spec == Init /\ [][Next]_vars

\* The shell and the children run; the commands end.  The user may stop typing.
Fairness == WF_vars(Runs) /\ \A p \in Pids : WF_vars(Child(p))

FairSpec == Spec /\ Fairness

-----------------------------------------------------------------------------
(* What holds of the shell.                                                *)

\* The values the variables can take.
TypeOK ==
  /\ step \in {"prompt", "run", "wait", "exited", "undefined"}
  /\ token_buf \in Seq(Tokens)
  /\ buf_size \in Nat /\ capacity \in Nat /\ zeroed \in BOOLEAN
  /\ child_pid \in Pids \cup {0}
  /\ child \in [Pids -> Children]

\* ANALYSIS:24-30, "the parent reaps the child's entry": when the shell asks for
\* the next line, or is gone, every child in the process table was started with
\* a & at the end of its line.
ForegroundFirst ==
  step # "wait" =>
    \A p \in Pids : child[p].state \in {"setup", "running", "zombie"}
                      => child[p].background

\* The shell decides by the last token whether to wait, the child by any token
\* before a redirection whether to be silent.  A command the shell does not wait
\* for writes to the terminal only if its input is redirected (lines 134 and
\* 191).
QuietInBackground ==
  \A p \in Pids :
    child[p].state = "running" /\ child[p].background
      => child[p].stdout # "terminal" \/ child[p].stdin = "file"

\* After every line the shell prompts again or ends (lines 82-217).
PromptReturns ==
  (step \in {"run", "wait"}) ~> (step \in {"prompt", "exited", "undefined"})

============================================================================
