--------------------------------- MODULE Out ---------------------------------
(***************************************************************************)
(* Errors as src/src/out.c and its callers hand them to the application:    *)
(* errno and the last error message, both kept per thread.  A message is    *)
(* the place that wrote it and the errno it quotes; wording and log output  *)
(* are left out.                                                            *)
(*                                                                          *)
(* `failed' is not in the code: it is the place and the errno of what went  *)
(* wrong in the thread's last call, or Fine.                                *)
(***************************************************************************)
CONSTANTS
    Threads     \* the threads of the application

VARIABLES
    errno,      \* errno[t]
    errormsg,   \* Last_errormsg[t]: where it was written, which errno it quotes
    failed      \* failed[t]: what the thread's last call died of (history)

outVars == <<errno, errormsg, failed>>

Fine == [site |-> "none", err |-> "OK"]

\* struct errormsg of a thread that has seen no error: the empty string.
OutInit ==
    /\ errno = [t \in Threads |-> "OK"]
    /\ errormsg = [t \in Threads |-> Fine]
    /\ failed = [t \in Threads |-> Fine]

(***************************************************************************)
(* out_error: errno is saved on entry and put back on the way out, because  *)
(* formatting and printing may change it.                                   *)
(***************************************************************************)
Restored(oerrno) == oerrno

\* ERR("!site"): a library call has failed with e; the message quotes e.
Perror(t, site, e) ==
    /\ errno' = [errno EXCEPT ![t] = Restored(e)]
    /\ errormsg' = [errormsg EXCEPT ![t] = [site |-> site, err |-> e]]
    /\ failed' = [failed EXCEPT ![t] = [site |-> site, err |-> e]]

\* ERR("site") and errno = e: the message says what is wrong and quotes nothing.
Report(t, site, e) ==
    /\ errno' = [errno EXCEPT ![t] = e]
    /\ errormsg' = [errormsg EXCEPT ![t] = [site |-> site, err |-> "OK"]]
    /\ failed' = [failed EXCEPT ![t] = [site |-> site, err |-> e]]

\* A failure that sets errno and writes no message (LOG is not ERR).
Silent(t, site, e) ==
    /\ errno' = [errno EXCEPT ![t] = e]
    /\ failed' = [failed EXCEPT ![t] = [site |-> site, err |-> e]]
    /\ UNCHANGED errormsg

\* Faulty variant: the restore is forgotten.
Saved_Lost(t, e) == errno' = [errno EXCEPT ![t] = "EIO"]

\* A call that may leave any errno behind, between a save and a restore of it:
\* the errno that counts is the saved one.
Saved(t, e) == errno' = [errno EXCEPT ![t] = e]

NoError == UNCHANGED outVars
==============================================================================
