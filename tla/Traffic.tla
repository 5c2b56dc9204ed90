------------------------------ MODULE Traffic -------------------------------
(***************************************************************************)
(* TrafficPriorityController of crates/bashfuldb-ops: background tasks     *)
(* yield to client requests.  The two counters are atomics; a step is one  *)
(* access to one of them, or one call of Notify.  notify_waiters wakes the *)
(* tasks whose notified() has been called, and no others.                  *)
(***************************************************************************)
EXTENDS Naturals, FiniteSets

CONSTANTS
  Client, Background, \* requests and background tasks
  BackgroundLimit,    \* background_limit_while_busy
  MaxRounds           \* bound: requests and tasks started

ASSUME TrafficAssumption == IsFiniteSet(Client) /\ BackgroundLimit \in Nat

VARIABLES
  client,   \* client[c]: "idle", "busy" (holds a guard) or "leaving" (guard half dropped)
  task,     \* task[t]: where background task t is
  clients_read, \* clients_read[t]: the client count t has loaded
  client_in_flight, active_background, \* the atomics
  rounds,   \* requests and tasks started
  missed    \* history: tasks that fell asleep on counts loaded before the last notification

trafficVars == <<client, task, clients_read, client_in_flight, active_background, rounds, missed>>

TrafficInit ==
  /\ client = [c \in Client |-> "idle"]
  /\ task = [t \in Background |-> "idle"]
  /\ clients_read = [t \in Background |-> 0]
  /\ client_in_flight = 0 /\ active_background = 0
  /\ rounds = 0
  /\ missed = {}

Begin == rounds < MaxRounds /\ rounds' = rounds + 1
TaskTo(t, pc) == task' = [task EXCEPT ![t] = pc]

\* acquire_client.
AcquireClient(c) ==
  /\ client[c] = "idle" /\ Begin
  /\ client' = [client EXCEPT ![c] = "busy"]
  /\ client_in_flight' = client_in_flight + 1
  /\ UNCHANGED <<task, clients_read, active_background, missed>>

\* notify_waiters: whoever sleeps wakes up; whoever has loaded a count and is on
\* the way to sleep is not woken.
Woken(ts) == [t \in Background |-> IF ts[t] = "asleep" THEN "load" ELSE ts[t]]
NotWoken(ts) == {t \in Background : ts[t] \in {"loaded", "sleepy"}}

\* Drop of the guard: the count first, then the notification.
ReleaseClient(c) ==
  /\ client[c] = "busy"
  /\ client' = [client EXCEPT ![c] = "leaving"]
  /\ client_in_flight' = client_in_flight - 1
  /\ UNCHANGED <<task, clients_read, active_background, rounds, missed>>

NotifyRelease_Forgotten(c) ==
  /\ client[c] = "leaving"
  /\ client' = [client EXCEPT ![c] = "idle"]
  /\ UNCHANGED <<task, clients_read, client_in_flight, active_background, rounds, missed>>

NotifyRelease(c) ==
  /\ client[c] = "leaving"
  /\ client' = [client EXCEPT ![c] = "idle"]
  /\ task' = Woken(task) /\ missed' = NotWoken(task)
  /\ UNCHANGED <<clients_read, client_in_flight, active_background, rounds>>

\* run_background calls background_yield_if_needed.
StartBackground(t) ==
  /\ task[t] = "idle" /\ Begin
  /\ TaskTo(t, "load")
  /\ UNCHANGED <<client, clients_read, client_in_flight, active_background, missed>>

\* The loop: the client count is loaded, then the background count; the task goes
\* on or waits for a notification.
LoadClients(t) ==
  /\ task[t] = "load"
  /\ clients_read' = [clients_read EXCEPT ![t] = client_in_flight]
  /\ TaskTo(t, "loaded")
  /\ missed' = missed \ {t}
  /\ UNCHANGED <<client, client_in_flight, active_background, rounds>>

LoadBackground(t) ==
  /\ task[t] = "loaded"
  /\ TaskTo(t, IF clients_read[t] = 0 \/ active_background < BackgroundLimit
               THEN "go" ELSE "sleepy")
  /\ UNCHANGED <<client, clients_read, client_in_flight, active_background, rounds, missed>>

Sleep(t) ==
  /\ task[t] = "sleepy"
  /\ TaskTo(t, "asleep")
  /\ UNCHANGED <<client, clients_read, client_in_flight, active_background, rounds, missed>>

\* The count, the operation, the count again, and the notification.
EnterBackground(t) ==
  /\ task[t] = "go"
  /\ TaskTo(t, "running")
  /\ active_background' = active_background + 1
  /\ UNCHANGED <<client, clients_read, client_in_flight, rounds, missed>>

LeaveBackground(t) ==
  /\ task[t] = "running"
  /\ TaskTo(t, "notify")
  /\ active_background' = active_background - 1
  /\ UNCHANGED <<client, clients_read, client_in_flight, rounds, missed>>

NotifyLeave(t) ==
  /\ task[t] = "notify"
  /\ task' = Woken([task EXCEPT ![t] = "idle"]) /\ missed' = NotWoken(task)
  /\ UNCHANGED <<client, clients_read, client_in_flight, active_background, rounds>>

TrafficNext ==
  \/ \E c \in Client : AcquireClient(c) \/ ReleaseClient(c) \/ NotifyRelease(c)
  \/ \E t \in Background :
       \/ StartBackground(t) \/ LoadClients(t) \/ LoadBackground(t) \/ Sleep(t)
       \/ EnterBackground(t) \/ LeaveBackground(t) \/ NotifyLeave(t)

-----------------------------------------------------------------------------
(* A background task sleeps only while it has to, or until a notification that is
   about to come.  The one exception is a task that loaded its counts before the
   last notification and called notified() after it: background_yield_if_needed
   registers for the notification only after both loads, so that task sleeps on,
   with no client left, until some later client or task finishes.            *)
SleepsOnlyIfBlocked ==
  \A t \in Background : task[t] = "asleep" /\ t \notin missed =>
    \/ client_in_flight > 0 /\ active_background >= BackgroundLimit
    \/ \E c \in Client : client[c] = "leaving"
    \/ \E u \in Background : task[u] = "notify"
=============================================================================
