---------------------------- MODULE NorflashHook ----------------------------
(***************************************************************************)
(* Who calls norflash_api_flush: the norflash thread of services/          *)
(* norflash_api/norflash_api.cpp, composed with the service of NorflashApi.*)
(*                                                                         *)
(* An asynchronous call, accepted or refused, puts a message into the      *)
(* mailbox.  For a message the thread makes one round: it calls the hooks  *)
(* of all users, norflash_api_flush first, again and again until every one *)
(* answers 0.  It answers 0 also while flushing is not allowed, and        *)
(* norflash_api_flush_enable wakes nobody: what is queued then waits for   *)
(* the next call of some module.                                           *)
(*                                                                         *)
(* A put is one step here, with a counter that is exact or has wrapped;    *)
(* NorflashThread has its steps and shows how it comes to wrap.            *)
(***************************************************************************)
EXTENDS NorflashApi

NORFLASH_API_MAILBOX_MAX == 2

VARIABLES
    mails,  \* messages in mail_box_mq_id
    hook,   \* the thread: "wait", in a "round", or "done" with it
    missed  \* history: the thread's last flush was not allowed, or a wake-up
            \* since then was refused by a wrapped counter

mailbox  == <<mails, hook, missed>>
hookVars == <<vars, mailbox>>

HookTypeOK ==
    /\ mails \in 0 .. NORFLASH_API_MAILBOX_MAX
    /\ hook \in {"wait", "round", "done"}
    /\ missed \in BOOLEAN

HookInit ==
    /\ Init
    /\ mails = 0 /\ hook = "wait" /\ missed = FALSE

-----------------------------------------------------------------------------
(* Waking the thread.                                                      *)

\* The message of the round in progress counts until it is freed.
mailbox_cnt == mails + (IF hook = "wait" THEN 0 ELSE 1)

\* _norflash_api_mailbox_put: the message is queued, refused because the
\* mailbox is full, or refused because the counter has wrapped.
MailboxPut ==
    /\ \/ /\ mailbox_cnt < NORFLASH_API_MAILBOX_MAX
          /\ mails' = mails + 1 /\ missed' = missed
       \/ /\ mailbox_cnt >= NORFLASH_API_MAILBOX_MAX
          /\ UNCHANGED <<mails, missed>>
       \/ mails' = mails /\ missed' = TRUE
    /\ hook' = hook

\* By itself, and at the end of a call that found no node or no buffer.
norflash_api_hook_activate == Running /\ MailboxPut /\ UNCHANGED vars

-----------------------------------------------------------------------------
(* _norflash_api_thread.                                                   *)

MailboxGet ==
    /\ hook = "wait" /\ mails > 0
    /\ hook' = "round" /\ mails' = mails - 1
    /\ UNCHANGED <<vars, missed>>

\* Mutant: the hooks are called once, whatever they answer.
MutRoundOnce ==
    /\ hook = "round"
    /\ norflash_api_flush
    /\ hook' = "done"
    /\ missed' = ~flush_is_allowed
    /\ mails' = mails

\* The flush that the hooks of a round begin with.  If it answers 0 another
\* user's hook may still ask for one more iteration.
RoundFlush ==
    /\ hook = "round"
    /\ norflash_api_flush
    /\ hook' \in IF FlushReturns0 \/ get_cur_mod' = NoMod
                 THEN {"round", "done"} ELSE {"round"}
    /\ missed' = ~flush_is_allowed
    /\ mails' = mails

MailboxFree ==
    /\ hook = "done"
    /\ hook' = "wait"
    /\ UNCHANGED <<vars, mails, missed>>

-----------------------------------------------------------------------------
HookClient ==
    \/ \E m \in Mods, s \in Secs : EraseAsync(m, s) /\ MailboxPut
    \/ \E m \in Mods, s \in Secs, o \in Offs, l \in 1 .. SecLen,
          v \in SUBSET Bits : WriteAsync(m, s, o, l, v) /\ MailboxPut
    \/ norflash_api_hook_activate
    \/ /\ \/ \E m \in Mods : norflash_api_register(m)
          \/ \E c \in Call : SyncCall(c)
          \/ \E user \in Users : norflash_api_flush_disable(user)
          \/ \E user \in Users : norflash_api_flush_enable(user)
       /\ UNCHANGED mailbox

\* norflash_api_flush here is a call of some other thread.
Others ==
    /\ \/ \E user \in Users : CpInitDone(user)
       \/ norflash_api_flush
       \/ SyncFlush
       \/ SyncOperate
    /\ UNCHANGED mailbox

HookNext ==
    \/ HookClient
    \/ Others
    \/ MailboxGet
    \/ RoundFlush
    \/ MailboxFree

HookSpec == HookInit /\ [][HookNext]_hookVars

\* A call of a round in which the chip finishes an operation.
RoundCompletes ==
    /\ RoundFlush
    /\ \E m \in Mods : HasWork(m) /\ OperaCompletes(m)

\* The thread gets the core when the others sleep; its round is a loop; a
\* synchronous call runs to its end; the chip gets on between interrupts, so
\* that an operation is not suspended for ever.
HookLiveSpec ==
    /\ HookSpec
    /\ WF_hookVars(MailboxGet)
    /\ WF_hookVars(RoundFlush)
    /\ WF_hookVars(MailboxFree)
    /\ SF_hookVars(RoundCompletes)
    /\ WF_hookVars(SyncFlush /\ UNCHANGED mailbox)
    /\ WF_hookVars(SyncOperate /\ UNCHANGED mailbox)

-----------------------------------------------------------------------------
(* Properties.                                                             *)

Drained == \A m \in Mods : opera_info[m] = {}

\* When the thread sleeps and no message waits for it, nothing is queued: a
\* call that comes at the end of a round, or finds the mailbox full, does not
\* leave its operation behind.  Left out are a last flush that was not
\* allowed (norflash_api_flush_enable wakes nobody) and a wake-up refused by
\* a wrapped counter.
NothingLeftBehind == hook = "wait" /\ mails = 0 => Drained \/ missed

\* Once the modules stop calling every queued operation reaches the chip,
\* whatever was suspended and whoever closed the window before; unless the
\* thread's last flush was not allowed, the last wake-up did not get through,
\* or a synchronous call waits for ever, with interrupts masked, for a window
\* that stays closed.
DrainsWhenQuiet ==
    \/ []<><<HookClient>>_hookVars
    \/ <>[]missed
    \/ <>[](~Running /\ ~flush_is_allowed)
    \/ <>[]Drained

=============================================================================
