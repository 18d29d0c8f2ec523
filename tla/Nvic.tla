-------------------------------- MODULE Nvic --------------------------------
(***************************************************************************)
(* The interrupt controller as wk_nvic_config() programs it (priority      *)
(* group 2, every subpriority 0) and as the Cortex-M4 arbitrates it: a     *)
(* request preempts a handler only with a strictly smaller preemption      *)
(* priority, and among requests of equal priority the lowest interrupt     *)
(* number goes first.                                                      *)
(***************************************************************************)
EXTENDS Integers

\* The interrupt sources wk_nvic_config enables.
Irqs == {"DMA1_CH1", "DMA1_CH2", "DMA1_CH3", "DMA1_CH5", "DMA1_CH7",
         "CAN1_RX0", "CAN1_SE", "USART1", "TMR5"}

Contexts == Irqs \cup {"main"}

MSpiBelowFoc(c) == IF c \in Irqs THEN 1 ELSE 99

MErrorOne(c) == IF c \in {"DMA1_CH3", "DMA1_CH5"} THEN 0
                ELSE IF c \in Irqs THEN 1 ELSE 99

MTmr5Zero(c) == IF c \in {"DMA1_CH3", "DMA1_CH5", "TMR5"} THEN 0
                ELSE IF c \in Irqs THEN 1 ELSE 99

\* Preemption priorities; main runs below every handler.
Priority(c) == IF c \in {"DMA1_CH3", "DMA1_CH5"} THEN 0
               ELSE IF c \in {"CAN1_RX0", "CAN1_SE"} THEN 2
               ELSE IF c \in Irqs THEN 1 ELSE 99

\* Position in the vector table of the AT32F403A.
IrqNumber(i) == CASE i = "DMA1_CH1" -> 11
                  [] i = "DMA1_CH2" -> 12
                  [] i = "DMA1_CH3" -> 13
                  [] i = "DMA1_CH5" -> 15
                  [] i = "DMA1_CH7" -> 17
                  [] i = "CAN1_RX0" -> 20
                  [] i = "CAN1_SE"  -> 22
                  [] i = "USART1"   -> 37
                  [] i = "TMR5"     -> 50

\* i is taken before j when both are requested.
Before(i, j) == \/ Priority(i) < Priority(j)
                \/ Priority(i) = Priority(j) /\ IrqNumber(i) <= IrqNumber(j)

\* Request i is entered now: it preempts every active context and is first
\* among the requests.
Preempts(i, requests, active) == /\ i \in requests
                                 /\ \A c \in active : Priority(i) < Priority(c)
                                 /\ \A j \in requests : Before(i, j)

\* Context c executes: it is the innermost active one and no request preempts
\* it.
Executes(c, requests, active) == /\ c \in active
                                 /\ \A d \in active : Priority(c) <= Priority(d)
                                 /\ \A i \in requests : Priority(i) >= Priority(c)
=============================================================================
