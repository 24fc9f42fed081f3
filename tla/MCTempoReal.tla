----------------------------- MODULE MCTempoReal -----------------------------
(* Small instances of TempoReal for TLC. *)
EXTENDS TempoReal

CONSTANTS corretor, bloco

\* A broker with scope `own`, and a block of the calendar that is the broker's at first.
TopicoDasLinhas == [l \in Linhas |-> "calendar"]
OsDois == [c \in Clientes |-> {"calendar", "crm"}]
DoCorretor == [l \in Linhas |-> corretor]
=============================================================================
