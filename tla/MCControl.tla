------------------------------ MODULE MCControl ------------------------------
(* A small instance of Control: one topic with two partitions.              *)
EXTENDS Control

OneTopic == <<2>>

=============================================================================
