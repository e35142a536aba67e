---- MODULE MCProjectClient ----
EXTENDS ProjectClient, TLC
CONSTANTS w1, w2
====
