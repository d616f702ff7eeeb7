---------------------------- MODULE MC_Classifier ----------------------------
EXTENDS Classifier

\* Four templates of the reward and home screens, in the order sorted()
\* lists their files ("clear-ok_1.jpg" < "home_1.jpg" < ...).
MC_LoadOrder == <<"clear-ok", "home", "reward-next", "special-reward">>

\* A dark score, one at the 0.3 bound, one at the 0.6 bound, a strong one.
MC_Levels == {10, 30, 60, 85}
=============================================================================
