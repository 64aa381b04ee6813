---------------------------- MODULE MCAppointments ----------------------------
EXTENDS AppointmentsProps, TLC

Symmetry ==
    Permutations(Workers) \cup Permutations(Processes) \cup Permutations(Appointments)
=============================================================================
