SPECIFICATION Spec
CONSTANT Tasks = {t1, t2}
INVARIANT RunningIsAlive
